--------------------------- MODULE MCProfileLock ---------------------------
(* Three sessions, one each of the service, of the warm-session tool and of an
   earlier process: the last two may die anywhere in create(), so the first two
   may both find, and race to clear, a stale lock. *)
EXTENDS ProfileLock, TLC

CONSTANTS s1, s2, s3, service, warm, earlier

MCSessions == {s1, s2, s3}
MCProcs == {service, warm, earlier}
MCProcOf == s1 :> service @@ s2 :> warm @@ s3 :> earlier
=============================================================================
