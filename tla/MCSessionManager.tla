-------------------------- MODULE MCSessionManager --------------------------
(* Sessions of the service and of the warm-session tool that share one
   persistent workspace. *)
EXTENDS SessionManager, TLC

CONSTANTS s1, s2, s3, service, warm, r1, r2

MCSessions == {s1, s2}
MCProcs == {service}
MCProcOf == s1 :> service @@ s2 :> service
MCOneSession == {s1}
MCProcOfOne == s1 :> service
MCSessionsTwoProcs == {s1, s3}
MCProcsTwo == {service, warm}
MCProcOfTwo == s1 :> service @@ s3 :> warm
(* Close requests, and the sessions of one process, are interchangeable. *)
MCSymmetry == Permutations({r1, r2}) \cup Permutations({s1, s2})
=============================================================================
