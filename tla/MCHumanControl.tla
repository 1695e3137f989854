--------------------------- MODULE MCHumanControl ---------------------------
(* One page of one session, two await-human calls, two MFA challenges and two
   submissions. *)
EXTENDS HumanControl, TLC

CONSTANTS s1, p1, a1, a2, r1, r2

MCPageSession == p1 :> s1
=============================================================================
