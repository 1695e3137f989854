---------------------------- MODULE MCTransport ----------------------------
(* Two requests, one event stream and one session id; two starts of the       *)
(* service, one after the other or beside each other, on one port or two.     *)
EXTENDS Transport, TLC

CONSTANTS r1, r2, e1
=============================================================================
