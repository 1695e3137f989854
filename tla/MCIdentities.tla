---------------------------- MODULE MCIdentities ----------------------------
(* Two creates and two mark-warms of one identity. *)
EXTENDS Identities

CONSTANTS c1, c2, m1, m2, d1, w1, p1, p2

Symmetry == Permutations({c1, c2}) \cup Permutations({m1, m2})
=============================================================================
