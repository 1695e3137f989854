------------------------------ MODULE MCPages ------------------------------
(* The first page and two others, one openTab, two observes. *)
EXTENDS Pages, TLC

CONSTANTS t0, t1, t2, c1, o1, o2

Symmetry == Permutations({t1, t2}) \cup Permutations({o1, o2})
=============================================================================
