------------------------------ MODULE MCActions ------------------------------
(* Two callers, three walls, one of them with a consent to click, one of the*)
(* same kind and name and one of another, and an element that they cover.   *)
EXTENDS Actions, TLC

CONSTANTS w1, w2, w3, e1, s1, s2

Mix(cmds, elems, n) == [cmds |-> cmds, elems |-> elems, calls |-> n]
MCMixes == {Mix({"dismiss"}, Elems, 1), Mix({"observe", "dismiss"}, {w1, e1}, 2),
            Mix({"observe", "click"}, {w1, e1}, 3), Mix({"move", "click"}, {w1, e1}, 2),
            Mix({"type", "relay", "goto"}, {e1}, 2), Mix({"wait"}, {e1}, 1), Mix({"shot"}, {}, 3)}
MCKindName == [w \in Walls |-> IF w = w3 THEN w3 ELSE w1]
Symmetry == Permutations({s1, s2})
=============================================================================
