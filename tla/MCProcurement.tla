--------------------------- MODULE MCProcurement ---------------------------
(***************************************************************************)
(* Small instances of Procurement for TLC.                                 *)
(***************************************************************************)
EXTENDS Procurement, TLC

CONSTANTS p1, p2, good, damaged, c1, c2

OneLine    == [l \in 1..1 |-> p1]
TwoLines   == [l \in 1..2 |-> IF l = 1 THEN p1 ELSE p2]
OneProduct == [b \in {good, damaged} |-> p1]
TwoProducts == [b \in {good, damaged} |-> IF b = good THEN p1 ELSE p2]

ClientSymmetry == Permutations({c1, c2})
=============================================================================
