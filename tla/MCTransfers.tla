---------------------------- MODULE MCTransfers ----------------------------
(***************************************************************************)
(* Small instances of Transfers for TLC: two locations of one warehouse,   *)
(* so that the lines of a transfer may go both ways, or of two.            *)
(***************************************************************************)
EXTENDS Transfers, TLC

CONSTANTS locA, locB, lot1, c1, c2

OneWarehouse  == [p \in {locA, locB} |-> locA]
TwoWarehouses == [p \in {locA, locB} |-> p]
Stock20 == [p \in {locA, locB} |-> [q \in {lot1} |-> IF p = locA THEN 2 ELSE 0]]

Stock11 == [p \in {locA, locB} |-> [q \in {lot1} |-> 1]]

ClientSymmetry == Permutations({c1, c2})
=============================================================================
