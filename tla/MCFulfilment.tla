---------------------------- MODULE MCFulfilment ----------------------------
(***************************************************************************)
(* Small instances of Fulfilment for TLC: a product that tracks expiry,    *)
(* with the row that expires first stored second, so that picking (FEFO)   *)
(* and reserving (_id order) begin at different ends.                      *)
(***************************************************************************)
EXTENDS Fulfilment

CONSTANTS p1, p2, c1, c2

OneLine     == [l \in 1..1 |-> p1]
SameLines   == [l \in 1..2 |-> p1]
TwoLines    == [l \in 1..2 |-> IF l = 1 THEN p1 ELSE p2]
OneProduct  == [b \in 1..2 |-> p1]
TwoProducts == [b \in 1..2 |-> IF b = 1 THEN p1 ELSE p2]
OneRow      == [b \in 1..1 |-> p1]
Expiry      == [b \in 1..2 |-> IF b = 1 THEN NoExpiry ELSE 5]
Receipt     == [b \in 1..2 |-> b]
Picking     == [p \in {p1, p2} |-> "fefo"]
Stock21     == [b \in 1..2 |-> IF b = 1 THEN 2 ELSE 1]
Stock11     == [b \in 1..2 |-> 1]
Stock22     == [b \in 1..2 |-> 2]
Stock2      == [b \in 1..1 |-> 2]
Expiry1     == [b \in 1..1 |-> NoExpiry]
Receipt1    == [b \in 1..1 |-> 1]

ClientSymmetry == Permutations({c1, c2})
=============================================================================
