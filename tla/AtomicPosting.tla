--------------------------- MODULE AtomicPosting ---------------------------
(***************************************************************************)
(* What a posting endpoint promises, without transactions, retries or      *)
(* idempotency keys: a source document (stock issue, goods receipt, ...)   *)
(* is posted at most once, in one step that applies all its movements to   *)
(* the balances, and never drives a balance below zero.  StockPosting      *)
(* implements this module.                                                 *)
(***************************************************************************)
EXTENDS Integers

CONSTANTS Docs,      \* source documents that can be posted
          NumKeys,   \* number of balance keys
          Movement,  \* Movement[d][k]: signed quantity d moves on key k
          Opening    \* Opening[k]: on-hand quantity before any posting

VARIABLES onHand,    \* balance projection, one quantity per key
          posted     \* the documents posted so far

Keys == 1..NumKeys

vars == <<onHand, posted>>

Init == /\ onHand = [k \in Keys |-> Opening[k]]
        /\ posted = {}

Post(d) ==
    /\ d \notin posted
    /\ \A k \in Keys : onHand[k] + Movement[d][k] >= 0
    /\ onHand' = [k \in Keys |-> onHand[k] + Movement[d][k]]
    /\ posted' = posted \cup {d}

Next == \E d \in Docs : Post(d)

Spec == Init /\ [][Next]_vars
=============================================================================
