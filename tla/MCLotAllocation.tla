-------------------------- MODULE MCLotAllocation --------------------------
(* allocateLots on every set of up to MaxRows rows with small quantities   *)
(* and dates: the rows are chosen one by one, then allocated from.         *)
EXTENDS LotAllocation

CONSTANTS MaxRows, MaxQuantity, MaxDate

ASSUME SelectionAssumption == MaxRows \in Nat /\ MaxQuantity \in Nat /\ MaxDate \in Nat

VARIABLES balances, demand

selection == <<balances, demand>>

Row == [id : 1..MaxRows, available : 0..MaxQuantity,
        expiresAt : 0..MaxDate, receivedAt : 1..MaxDate]

NoDemand == [quantity |-> 0, method |-> "fifo"]

SelectNone == balances = {} /\ demand = NoDemand

AddRow ==
    /\ demand = NoDemand
    /\ \E row \in Row :
          /\ row.id = Cardinality(balances) + 1
          /\ balances' = balances \cup {row}
    /\ UNCHANGED demand

Ask ==
    /\ demand = NoDemand
    /\ \E q \in 1..(MaxRows * MaxQuantity + 1), m \in Methods :
          demand' = [quantity |-> q, method |-> m]
    /\ UNCHANGED balances

Selects == SelectNone /\ [][AddRow \/ Ask]_selection

(* AllocationIsComplete: the allocation gives min(asked, in stock), never  *)
(* more than a row has, uses a row once, and reports the rest as shortfall.*)
AllocationIsComplete == AllocatesWhatItCan(balances, demand.quantity, demand.method)

(* AllocationIsOrdered: FEFO never takes from a row while one expiring     *)
(* earlier still has stock, FIFO while one received earlier has.           *)
AllocationIsOrdered == EarliestFirst(balances, demand.quantity, demand.method)

(* ComparatorIsTotal: the sort has one possible outcome, so allocateLots   *)
(* does not depend on the order of its input.                              *)
ComparatorIsTotal == TotallyOrdered(balances, demand.method)
=============================================================================
