--------------------------- MODULE LotAllocation ---------------------------
(***************************************************************************)
(* allocateLots (issues/domain/lotAllocation.ts): which stock balance rows *)
(* an issue takes its quantity from.  A row is                             *)
(* [id, available, expiresAt, receivedAt], with NoExpiry for a row without *)
(* a known expiry date.  The greedy loop is also the one of reserveStock   *)
(* and releaseReservedStock (inventory/application/LedgerService.ts).      *)
(***************************************************************************)
EXTENDS Integers, Sequences, FiniteSets, SequencesExt, FiniteSetsExt, Functions

NoExpiry == 0

Methods == {"fefo", "fifo"}

(* Faulty comparator: a row without an expiry date comes first. *)
BeforeUnknownFirst(method, a, b) ==
    \/ method = "fefo" /\ a.expiresAt < b.expiresAt
    \/ /\ method = "fifo" \/ a.expiresAt = b.expiresAt
       /\ \/ a.receivedAt < b.receivedAt
          \/ a.receivedAt = b.receivedAt /\ a.id < b.id

(* FEFO: a known expiry before none, earlier before later, then as FIFO.   *)
(* FIFO: earlier receipt first, ties broken by the row's id.               *)
Before(method, a, b) ==
    \/ /\ method = "fefo"
       /\ a.expiresAt # NoExpiry /\ a.expiresAt # b.expiresAt
       /\ b.expiresAt = NoExpiry \/ a.expiresAt < b.expiresAt
    \/ /\ method = "fifo" \/ a.expiresAt = b.expiresAt
       /\ \/ a.receivedAt < b.receivedAt
          \/ a.receivedAt = b.receivedAt /\ a.id < b.id

(* Faulty loop: a row is taken whole. *)
SpreadWhole(order, capacity, wanted) ==
    FoldLeft(LAMBDA acc, row :
                IF acc.left <= 0 \/ capacity[row] <= 0 THEN acc
                ELSE [taken |-> [acc.taken EXCEPT ![row] = capacity[row]],
                      left  |-> acc.left - capacity[row]],
             [taken |-> [row \in DOMAIN capacity |-> 0], left |-> wanted],
             order)

(* Take what each row can give, row after row, until nothing is left to    *)
(* take or no row is left.                                                 *)
Spread(order, capacity, wanted) ==
    FoldLeft(LAMBDA acc, row :
                LET take == Min({capacity[row], acc.left})
                IN  IF take <= 0 THEN acc
                    ELSE [taken |-> [acc.taken EXCEPT ![row] = take],
                          left  |-> acc.left - take],
             [taken |-> [row \in DOMAIN capacity |-> 0], left |-> wanted],
             order)

(* The rows in picking order. *)
Sorted(rows, method) ==
    CHOOSE order \in [1..Cardinality(rows) -> rows] :
        \A m, n \in DOMAIN order : m < n => Before(method, order[m], order[n])

(* The allocation: lines in picking order, and what could not be allocated.*)
(* Every eligible row has something to give: those used come first.        *)
AllocateLots(rows, requested, method) ==
    LET eligible == {row \in rows : row.available > 0}
        order    == Sorted(eligible, method)
        result   == Spread(order, [row \in eligible |-> row.available], requested)
        used     == {n \in DOMAIN order : result.taken[order[n]] > 0}
    IN  [lines     |-> [n \in used |-> [row      |-> order[n].id,
                                       quantity |-> result.taken[order[n]]]],
         allocated |-> requested - result.left,
         shortfall |-> Max({0, result.left})]

-----------------------------------------------------------------------------
(* Reference: what the header of lotAllocation.ts promises, stated on the  *)
(* result alone.                                                           *)

Allocated(result, id) ==
    LET lines == {n \in DOMAIN result.lines : result.lines[n].row = id}
    IN  IF lines = {} THEN 0
        ELSE result.lines[CHOOSE n \in lines : TRUE].quantity

(* Everything there is, and no more than was asked. *)
AllocatesWhatItCan(rows, requested, method) ==
    LET result == AllocateLots(rows, requested, method)
        stock  == SumFunction([row \in {r \in rows : r.available > 0} |-> row.available])
        given  == SumFunction([n \in DOMAIN result.lines |-> result.lines[n].quantity])
    IN  /\ given = Min({requested, stock})
        /\ result.allocated = given
        /\ result.allocated + result.shortfall = requested
        /\ \A row \in rows : Allocated(result, row.id) <= Max({0, row.available})
        /\ IsInjective([n \in DOMAIN result.lines |-> result.lines[n].row])

(* No row is touched while one that should go first still has stock: for   *)
(* FEFO a row that expires earlier, or that expires at all; for FIFO one   *)
(* that was received earlier.                                              *)
EarliestFirst(rows, requested, method) ==
    LET result == AllocateLots(rows, requested, method)
        earlier(a, b) ==
            \/ /\ method = "fefo" /\ a.expiresAt # NoExpiry
               /\ b.expiresAt = NoExpiry \/ a.expiresAt < b.expiresAt
            \/ method = "fifo" /\ a.receivedAt < b.receivedAt
    IN  \A a, b \in rows :
            earlier(a, b) /\ a.available > 0 /\ Allocated(result, b.id) > 0
                => Allocated(result, a.id) = a.available

(* The comparator orders any two rows one way, so that the result does not *)
(* depend on the order in which the database returned them.                *)
TotallyOrdered(rows, method) ==
    /\ \A a, b \in rows : a # b => (Before(method, a, b) <=> ~Before(method, b, a))
    /\ \A a, b, c \in rows :
          Before(method, a, b) /\ Before(method, b, c) => Before(method, a, c)
=============================================================================
