----------------------------- MODULE Transfers -----------------------------
(***************************************************************************)
(* Stock transfers (modules/transfers): goods leave one location and       *)
(* arrive at another, at once (policy "immediate") or by way of the stock  *)
(* state in_transit at the destination (policy "in_transit").              *)
(*                                                                         *)
(* create, post, receive and reverse are transactions, one step each       *)
(* (StockPosting); submit and approve read the transfer and save its       *)
(* status later without looking again.  Who approves is left out: with a   *)
(* second user about, preventSelfApproval keeps no transfer from approval. *)
(***************************************************************************)
EXTENDS Integers, Sequences, FiniteSets, Functions

CONSTANTS Clients,      \* HTTP calls in flight
          Places,       \* storage locations
          WarehouseOf,  \* WarehouseOf[x]: the warehouse of location x
          Goods,        \* (product, lot) pairs
          Opening,      \* Opening[x][g]: available before any transfer
          Quantities,   \* quantities a client may enter
          MaxTransfers, MaxItems  \* bounds on transfers and their lines

ASSUME TransfersAssumption ==
    /\ IsFiniteSet(Places)
    /\ Opening \in [Places -> [Goods -> Nat]]
    /\ Quantities \subseteq Nat \ {0}
    /\ MaxTransfers \in Nat /\ MaxItems \in Nat

VARIABLES available,  \* balances of stock state available, in_transit
          transit,
          transfers,  \* transfers by number
          client      \* client[c]: what call c has read and will save

vars == <<available, transit, transfers, client>>

Policies == {"immediate", "in_transit"}
Status   == {"draft", "submitted", "approved", "in_transit", "completed", "reversed"}

(* Faulty table: a transfer can be posted again while it travels. *)
TransferMayTwice(from, to) ==
    <<from, to>> \in {<<"draft", "submitted">>, <<"submitted", "approved">>,
                      <<"completed", "reversed">>}
        \cup {"approved", "in_transit"} \X {"in_transit", "completed"}

(* ALLOWED_TRANSITIONS of stockTransferStatus.ts. *)
TransferMay(from, to) ==
    <<from, to>> \in {<<"draft", "submitted">>, <<"submitted", "approved">>,
                      <<"in_transit", "completed">>, <<"completed", "reversed">>}
        \cup {"approved"} \X {"in_transit", "completed"}

Item  == [good : Goods, from : Places, to : Places, quantity : Quantities]

(* What assertWarehouses and the request's schema let through: the two     *)
(* locations of a line differ, and all lines have the same warehouses.     *)
Orderly(items) ==
    \A m, n \in DOMAIN items :
        /\ items[m].from # items[m].to
        /\ WarehouseOf[items[m].from] = WarehouseOf[items[n].from]
        /\ WarehouseOf[items[m].to] = WarehouseOf[items[n].to]

Init ==
    /\ available = Opening
    /\ transit = [x \in Places |-> [g \in Goods |-> 0]]
    /\ transfers = <<>>
    /\ client = [c \in Clients |-> [op |-> "none", doc |-> 0]]

-----------------------------------------------------------------------------
(* Movements of a document's lines *)

(* What line n takes from location x, and brings to it.                    *)
Outgoing(items, x, g) ==
    [n \in DOMAIN items |-> IF items[n].from = x /\ items[n].good = g
                            THEN items[n].quantity ELSE 0]
Incoming(items, x, g) ==
    [n \in DOMAIN items |-> IF items[n].to = x /\ items[n].good = g
                            THEN items[n].quantity ELSE 0]

Leaving(items, x, g)  == SumFunction(Outgoing(items, x, g))
Arriving(items, x, g) == SumFunction(Incoming(items, x, g))

(* Movements are sorted by balance key and each is an update conditional   *)
(* on what is there: at one key they happen in the order of the lines.     *)
(* Arrivals count only if they arrive as available stock (straight).       *)
Bearable(items, straight) ==
    \A x \in Places, g \in Goods : \A n \in DOMAIN items :
        available[x][g]
            + (IF straight THEN SumFunctionOnSet(Incoming(items, x, g), 1..(n - 1)) ELSE 0)
            >= SumFunctionOnSet(Outgoing(items, x, g), 1..n)

(* Out of available at the source, into available or in_transit at the     *)
(* destination.                                                            *)
Moved(items, straight) ==
    /\ available' = [x \in Places |-> [g \in Goods |->
                        available[x][g] - Leaving(items, x, g)
                            + IF straight THEN Arriving(items, x, g) ELSE 0]]
    /\ transit' = [x \in Places |-> [g \in Goods |->
                      transit[x][g] + IF straight THEN 0 ELSE Arriving(items, x, g)]]

-----------------------------------------------------------------------------
Create(c, policy, items) ==
    /\ client[c].op = "none"
    /\ Len(transfers) < MaxTransfers
    /\ Orderly(items)
    /\ transfers' = Append(transfers, [status |-> "draft", policy |-> policy, items |-> items,
                                       posted |-> FALSE, received |-> FALSE, reversalOf |-> 0])
    /\ UNCHANGED <<available, transit, client>>

(* submit and approve: read and check ... *)
ReadStatus(c, t, to) ==
    /\ client[c].op = "none"
    /\ to \in {"submitted", "approved"}
    /\ TransferMay(transfers[t].status, to)
    /\ client' = [client EXCEPT ![c] = [op |-> to, doc |-> t]]
    /\ UNCHANGED <<available, transit, transfers>>

(* ... and save the status, whatever it has become. *)
SaveStatus(c) ==
    /\ client[c].op # "none"
    /\ transfers' = [transfers EXCEPT ![client[c].doc].status = client[c].op]
    /\ client' = [client EXCEPT ![c] = [op |-> "none", doc |-> 0]]
    /\ UNCHANGED <<available, transit>>

Post(c, t) ==
    LET straight == transfers[t].policy = "immediate"
        target   == IF straight THEN "completed" ELSE "in_transit"
    IN
    /\ client[c].op = "none"
    /\ TransferMay(transfers[t].status, target)
    /\ Bearable(transfers[t].items, straight)
    /\ Moved(transfers[t].items, straight)
    /\ transfers' = [transfers EXCEPT ![t].status = target,
                                      ![t].posted = TRUE,
                                      ![t].received = IF straight THEN TRUE ELSE @]
    /\ UNCHANGED client

(* The check is the table's: an approved transfer passes it too, posted or *)
(* not, if there is stock of its goods in transit at its destination.      *)
Receive(c, t) ==
    LET items == transfers[t].items IN
    /\ client[c].op = "none"
    /\ TransferMay(transfers[t].status, "completed")
    /\ \A x \in Places, g \in Goods : transit[x][g] >= Arriving(items, x, g)
    /\ transit' = [x \in Places |-> [g \in Goods |->
                      transit[x][g] - Arriving(items, x, g)]]
    /\ available' = [x \in Places |-> [g \in Goods |->
                        available[x][g] + Arriving(items, x, g)]]
    /\ transfers' = [transfers EXCEPT ![t].status = "completed", ![t].received = TRUE]
    /\ UNCHANGED client

(* Faulty reversal: the goods travel the same way again. *)
Again(items) == items

Back(items) ==
    [n \in DOMAIN items |-> [items[n] EXCEPT !.from = items[n].to, !.to = items[n].from]]

(* Reversing a completed transfer posts a second one the other way; the    *)
(* original stays completed. *)
Reverse(c, t) ==
    LET items == Back(transfers[t].items) IN
    /\ client[c].op = "none"
    /\ Len(transfers) < MaxTransfers
    /\ transfers[t].status = "completed"
    /\ Bearable(items, TRUE)
    /\ Moved(items, TRUE)
    /\ transfers' = Append(transfers, [status |-> "completed", policy |-> "immediate",
                                       items |-> items, posted |-> TRUE, received |-> TRUE,
                                       reversalOf |-> t])
    /\ UNCHANGED client

Step(c) ==
    \/ \E policy \in Policies, n \in 1..MaxItems : \E items \in [1..n -> Item] :
          Create(c, policy, items)
    \/ \E t \in DOMAIN transfers :
          \/ \E to \in {"submitted", "approved"} : ReadStatus(c, t, to)
          \/ Post(c, t)
          \/ Receive(c, t)
          \/ Reverse(c, t)
    \/ SaveStatus(c)

Next == \E c \in Clients : Step(c)

Spec == Init /\ [][Next]_vars

-----------------------------------------------------------------------------
(* Properties *)

(* No balance is negative, in whatever order the lines of one transfer     *)
(* take from a location and bring to it; documents and calls have their    *)
(* fields.                                                                 *)
TypeOK ==
    /\ available \in [Places -> [Goods -> Nat]]
    /\ transit \in [Places -> [Goods -> Nat]]
    /\ \A t \in DOMAIN transfers :
          /\ transfers[t].status \in Status /\ transfers[t].policy \in Policies
          /\ transfers[t].items \in Seq(Item) /\ Orderly(transfers[t].items)
          /\ transfers[t].posted \in BOOLEAN /\ transfers[t].received \in BOOLEAN
          /\ transfers[t].reversalOf \in 0..(t - 1)
    /\ \A c \in Clients : /\ client[c].op \in {"none", "submitted", "approved"}
                          /\ client[c].doc \in 0..Len(transfers)

(* Transfers, receipts and reversals, in any order and even when a stale   *)
(* save makes one happen twice, neither make nor lose goods.               *)
StockConserved ==
    \A g \in Goods :
        SumFunction([x \in Places |-> available[x][g] + transit[x][g]])
            = SumFunction([x \in Places |-> Opening[x][g]])

Posted   == {t \in DOMAIN transfers : transfers[t].posted}
Received == {t \in DOMAIN transfers : transfers[t].received}
Sent     == {t \in Posted : transfers[t].policy = "in_transit"}
Fetched  == Received \ {t \in Posted : transfers[t].policy = "immediate"}

TakenFrom(S, x, g) == SumFunction([t \in S |-> Leaving(transfers[t].items, x, g)])
BroughtTo(S, x, g) == SumFunction([t \in S |-> Arriving(transfers[t].items, x, g)])

(* Every balance is its opening quantity and the transfers posted and      *)
(* received: each took effect once, at its own two locations, and took     *)
(* nothing that was not there, though lines may bring what others take.    *)
StockMatchesTransfers ==
    \A x \in Places, g \in Goods :
        /\ available[x][g] = Opening[x][g] - TakenFrom(Posted, x, g)
                                          + BroughtTo(Received, x, g)
        /\ transit[x][g] = BroughtTo(Sent, x, g) - BroughtTo(Fetched, x, g)
        /\ available[x][g] >= 0 /\ transit[x][g] >= 0

(* A transfer's status moves along ALLOWED_TRANSITIONS. *)
TransferTransitions ==
    [][\A t \in DOMAIN transfers :
          transfers'[t].status # transfers[t].status
              => TransferMay(transfers[t].status, transfers'[t].status)]_vars

(* A reversal undoes its original: it moves every balance by the opposite  *)
(* of what posting and receiving the original came to.                     *)
ReversalUndoes ==
    [][\A t \in (DOMAIN transfers') \ DOMAIN transfers :
          LET of == transfers'[t].reversalOf IN
          of # 0 =>
             \A x \in Places, g \in Goods :
                available'[x][g] - available[x][g] =
                    Leaving(transfers[of].items, x, g) - Arriving(transfers[of].items, x, g)]_vars

-----------------------------------------------------------------------------
(* What the documents of the repository say and the code does not do       *)

(* "In-transit transfer posts source-out/in-transit first and destination  *)
(* receipt later, each with controlled states": what travels is there to   *)
(* be received.                                                            *)
TravellingIsInTransit ==
    \A x \in Places, g \in Goods :
        transit[x][g] >=
            BroughtTo({t \in DOMAIN transfers : transfers[t].status = "in_transit"}, x, g)

(* "Reversal preserves the original and nets correctly": a transfer has    *)
(* one reversal at most.                                                   *)
ReversedOnce ==
    \A t, u \in DOMAIN transfers :
        transfers[t].reversalOf # 0 /\ transfers[t].reversalOf = transfers[u].reversalOf => t = u

-----------------------------------------------------------------------------
(* Calls that do not cross *)

(* What call c has checked of the transfer it saves holds when it saves.   *)
StillAllowed(c) ==
    client[c].op # "none" => TransferMay(transfers[client[c].doc].status, client[c].op)

(* No submit or approve is saved over a status that another call has moved *)
(* since it was read.  The code does not see to that: it is so when calls  *)
(* come one at a time, or those that overlap are about different transfers.*)
NoStaleSave ==
    [][\A c \in Clients : client[c].op # "none" /\ client'[c].op = "none"
                              => StillAllowed(c)]_vars

OneAtATime == \A c, d \in Clients : c = d

-----------------------------------------------------------------------------
(* The inductive invariants *)

Transfer == [status : Status, policy : Policies, items : Seq(Item), posted : BOOLEAN,
             received : BOOLEAN, reversalOf : Nat]

(* What holds however stale a save is. *)
IInv ==
    /\ available \in [Places -> [Goods -> Nat]]
    /\ transit \in [Places -> [Goods -> Nat]]
    /\ transfers \in Seq(Transfer)
    /\ \A t \in DOMAIN transfers : /\ Orderly(transfers[t].items)
                                   /\ transfers[t].reversalOf \in 0..(t - 1)
    /\ client \in [Clients -> [op : {"none", "submitted", "approved"}, doc : Nat]]
    /\ \A c \in Clients : client[c].op # "none" => client[c].doc \in DOMAIN transfers
    /\ \A c \in Clients : client[c].op = "none" => client[c].doc = 0
    /\ StockConserved

(* The status tells what has happened to a transfer: an approved one has   *)
(* moved nothing yet, one in transit was posted and not received.          *)
Happened(transfer) ==
    /\ transfer.status \in {"draft", "submitted", "approved"} =>
          ~transfer.posted /\ ~transfer.received
    /\ transfer.status = "in_transit" =>
          transfer.posted /\ ~transfer.received /\ transfer.policy = "in_transit"
    /\ transfer.posted /\ transfer.policy = "immediate" => transfer.received

(* What holds besides when no save is stale. *)
FreshInv ==
    /\ IInv /\ StockMatchesTransfers
    /\ \A t \in DOMAIN transfers : Happened(transfers[t])

(* While calls come one at a time, what each has checked holds on.         *)
OneAtATimeInv == FreshInv /\ \A c \in Clients : StillAllowed(c)
=============================================================================
