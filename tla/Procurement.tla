---------------------------- MODULE Procurement ----------------------------
(***************************************************************************)
(* Purchase orders and goods receipts (modules/procurement, receiving).    *)
(* A receipt brings stock in, usually against an order, and tells the      *)
(* order what arrived; the order's receiving status is derived from that.  *)
(*                                                                         *)
(* Posting and reversing a receipt are transactions, one step each         *)
(* (StockPosting), and so is storing a new order.  The other handlers read *)
(* a document and save it later without looking again; a new receipt reads *)
(* its order before the transaction that stores it.  Prices, dates and     *)
(* self-approval are left out: no guard on quantities or status reads them,*)
(* and a second user may always approve.                                   *)
(***************************************************************************)
EXTENDS Integers, Sequences, FiniteSets, FiniteSetsExt

CONSTANTS Clients,      \* HTTP calls in flight
          NumLines,     \* lines of every purchase order
          ProductOf,    \* ProductOf[l]: the product line l orders
          Keys,         \* balance keys (location, product, lot, state)
          KeyProduct,   \* KeyProduct[b]: the product of key b
          Ordered,      \* quantities a client may order,
          Quantities,   \* and accept on a line of a receipt
          MaxOrders, MaxReceipts, MaxReceiptLines, MaxEdits  \* bounds

OrderLines == 1..NumLines

ASSUME ProcurementAssumption ==
    /\ NumLines \in Nat \ {0}
    /\ Ordered \subseteq Nat \ {0} /\ Quantities \subseteq Nat
    /\ {MaxOrders, MaxReceipts, MaxReceiptLines, MaxEdits} \subseteq Nat

VARIABLES onHand,    \* the balances
          used,      \* what issues and transfers have taken from each
          orders,    \* documents by number
          receipts,
          client     \* client[c]: what call c has read and will save

vars == <<onHand, used, orders, receipts, client>>
stock == <<onHand, used>>

OrderStatus   == {"draft", "submitted", "approved", "rejected", "partially_received",
                  "fully_received", "closed", "cancelled"}
ReceiptStatus == {"draft", "verified", "posted", "reversed"}

(* ALLOWED_TRANSITIONS of purchaseOrderStatus.ts and receiptStatus.ts. *)
OrderMay(from, to) ==
    <<from, to>> \in {"draft"} \X {"submitted", "cancelled"}
        \cup {"submitted"} \X {"approved", "rejected", "cancelled"}
        \cup {"approved"} \X {"partially_received", "fully_received", "cancelled"}
        \cup {<<"partially_received", "fully_received">>, <<"fully_received", "closed">>}

(* Faulty table: verifying can be repeated on a posted receipt. *)
ReceiptMayAgain(from, to) ==
    <<from, to>> \in {<<"draft", "verified">>, <<"posted", "verified">>,
                      <<"verified", "posted">>, <<"posted", "reversed">>}

ReceiptMay(from, to) ==
    <<from, to>> \in {<<"draft", "verified">>, <<"verified", "posted">>,
                      <<"posted", "reversed">>}

Idle == [op |-> "none", doc |-> 0, data |-> <<>>]

Init ==
    /\ onHand = [b \in Keys |-> 0]
    /\ used = [b \in Keys |-> 0]
    /\ orders = <<>>
    /\ receipts = <<>>
    /\ client = [c \in Clients |-> Idle]

Read(c, op, doc, data) ==
    /\ client[c].op = "none"
    /\ client' = [client EXCEPT ![c] = [op |-> op, doc |-> doc, data |-> data]]
    /\ UNCHANGED <<stock, orders, receipts>>

Saving(c, op) ==
    /\ client[c].op = op
    /\ client' = [client EXCEPT ![c] = Idle]

InOneTransaction(c) == client[c].op = "none" /\ UNCHANGED client

(* Issues and transfers take stock that has arrived. *)
Use(b) ==
    /\ onHand[b] > 0
    /\ onHand' = [onHand EXCEPT ![b] = @ - 1]
    /\ used' = [used EXCEPT ![b] = @ + 1]
    /\ UNCHANGED <<orders, receipts, client>>

-----------------------------------------------------------------------------
(* Purchase orders *)

Fresh(ordered) == [l \in OrderLines |-> [ordered |-> ordered[l], received |-> 0]]

CreateOrder(c, ordered) ==
    /\ InOneTransaction(c)
    /\ Len(orders) < MaxOrders
    /\ orders' = Append(orders, [status |-> "draft", ver |-> 0, lines |-> Fresh(ordered)])
    /\ UNCHANGED <<stock, receipts>>

(* The lines are replaced, so the save compares and increments __v. *)
ReadUpdateOrder(c, o, ordered) ==
    /\ orders[o].ver < MaxEdits
    /\ orders[o].status = "draft"
    /\ Read(c, "updateOrder", o, [ver |-> orders[o].ver, ordered |-> ordered])

SaveUpdateOrder(c) ==
    LET o    == client[c].doc
        data == client[c].data
    IN  /\ Saving(c, "updateOrder")
        /\ orders' = IF orders[o].ver # data.ver THEN orders
                     ELSE [orders EXCEPT ![o].ver = @ + 1, ![o].lines = Fresh(data.ordered)]
        /\ UNCHANGED <<stock, receipts>>

(* transitionStatus: submit, approve, reject, cancel, close. *)
ReadOrderStatus(c, o, to) ==
    /\ to \in {"submitted", "approved", "rejected", "cancelled", "closed"}
    /\ OrderMay(orders[o].status, to)
    /\ Read(c, "orderStatus", o, to)

SaveOrderStatus(c) ==
    /\ Saving(c, "orderStatus")
    /\ orders' = [orders EXCEPT ![client[c].doc].status = client[c].data]
    /\ UNCHANGED <<stock, receipts>>

OrderedIn(lines)  == SumFunction([l \in OrderLines |-> lines[l].ordered])
ReceivedIn(lines) == SumFunction([l \in OrderLines |-> lines[l].received])

(* Faulty status: what a reversal takes back from a full order is not      *)
(* looked at.                                                              *)
ReceivingStatusUp(status, lines) ==
    IF status \notin {"approved", "partially_received"} THEN status
    ELSE IF ReceivedIn(lines) <= 0 THEN "approved"
    ELSE IF ReceivedIn(lines) < OrderedIn(lines) THEN "partially_received"
    ELSE "fully_received"

(* The receiving status of an approved order, derived from its lines. *)
ReceivingStatus(status, lines) ==
    IF status \notin {"approved", "partially_received", "fully_received"} THEN status
    ELSE IF ReceivedIn(lines) <= 0 THEN "approved"
    ELSE IF ReceivedIn(lines) < OrderedIn(lines) THEN "partially_received"
    ELSE "fully_received"

(* Faulty effect: a reversal takes nothing back. *)
ReceivedLinesUp(lines, delta) ==
    [l \in OrderLines |-> [lines[l] EXCEPT !.received = @ + Max({0, delta[ProductOf[l]]})]]

(* What arrived of a product counts for every line that orders it. *)
ReceivedLines(lines, delta) ==
    [l \in OrderLines |-> [lines[l] EXCEPT !.received = Max({0, @ + delta[ProductOf[l]]})]]

(* applyReceivedQuantities: no test of the order's status or of what was   *)
(* ordered.                                                                *)
ApplyReceived(o, delta) ==
    LET lines == ReceivedLines(orders[o].lines, delta)
    IN  orders' = IF o = 0 THEN orders
                  ELSE [orders EXCEPT ![o].lines = lines,
                                      ![o].status = ReceivingStatus(@, lines)]

-----------------------------------------------------------------------------
(* Goods receipts: po is 0 for a direct receipt *)

ReadCreateReceipt(c, po, lines) ==
    /\ Len(receipts) < MaxReceipts
    /\ po # 0 => orders[po].status \in {"approved", "partially_received"}
    /\ Read(c, "createReceipt", 0, [po |-> po, lines |-> lines])

SaveCreateReceipt(c) ==
    /\ Len(receipts) < MaxReceipts
    /\ Saving(c, "createReceipt")
    /\ receipts' = Append(receipts, [status |-> "draft", ver |-> 0, po |-> client[c].data.po,
                                     lines |-> client[c].data.lines, reversalOf |-> 0])
    /\ UNCHANGED <<stock, orders>>

(* An edit may name any order, whatever its status.  Without new lines     *)
(* (<<>>) the save does not compare __v.                                   *)
ReadUpdateReceipt(c, r, po, lines) ==
    /\ receipts[r].ver < MaxEdits
    /\ receipts[r].status = "draft"
    /\ Read(c, "updateReceipt", r, [ver |-> receipts[r].ver, po |-> po, lines |-> lines])

SaveUpdateReceipt(c) ==
    LET r    == client[c].doc
        data == client[c].data
    IN  /\ Saving(c, "updateReceipt")
        /\ \/ /\ data.lines = <<>>
              /\ receipts' = [receipts EXCEPT ![r].po = data.po]
           \/ /\ data.lines # <<>>
              /\ receipts' = IF receipts[r].ver # data.ver THEN receipts
                             ELSE [receipts EXCEPT ![r].ver = @ + 1, ![r].po = data.po,
                                                   ![r].lines = data.lines]
        /\ UNCHANGED <<stock, orders>>

ReadVerifyReceipt(c, r) ==
    /\ ReceiptMay(receipts[r].status, "verified")
    /\ Read(c, "verifyReceipt", r, <<>>)

SaveVerifyReceipt(c) ==
    /\ Saving(c, "verifyReceipt")
    /\ receipts' = [receipts EXCEPT ![client[c].doc].status = "verified"]
    /\ UNCHANGED <<stock, orders>>

Accepted(lines, b) ==
    SumFunction([n \in DOMAIN lines |-> IF lines[n].key = b THEN lines[n].accepted ELSE 0])
OfProduct(lines, p) ==
    SumFunction([n \in DOMAIN lines |->
                    IF KeyProduct[lines[n].key] = p THEN lines[n].accepted ELSE 0])
Products == {ProductOf[l] : l \in OrderLines} \cup {KeyProduct[b] : b \in Keys}

PostReceipt(c, r) ==
    LET lines == receipts[r].lines IN
    /\ InOneTransaction(c)
    /\ ReceiptMay(receipts[r].status, "posted")
    /\ \E n \in DOMAIN lines : lines[n].accepted > 0
    /\ onHand' = [b \in Keys |-> onHand[b] + Accepted(lines, b)]
    /\ ApplyReceived(receipts[r].po, [p \in Products |-> OfProduct(lines, p)])
    /\ receipts' = [receipts EXCEPT ![r].status = "posted"]
    /\ UNCHANGED used

(* Nothing that a reversal takes back has been used. *)
StillThere(lines) == \A b \in Keys : onHand[b] >= Accepted(lines, b)

(* A second posted receipt takes the same lines back; the original stays   *)
(* posted.                                                                 *)
ReverseReceipt(c, r) ==
    LET lines == receipts[r].lines IN
    /\ InOneTransaction(c)
    /\ Len(receipts) < MaxReceipts
    /\ receipts[r].status = "posted"
    /\ StillThere(lines)
    /\ onHand' = [b \in Keys |-> onHand[b] - Accepted(lines, b)]
    /\ ApplyReceived(receipts[r].po, [p \in Products |-> -OfProduct(lines, p)])
    /\ receipts' = Append(receipts, [status |-> "posted", ver |-> 0, po |-> receipts[r].po,
                                     lines |-> lines, reversalOf |-> r])
    /\ UNCHANGED used

-----------------------------------------------------------------------------
ReceiptInputs ==
    UNION {[1..n -> [key : Keys, accepted : Quantities]] : n \in 1..MaxReceiptLines}
SomeOrder == {0} \cup DOMAIN orders

OrderStep(c) ==
    \/ \E ordered \in [OrderLines -> Ordered] : CreateOrder(c, ordered)
    \/ \E o \in DOMAIN orders :
          \/ \E ordered \in [OrderLines -> Ordered] : ReadUpdateOrder(c, o, ordered)
          \/ \E to \in OrderStatus : ReadOrderStatus(c, o, to)
    \/ SaveUpdateOrder(c)
    \/ SaveOrderStatus(c)

ReceiptStep(c) ==
    \/ \E po \in SomeOrder, lines \in ReceiptInputs : ReadCreateReceipt(c, po, lines)
    \/ \E r \in DOMAIN receipts :
          \/ \E po \in SomeOrder, lines \in ReceiptInputs \cup {<<>>} :
                ReadUpdateReceipt(c, r, po, lines)
          \/ ReadVerifyReceipt(c, r)
          \/ PostReceipt(c, r)
          \/ ReverseReceipt(c, r)
    \/ SaveCreateReceipt(c)
    \/ SaveUpdateReceipt(c)
    \/ SaveVerifyReceipt(c)

Next ==
    \/ \E c \in Clients : OrderStep(c) \/ ReceiptStep(c)
    \/ \E b \in Keys : Use(b)

Spec == Init /\ [][Next]_vars

-----------------------------------------------------------------------------
(* Properties *)

Posted == {r \in DOMAIN receipts : receipts[r].status = "posted" /\ receipts[r].reversalOf = 0}
Taken  == {r \in DOMAIN receipts : receipts[r].reversalOf # 0}

ReversedAtMostOnce ==
    \A r, q \in Taken :
        /\ receipts[receipts[r].reversalOf].reversalOf = 0
        /\ receipts[r].reversalOf = receipts[q].reversalOf => r = q

(* Reversing a receipt never takes back what has already been used: no     *)
(* balance goes below zero.  Documents have the fields of their schemas.   *)
TypeOK ==
    /\ onHand \in [Keys -> Nat] /\ used \in [Keys -> Nat]
    /\ \A o \in DOMAIN orders :
          /\ orders[o].status \in OrderStatus /\ orders[o].ver \in Nat
          /\ orders[o].lines \in [OrderLines -> [ordered : Nat, received : Nat]]
    /\ \A r \in DOMAIN receipts :
          /\ receipts[r].status \in ReceiptStatus /\ receipts[r].ver \in Nat
          /\ receipts[r].po \in SomeOrder /\ receipts[r].reversalOf \in 0..(r - 1)
          /\ receipts[r].lines \in Seq([key : Keys, accepted : Nat])

(* Every balance is what posted receipts brought less what reversals took  *)
(* back and what was used; a reversal takes back only what is still there. *)
StockMatchesReceipts ==
    \A b \in Keys :
        /\ onHand[b] >= 0
        /\ onHand[b] = SumFunction([r \in Posted |-> Accepted(receipts[r].lines, b)])
                    - SumFunction([r \in Taken |-> Accepted(receipts[r].lines, b)]) - used[b]

(* What an order counts as received is what its posted and not reversed    *)
(* receipts accepted, if it was not edited and nothing reversed twice.     *)
OrderMatchesReceipts ==
    LET kept == Posted \ {receipts[r].reversalOf : r \in Taken} IN
    ReversedAtMostOnce =>
       \A o \in DOMAIN orders : orders[o].ver = 0 =>
          \A l \in OrderLines :
             orders[o].lines[l].received =
                SumFunction([r \in {q \in kept : receipts[q].po = o} |->
                                OfProduct(receipts[r].lines, ProductOf[l])])

(* The receiving status says how much has arrived, also after reversals. *)
StatusMatchesReceived ==
    \A o \in DOMAIN orders :
        LET received == ReceivedIn(orders[o].lines)
            ordered  == OrderedIn(orders[o].lines)
        IN  /\ orders[o].status = "partially_received" => 0 < received /\ received < ordered
            /\ orders[o].status = "fully_received" => received >= ordered

(* A receipt's status moves along ALLOWED_TRANSITIONS, and so does an      *)
(* order's, but for the way back that a reversal makes.                    *)
DocumentTransitions ==
    [][/\ \A r \in DOMAIN receipts :
             receipts'[r].status # receipts[r].status
                 => ReceiptMay(receipts[r].status, receipts'[r].status)
       /\ \A o \in DOMAIN orders :
             orders'[o].status # orders[o].status =>
                \/ OrderMay(orders[o].status, orders'[o].status)
                \/ Len(receipts') > Len(receipts)
                     /\ OrderMay(orders'[o].status, orders[o].status)]_vars

-----------------------------------------------------------------------------
(* What the documents of the repository say and the code does not do       *)

(* "Over-receipt blocked by default". *)
NotOverReceived ==
    \A o \in DOMAIN orders : \A l \in OrderLines :
        orders[o].lines[l].received <= orders[o].lines[l].ordered

(* "Revalidate ... PO status": posting against an order happens while the  *)
(* order is approved and not yet fully received.                           *)
ReceivedWhileApproved ==
    [][\A r \in DOMAIN receipts :
          /\ receipts[r].status = "verified" /\ receipts'[r].status = "posted"
          /\ receipts[r].po # 0
          => orders[receipts[r].po].status \in {"approved", "partially_received"}]_vars

(* "Only permitted while the order is still `draft`": editing.  What was   *)
(* ordered and how much of it has come changes afterwards only by receipts.*)
EditedWhileDraft ==
    [][\A o \in DOMAIN orders : orders'[o].ver # orders[o].ver
                                  => orders[o].status = "draft"]_vars

-----------------------------------------------------------------------------
(* Calls that do not cross *)

(* What call c has checked when it read its document holds when it saves.  *)
StillAllowed(c) ==
    LET op == client[c].op  doc == client[c].doc IN
    /\ op = "updateOrder" => orders[doc].status = "draft"
    /\ op = "orderStatus" => OrderMay(orders[doc].status, client[c].data)
    /\ op = "updateReceipt" => receipts[doc].status = "draft"
    /\ op = "verifyReceipt" => ReceiptMay(receipts[doc].status, "verified")

Saves(c) == client[c].op # "none" /\ client'[c].op = "none"

(* No save meets a document that another call has moved since it was read. *)
(* The code does not see to that: it is so when calls come one at a time,  *)
(* and whenever those that overlap are about different documents.          *)
NoStaleSave == [][\A c \in Clients : Saves(c) => StillAllowed(c)]_vars

OneAtATime == \A c, d \in Clients : c = d

-----------------------------------------------------------------------------
(* The inductive invariant *)

ReceiptLine == [key : Keys, accepted : Nat]
OrderLine   == [ordered : Nat, received : Nat]

Order   == [status : OrderStatus, ver : Nat, lines : [OrderLines -> OrderLine]]
Receipt == [status : ReceiptStatus, ver : Nat, po : Nat, lines : Seq(ReceiptLine),
            reversalOf : Nat]

(* A reversal and what it reverses are posted, and stay so. *)
DocumentsInv ==
    /\ onHand \in [Keys -> Nat] /\ used \in [Keys -> Nat]
    /\ orders \in Seq(Order) /\ receipts \in Seq(Receipt)
    /\ \A r \in DOMAIN receipts :
          /\ receipts[r].po \in SomeOrder
          /\ receipts[r].reversalOf # 0 =>
                /\ receipts[r].reversalOf \in 1..(r - 1)
                /\ receipts[r].status = "posted"
                /\ receipts[receipts[r].reversalOf].status = "posted"

(* What a call has read and will save. *)
CallInv(call) ==
    /\ call.op \in {"none", "updateOrder", "orderStatus", "createReceipt", "updateReceipt",
                    "verifyReceipt"}
    /\ call.op \in {"updateOrder", "orderStatus"} => call.doc \in DOMAIN orders
    /\ call.op \in {"updateReceipt", "verifyReceipt"} => call.doc \in DOMAIN receipts
    /\ call.op = "updateOrder" => /\ call.data.ver \in Nat
                                  /\ call.data.ordered \in [OrderLines -> Ordered]
    /\ call.op = "orderStatus" =>
          call.data \in {"submitted", "approved", "rejected", "cancelled", "closed"}
    /\ call.op \in {"createReceipt", "updateReceipt"} =>
          call.data.po \in SomeOrder /\ call.data.lines \in Seq(ReceiptLine)

CallsInv ==
    /\ DOMAIN client = Clients
    /\ \A c \in Clients : /\ DOMAIN client[c] = {"op", "doc", "data"}
                          /\ CallInv(client[c])

IInv == DocumentsInv /\ CallsInv /\ StockMatchesReceipts /\ StatusMatchesReceived
            /\ OrderMatchesReceipts

(* While calls come one at a time, what each has checked holds on.         *)
OneAtATimeInv == IInv /\ \A c \in Clients : StillAllowed(c)
=============================================================================
