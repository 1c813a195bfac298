----------------------------- MODULE Fulfilment -----------------------------
(***************************************************************************)
(* Stock requests, issues and returns (modules/requests, issues, returns)  *)
(* over the stock balances of one warehouse (modules/inventory).           *)
(*                                                                         *)
(* A handler that works in withTransaction is one step: StockPosting shows *)
(* that it takes effect once and atomically.  Every other handler reads a  *)
(* document, checks it, and saves it later without a transaction and       *)
(* without looking again: a Read step and a Save step of one HTTP call     *)
(* (client), between which other clients take theirs.  save() writes the   *)
(* paths the handler assigned; it compares __v when items were assigned,   *)
(* and increments __v only when the whole array was replaced.              *)
(*                                                                         *)
(* A posting that is repeated with its Idempotency-Key is answered from    *)
(* the stored result (StockPosting); every posting here has a fresh key.   *)
(***************************************************************************)
EXTENDS LotAllocation

CONSTANTS Clients,        \* HTTP calls in flight
          NumLines,       \* lines of every stock request
          ProductOf,      \* ProductOf[l]: the product line l asks for
          NumRows,        \* balance rows of state "available", in _id order
          RowProduct,     \* RowProduct[b]: product of balance row b
          ExpiresAt,      \* expiry date of the row's lot, or NoExpiry
          ReceivedAt,     \* receipt date of the row's lot
          Method,         \* Method[p]: "fefo" if the product tracks expiry, or "fifo"
          Opening,        \* Opening[b]: on hand before any issue
          Quantities,     \* quantities a client may enter
          MaxRequests, MaxIssues, MaxReturns, \* bounds on documents
          MaxEdits        \* bound on edits of a request

Lines == 1..NumLines
Rows  == 1..NumRows
Products == {RowProduct[b] : b \in Rows} \cup {ProductOf[l] : l \in Lines}

ASSUME FulfilmentAssumption ==
    /\ NumLines \in Nat \ {0} /\ NumRows \in Nat
    /\ MaxRequests \in Nat /\ MaxIssues \in Nat /\ MaxReturns \in Nat
    /\ MaxEdits \in Nat
    /\ Opening \in [Rows -> Nat]
    /\ ExpiresAt \in [Rows -> Nat] /\ ReceivedAt \in [Rows -> Nat]
    /\ \A p \in Products : Method[p] \in Methods
    /\ Quantities \subseteq Nat \ {0}

VARIABLES onHand,    \* onHand[b], reserved[b]: the stock balances
          reserved,
          scrap,     \* returned in a condition other than good
          requests,  \* stock requests, issues, returns by number
          issues,
          returns,
          client     \* client[c]: what call c has read and will save

vars == <<onHand, reserved, scrap, requests, issues, returns, client>>
stock == <<onHand, reserved, scrap>>
documents == <<requests, issues, returns>>

-----------------------------------------------------------------------------
(* Documents *)

RequestStatus == {"draft", "submitted", "approved", "partially_fulfilled", "fulfilled",
                  "rejected", "cancelled"}

(* ALLOWED_TRANSITIONS of stockRequestStatus.ts and stockIssueStatus.ts. *)
RequestMay(from, to) ==
    <<from, to>> \in {"draft"} \X {"submitted", "cancelled"}
        \cup {"submitted"} \X {"approved", "rejected", "cancelled"}
        \cup {"approved"} \X {"partially_fulfilled", "fulfilled", "cancelled"}
        \cup {"partially_fulfilled"} \X {"fulfilled", "cancelled"}

(* Faulty table: what is posted can be cancelled. *)
IssueMayCancelPosted(from, to) ==
    <<from, to>> \in {"draft"} \X {"picked", "cancelled"}
        \cup {"picked"} \X {"posted", "cancelled"}
        \cup {"posted"} \X {"reversed", "cancelled"}

IssueStatus == {"draft", "picked", "posted", "reversed", "cancelled"}

IssueMay(from, to) ==
    <<from, to>> \in {"draft"} \X {"picked", "cancelled"}
        \cup {"picked"} \X {"posted", "cancelled"}
        \cup {"posted"} \X {"reversed"}

RequestLine(asked) ==
    [requested |-> asked, approved |-> 0, reserved |-> 0, fulfilled |-> 0]

Idle == [op |-> "none", doc |-> 0, data |-> <<>>]

Init ==
    /\ onHand = Opening
    /\ reserved = [b \in Rows |-> 0]
    /\ scrap = [b \in Rows |-> 0]
    /\ requests = <<>>
    /\ issues = <<>>
    /\ returns = <<>>
    /\ client = [c \in Clients |-> Idle]

(* A call reads, checks and decides what it will save. *)
Read(c, op, doc, data) ==
    /\ client[c].op = "none"
    /\ client' = [client EXCEPT ![c] = [op |-> op, doc |-> doc, data |-> data]]
    /\ UNCHANGED <<stock, documents>>

(* It saves, or the save is refused: the call is over. *)
Saving(c, op) ==
    /\ client[c].op = op
    /\ client' = [client EXCEPT ![c] = Idle]

(* A call whose handler is one transaction. *)
InOneTransaction(c) == client[c].op = "none" /\ UNCHANGED client

-----------------------------------------------------------------------------
(* LedgerService over the rows of one product *)

RowOrder == [b \in Rows |-> b]

(* What is reserved on the rows after the quantities wants[l] were         *)
(* reserved for the lines' products; ok is FALSE when stock ran out.       *)
ReserveLines(wants) ==
    LET reserve(acc, l) ==
          LET free == [b \in Rows |-> IF RowProduct[b] = ProductOf[l]
                                      THEN onHand[b] - acc.rows[b] ELSE 0]
              got  == Spread(RowOrder, free, wants[l])
          IN  [rows |-> [b \in Rows |-> acc.rows[b] + got.taken[b]],
               ok   |-> acc.ok /\ got.left <= 0]
    IN  FoldLeftDomain(reserve, [rows |-> reserved, ok |-> TRUE], wants)

(* Faulty release: nothing is given back. *)
ReleaseNothing(gives) == [rows |-> reserved, ok |-> TRUE]

(* The same for giving back reservations. *)
ReleaseLines(gives) ==
    LET release(acc, l) ==
          LET held == [b \in Rows |-> IF RowProduct[b] = ProductOf[l]
                                      THEN acc.rows[b] ELSE 0]
              got  == Spread(RowOrder, held, gives[l])
          IN  [rows |-> [b \in Rows |-> acc.rows[b] - got.taken[b]],
               ok   |-> acc.ok /\ got.left <= 0]
    IN  FoldLeftDomain(release, [rows |-> reserved, ok |-> TRUE], gives)

(* Quantity of the items on row b, and of product p. *)
OnRow(items, b) ==
    SumFunction([n \in DOMAIN items |-> IF items[n].row = b THEN items[n].picked ELSE 0])
OfProduct(items, p) ==
    SumFunction([n \in DOMAIN items |-> IF ProductOf[n[1]] = p THEN items[n].picked ELSE 0])

-----------------------------------------------------------------------------
(* Stock requests *)

CreateRequest(c, asked) ==
    /\ InOneTransaction(c)
    /\ Len(requests) < MaxRequests
    /\ requests' = Append(requests, [status |-> "draft", ver |-> 0,
                                     lines |-> [l \in Lines |-> RequestLine(asked[l])]])
    /\ UNCHANGED <<stock, issues, returns>>

(* Editing replaces the whole items array, so the save compares __v. *)
ReadUpdateRequest(c, r, asked) ==
    /\ requests[r].ver < MaxEdits
    /\ requests[r].status = "draft"
    /\ Read(c, "updateRequest", r, [ver |-> requests[r].ver, asked |-> asked])

SaveUpdateRequest(c) ==
    LET r    == client[c].doc
        data == client[c].data
    IN  /\ Saving(c, "updateRequest")
        /\ requests' = IF requests[r].ver # data.ver THEN requests
                       ELSE [requests EXCEPT
                               ![r].ver = @ + 1,
                               ![r].lines = [l \in Lines |-> RequestLine(data.asked[l])]]
        /\ UNCHANGED <<stock, issues, returns>>

(* submit and reject only assign the status and who did it. *)
ReadRequestStatus(c, r, to) ==
    /\ to \in {"submitted", "rejected"}
    /\ RequestMay(requests[r].status, to)
    /\ Read(c, "requestStatus", r, to)

SaveRequestStatus(c) ==
    /\ Saving(c, "requestStatus")
    /\ requests' = [requests EXCEPT ![client[c].doc].status = client[c].data]
    /\ UNCHANGED <<stock, issues, returns>>

(* Approving reserves what is approved, or nothing at all. *)
ApprovedLines(lines, approved) ==
    [l \in Lines |->
        [lines[l] EXCEPT !.approved = approved[l],
                         !.reserved = IF approved[l] > 0 THEN approved[l] ELSE @]]

ApproveRequest(c, r, approved) ==
    LET result == ReserveLines(approved) IN
    /\ InOneTransaction(c)
    /\ RequestMay(requests[r].status, "approved")
    /\ \A l \in Lines : approved[l] <= requests[r].lines[l].requested
    /\ \E l \in Lines : approved[l] > 0
    /\ result.ok
    /\ reserved' = result.rows
    /\ requests' =
         [requests EXCEPT ![r].status = "approved", ![r].lines = ApprovedLines(@, approved)]
    /\ UNCHANGED <<onHand, scrap, issues, returns>>

CancelledLines(lines) == [l \in Lines |-> [lines[l] EXCEPT !.reserved = 0]]

CancelRequest(c, r) ==
    LET result == ReleaseLines([l \in Lines |-> requests[r].lines[l].reserved]) IN
    /\ InOneTransaction(c)
    /\ RequestMay(requests[r].status, "cancelled")
    /\ result.ok
    /\ reserved' = result.rows
    /\ requests' = [requests EXCEPT ![r].status = "cancelled", ![r].lines = CancelledLines(@)]
    /\ UNCHANGED <<onHand, scrap, issues, returns>>

(* Faulty effect of an issue: a reversal does not take the quantity back. *)
IssuedLinesKeeping(lines, delta) ==
    [l \in Lines |->
        [lines[l] EXCEPT !.reserved = IF delta[l] > 0 THEN Max({0, @ - delta[l]}) ELSE @,
                         !.fulfilled = IF delta[l] > 0 THEN @ + delta[l] ELSE @]]

(* applyIssuedQuantities: delta[l] is the signed quantity issued of the    *)
(* line's product, counted for every line with that product.               *)
IssuedLines(lines, delta) ==
    [l \in Lines |->
        [lines[l] EXCEPT !.reserved = IF delta[l] > 0 THEN Max({0, @ - delta[l]}) ELSE @,
                         !.fulfilled = Max({0, @ + delta[l]})]]

IssuedStatus(status, lines) ==
    LET fulfilled == SumFunction([l \in Lines |-> lines[l].fulfilled])
        approved  == SumFunction([l \in Lines |-> lines[l].approved])
    IN  IF fulfilled > 0
        THEN IF fulfilled >= approved THEN "fulfilled" ELSE "partially_fulfilled"
        ELSE IF status \in {"partially_fulfilled", "fulfilled"} THEN "approved"
        ELSE status

ApplyIssued(r, delta) ==
    LET lines  == requests[r].lines
        issued == IssuedLines(lines, delta)
        result == ReleaseLines([l \in Lines |-> IF delta[l] > 0
                                   THEN Min({delta[l], lines[l].reserved}) ELSE 0])
    IN  /\ result.ok
        /\ reserved' = result.rows
        /\ requests' = [requests EXCEPT
                          ![r].lines = issued,
                          ![r].status = IssuedStatus(@, issued)]

-----------------------------------------------------------------------------
(* Stock issues *)

(* allocateOutstandingLines: every outstanding line for itself, from what  *)
(* is on hand.  Item <<l, b>> is what was drawn for line l from row b.     *)
AllocatedItems(lines) ==
    LET rowsOf(p) == {[id |-> b, available |-> onHand[b],
                       expiresAt |-> ExpiresAt[b], receivedAt |-> ReceivedAt[b]] :
                      b \in {x \in Rows : RowProduct[x] = p}}
        drawn(l, b) ==
          LET p           == ProductOf[l]
              outstanding == lines[l].approved - lines[l].fulfilled
          IN  IF outstanding <= 0 THEN 0
              ELSE Allocated(AllocateLots(rowsOf(p), outstanding, Method[p]), b)
    IN  [n \in Lines \X Rows |->
            [drawn |-> drawn(n[1], n[2]) > 0, row |-> n[2],
             picked |-> drawn(n[1], n[2]), returned |-> 0]]

Drawn(items) == {n \in DOMAIN items : items[n].drawn}

(* The request and the balances are read before the transaction that       *)
(* creates the issue.                                                      *)
ReadCreateIssue(c, r) ==
    LET items == AllocatedItems(requests[r].lines) IN
    /\ Len(issues) < MaxIssues
    /\ requests[r].status \in {"approved", "partially_fulfilled"}
    /\ Drawn(items) # {}
    /\ Read(c, "createIssue", r, items)

SaveCreateIssue(c) ==
    /\ Len(issues) < MaxIssues
    /\ Saving(c, "createIssue")
    /\ issues' = Append(issues, [request |-> client[c].doc, status |-> "draft",
                                 items |-> client[c].data, reversalOf |-> 0,
                                 reversed |-> FALSE])
    /\ UNCHANGED <<stock, requests, returns>>

(* The picker overrides where item n is taken from and how much.  The      *)
(* paths items.n.* are written; __v never changes on an issue.             *)
ReadUpdateIssue(c, i, n, row, picked) ==
    /\ issues[i].status = "draft"
    /\ RowProduct[row] = ProductOf[n[1]]
    /\ Read(c, "updateIssue", i, [item |-> n, row |-> row, picked |-> picked])

SaveUpdateIssue(c) ==
    LET data == client[c].data IN
    /\ Saving(c, "updateIssue")
    /\ issues' = [issues EXCEPT ![client[c].doc].items[data.item] =
                                    [@ EXCEPT !.row = data.row, !.picked = data.picked]]
    /\ UNCHANGED <<stock, requests, returns>>

ReadPickIssue(c, i) ==
    /\ IssueMay(issues[i].status, "picked")
    /\ \E n \in DOMAIN issues[i].items : issues[i].items[n].picked > 0
    /\ Read(c, "issueStatus", i, "picked")

ReadCancelIssue(c, i) ==
    /\ IssueMay(issues[i].status, "cancelled")
    /\ Read(c, "issueStatus", i, "cancelled")

SaveIssueStatus(c) ==
    /\ Saving(c, "issueStatus")
    /\ issues' = [issues EXCEPT ![client[c].doc].status = client[c].data]
    /\ UNCHANGED <<stock, requests, returns>>

(* Every balance can bear what all the items together take from it. *)
Covered(items) == \A b \in Rows : onHand[b] >= OnRow(items, b)

(* Posting takes the picked quantities off the balances, each by an update *)
(* conditional on what is on hand, and tells the request.                  *)
PostIssue(c, i) ==
    LET items == issues[i].items IN
    /\ InOneTransaction(c)
    /\ IssueMay(issues[i].status, "posted")
    /\ \E n \in DOMAIN items : items[n].picked > 0
    /\ Covered(items)
    /\ onHand' = [b \in Rows |-> onHand[b] - OnRow(items, b)]
    /\ ApplyIssued(issues[i].request, [l \in Lines |-> OfProduct(items, ProductOf[l])])
    /\ issues' = [issues EXCEPT ![i].status = "posted"]
    /\ UNCHANGED <<scrap, returns>>

(* Reversing posts a second issue with the same items and opposite         *)
(* movements; the original stays posted and is stamped.                    *)
ReverseIssue(c, i) ==
    LET items == issues[i].items IN
    /\ InOneTransaction(c)
    /\ Len(issues) < MaxIssues
    /\ issues[i].status = "posted"
    /\ onHand' = [b \in Rows |-> onHand[b] + OnRow(items, b)]
    /\ ApplyIssued(issues[i].request, [l \in Lines |-> -OfProduct(items, ProductOf[l])])
    /\ issues' = Append([issues EXCEPT ![i].reversed = TRUE],
                        [request |-> issues[i].request, status |-> "posted",
                         items |-> items, reversalOf |-> i, reversed |-> FALSE])
    /\ UNCHANGED <<scrap, returns>>

-----------------------------------------------------------------------------
(* Returns against a posted issue *)

(* lines[n] is [item, quantity, good] with the item's balance row; what is *)
(* outstanding is checked line by line, before the transaction that        *)
(* creates the return.                                                     *)
ReadCreateReturn(c, i, lines) ==
    LET items == issues[i].items IN
    /\ Len(returns) < MaxReturns
    /\ issues[i].status = "posted"
    /\ \A n \in DOMAIN lines :
          lines[n].quantity <= items[lines[n].item].picked - items[lines[n].item].returned
    /\ Read(c, "createReturn", i,
            [n \in DOMAIN lines |->
               [item |-> lines[n].item, row |-> items[lines[n].item].row,
                quantity |-> lines[n].quantity, good |-> lines[n].good]])

SaveCreateReturn(c) ==
    /\ Len(returns) < MaxReturns
    /\ Saving(c, "createReturn")
    /\ returns' = Append(returns, [issue |-> client[c].doc, status |-> "draft",
                                   lines |-> client[c].data])
    /\ UNCHANGED <<stock, requests, issues>>

(* What the lines of a return bring back: to row b in good or in other     *)
(* condition, and against item n of the issue.                             *)
BackOnRow(lines, b, good) ==
    SumFunction([n \in DOMAIN lines |-> IF lines[n].row = b /\ lines[n].good = good
                                       THEN lines[n].quantity ELSE 0])
AgainstItem(lines, item) ==
    SumFunction([n \in DOMAIN lines |-> IF lines[n].item = item THEN lines[n].quantity ELSE 0])

(* Faulty test: what was outstanding when the return was drafted is taken  *)
(* to be outstanding still.                                                *)
ReturnFitsAlways(items, lines) == TRUE

(* applyReturnedQuantities: no line may return more than was picked. *)
ReturnFits(items, lines) ==
    \A n \in DOMAIN items :
        AgainstItem(lines, n) > 0 => items[n].returned + AgainstItem(lines, n) <= items[n].picked

ReturnedItems(items, lines) ==
    [n \in DOMAIN items |-> [items[n] EXCEPT !.returned = @ + AgainstItem(lines, n)]]

PostReturn(c, t) ==
    LET lines == returns[t].lines
        i     == returns[t].issue
    IN
    /\ InOneTransaction(c)
    /\ returns[t].status = "draft"
    /\ ReturnFits(issues[i].items, lines)
    /\ onHand' = [b \in Rows |-> onHand[b] + BackOnRow(lines, b, TRUE)]
    /\ scrap' = [b \in Rows |-> scrap[b] + BackOnRow(lines, b, FALSE)]
    /\ issues' = [issues EXCEPT ![i].items = ReturnedItems(@, lines)]
    /\ returns' = [returns EXCEPT ![t].status = "posted"]
    /\ UNCHANGED <<reserved, requests>>

-----------------------------------------------------------------------------
ReturnLine(i) ==
    [item : Drawn(issues[i].items), quantity : Quantities, good : BOOLEAN]

RequestStep(c) ==
    \/ \E asked \in [Lines -> Quantities] : CreateRequest(c, asked)
    \/ \E r \in DOMAIN requests :
          \/ \E asked \in [Lines -> Quantities] : ReadUpdateRequest(c, r, asked)
          \/ \E to \in {"submitted", "rejected"} : ReadRequestStatus(c, r, to)
          \/ \E approved \in [Lines -> Quantities \cup {0}] : ApproveRequest(c, r, approved)
          \/ CancelRequest(c, r)
    \/ SaveUpdateRequest(c)
    \/ SaveRequestStatus(c)

IssueStep(c) ==
    \/ \E r \in DOMAIN requests : ReadCreateIssue(c, r)
    \/ \E i \in DOMAIN issues :
          \/ \E n \in Drawn(issues[i].items), row \in Rows, picked \in Quantities \cup {0} :
                ReadUpdateIssue(c, i, n, row, picked)
          \/ ReadPickIssue(c, i)
          \/ ReadCancelIssue(c, i)
          \/ PostIssue(c, i)
          \/ ReverseIssue(c, i)
    \/ SaveCreateIssue(c)
    \/ SaveUpdateIssue(c)
    \/ SaveIssueStatus(c)

ReturnStep(c) ==
    \/ \E i \in DOMAIN issues : \E line1 \in ReturnLine(i) :
          \/ ReadCreateReturn(c, i, <<line1>>)
          \/ \E line2 \in ReturnLine(i) : ReadCreateReturn(c, i, <<line1, line2>>)
    \/ SaveCreateReturn(c)
    \/ \E t \in DOMAIN returns : PostReturn(c, t)

Next == \E c \in Clients : RequestStep(c) \/ IssueStep(c) \/ ReturnStep(c)

Spec == Init /\ [][Next]_vars

-----------------------------------------------------------------------------
(* Properties *)

LinesOf(p) == {l \in Lines : ProductOf[l] = p}
RowsOf(p)  == {b \in Rows : RowProduct[b] = p}

(* What the posted documents say happened to row b: picked by originals,   *)
(* given back by reversals, brought back by returns.                       *)
Posted == {i \in DOMAIN issues : issues[i].status = "posted" /\ issues[i].reversalOf = 0}
Taken  == {i \in DOMAIN issues : issues[i].reversalOf # 0}

PickedFrom(b) == SumFunction([i \in Posted |-> OnRow(issues[i].items, b)])
GivenBack(b)  == SumFunction([i \in Taken |-> OnRow(issues[i].items, b)])
PostedReturns == {t \in DOMAIN returns : returns[t].status = "posted"}
ReturnedTo(b, good) == SumFunction([t \in PostedReturns |-> BackOnRow(returns[t].lines, b, good)])

(* Items of an issue. *)
Item  == [drawn : BOOLEAN, row : Rows, picked : Nat, returned : Nat]
Items == [Lines \X Rows -> Item]

(* The balances, documents and calls have the fields and ranges of their   *)
(* mongoose schemas; no quantity is negative.                              *)
TypeOK ==
    /\ onHand \in [Rows -> Nat] /\ reserved \in [Rows -> Nat] /\ scrap \in [Rows -> Nat]
    /\ \A r \in DOMAIN requests :
          /\ requests[r].status \in RequestStatus /\ requests[r].ver \in Nat
          /\ requests[r].lines \in [Lines -> [requested : Nat, approved : Nat,
                                              reserved : Nat, fulfilled : Nat]]
    /\ \A i \in DOMAIN issues :
          /\ issues[i].status \in IssueStatus /\ issues[i].reversed \in BOOLEAN
          /\ issues[i].request \in DOMAIN requests
          /\ issues[i].reversalOf \in 0..(i - 1)
          /\ issues[i].items \in Items
    /\ \A t \in DOMAIN returns :
          /\ returns[t].status \in {"draft", "posted"} /\ returns[t].issue \in DOMAIN issues
          /\ returns[t].lines \in Seq([item : Lines \X Rows, row : Rows,
                                       quantity : Nat, good : BOOLEAN])
    /\ \A c \in Clients :
          client[c].op \in {"none", "updateRequest", "requestStatus", "createIssue",
                            "updateIssue", "issueStatus", "createReturn"}

(* What is reserved on a product's rows is what the request lines hold:    *)
(* reserving, releasing on issue and releasing on cancellation, each over  *)
(* whatever rows they find, net out (reserveStock, releaseReservedStock).  *)
ReservationsNet ==
    \A p \in Products :
        SumFunctionOnSet(reserved, RowsOf(p)) =
            SumFunction([r \in DOMAIN requests |->
                SumFunctionOnSet([l \in Lines |-> requests[r].lines[l].reserved], LinesOf(p))])

(* Every balance is its opening quantity and the posted documents, no      *)
(* document counted twice or not at all (postStockIssue, reverseStockIssue,*)
(* postStockReturn), and never goes below zero, however issues, returns    *)
(* and reversals of one row follow one another.                            *)
StockMatchesDocuments ==
    \A b \in Rows :
        /\ onHand[b] >= 0 /\ reserved[b] >= 0 /\ scrap[b] >= 0
        /\ onHand[b] = Opening[b] - PickedFrom(b) + GivenBack(b) + ReturnedTo(b, TRUE)
        /\ scrap[b] = ReturnedTo(b, FALSE)

(* What an issue counts as returned is the sum of the posted returns       *)
(* against it, however many lines name the same item.                      *)
ReturnsCounted ==
    \A i \in DOMAIN issues : \A n \in DOMAIN issues[i].items :
        issues[i].reversalOf = 0 =>
            issues[i].items[n].returned =
                SumFunction([t \in {x \in PostedReturns : returns[x].issue = i} |->
                                AgainstItem(returns[t].lines, n)])

(* Nothing is returned twice: returns drafted side by side, each within    *)
(* what was outstanding when it was drafted, are checked again when they   *)
(* are posted.                                                             *)
ReturnedAtMostPicked ==
    \A i \in DOMAIN issues : \A n \in DOMAIN issues[i].items :
        issues[i].items[n].returned <= issues[i].items[n].picked

(* What the posted issues against request r took of product p, less the    *)
(* reversed ones, as long as no issue is reversed twice.                   *)
NetIssued(r, p) ==
    SumFunction([i \in {x \in Posted : issues[x].request = r /\ ~issues[x].reversed} |->
                    OfProduct(issues[i].items, p)])
ReversedOnce ==
    \A i, j \in Taken : /\ issues[issues[i].reversalOf].reversalOf = 0
                        /\ issues[i].reversalOf = issues[j].reversalOf => i = j

(* The fulfilled quantity of every line is what was issued of its product, *)
(* in any order of issues, returns and reversals (applyIssuedQuantities).  *)
RequestMatchesIssues ==
    ReversedOnce =>
        \A r \in DOMAIN requests : \A l \in Lines :
            requests[r].lines[l].fulfilled = NetIssued(r, ProductOf[l])

(* Only an approved request that is not done holds stock back.  A posting  *)
(* can revive a cancelled request, but never with a reservation.           *)
HeldOnlyWhenApproved ==
    \A r \in DOMAIN requests : \A l \in Lines :
        /\ requests[r].lines[l].reserved > 0 =>
              requests[r].status \in {"approved", "partially_fulfilled", "fulfilled"}
        /\ requests[r].lines[l].reserved <= requests[r].lines[l].approved

(* An issue's status moves along ALLOWED_TRANSITIONS; a reversal issue is  *)
(* born posted.                                                            *)
IssueTransitions ==
    [][\A i \in DOMAIN issues :
          issues'[i].status # issues[i].status
              => IssueMay(issues[i].status, issues'[i].status)]_vars

(* The rows and quantities of a posted issue never change, except for what *)
(* was returned.                                                           *)
PostedIssueUnchanged ==
    [][\A i \in DOMAIN issues : issues[i].status = "posted" =>
          \A n \in DOMAIN issues[i].items :
             /\ issues'[i].items[n].row = issues[i].items[n].row
             /\ issues'[i].items[n].picked = issues[i].items[n].picked]_vars

-----------------------------------------------------------------------------
(* What the documents of the repository say and the code does not do       *)

(* "Negative available stock is blocked by default": over the rows of a    *)
(* product, what is reserved is on hand.                                   *)
AvailableNotNegative ==
    \A p \in Products :
        SumFunctionOnSet(onHand, RowsOf(p)) >= SumFunctionOnSet(reserved, RowsOf(p))

(* Every change of a request's status is one of ALLOWED_TRANSITIONS, or    *)
(* the way back that a reversal makes.                                     *)
RequestTransitions ==
    [][\A r \in DOMAIN requests :
          requests'[r].status # requests[r].status =>
             \/ RequestMay(requests[r].status, requests'[r].status)
             \/ /\ requests[r].status \in {"partially_fulfilled", "fulfilled"}
                /\ requests'[r].status \in {"approved", "partially_fulfilled"}]_vars

(* "Reversal preserves the original and nets correctly": issues, reversals *)
(* and returns together never bring back more than was there.              *)
NothingFromNothing == \A b \in Rows : onHand[b] + scrap[b] <= Opening[b]

(* "Release reservations and update request/issue quantities": a fulfilled *)
(* request, which no transition leaves, holds nothing back.                *)
FulfilledHoldsNothing ==
    \A r \in DOMAIN requests : requests[r].status = "fulfilled" =>
        \A l \in Lines : requests[r].lines[l].reserved = 0

(* The same sentence where two lines ask for one product: together they    *)
(* are fulfilled by what was issued of it, no unit counted for both.       *)
FulfilledIsIssued ==
    ReversedOnce =>
        \A r \in DOMAIN requests : \A p \in Products :
            SumFunctionOnSet([l \in Lines |-> requests[r].lines[l].fulfilled], LinesOf(p))
                = NetIssued(r, p)
-----------------------------------------------------------------------------
(* Calls that do not cross *)

(* What call c has checked of the document it saves holds when it saves.   *)
StillAllowed(c) ==
    LET op == client[c].op  doc == client[c].doc IN
    /\ op = "updateRequest" => requests[doc].status = "draft"
    /\ op = "requestStatus" => RequestMay(requests[doc].status, client[c].data)
    /\ op = "updateIssue" => issues[doc].status = "draft"
    /\ op = "issueStatus" => IssueMay(issues[doc].status, client[c].data)

Saves(c) == client[c].op # "none" /\ client'[c].op = "none"

(* No save meets a document that another call has moved since it was read. *)
(* The code does not see to that: it is so when calls come one at a time,  *)
(* and whenever those that overlap save different documents.               *)
NoStaleSave == [][\A c \in Clients : Saves(c) => StillAllowed(c)]_vars

OneAtATime == \A c, d \in Clients : c = d

-----------------------------------------------------------------------------
(* The inductive invariant *)

Line == [requested : Nat, approved : Nat, reserved : Nat, fulfilled : Nat]
Back == [item : Lines \X Rows, row : Rows, quantity : Nat, good : BOOLEAN]

Request == [status : RequestStatus, ver : Nat, lines : [Lines -> Line]]
Issue   == [request : Nat, status : IssueStatus, items : Items, reversalOf : Nat,
            reversed : BOOLEAN]
Return  == [issue : Nat, status : {"draft", "posted"}, lines : Seq(Back)]

(* Issues are drawn up against requests that were approved. *)
Issuable == {r \in DOMAIN requests :
                requests[r].status \in {"approved", "partially_fulfilled", "fulfilled",
                                        "cancelled"}}
PostedIssues == {i \in DOMAIN issues : issues[i].status = "posted"}

RequestsInv ==
    /\ requests \in Seq(Request)
    /\ \A r \in DOMAIN requests :
          requests[r].status \notin {"approved", "partially_fulfilled", "fulfilled"} =>
             \A l \in Lines : requests[r].lines[l].reserved = 0

(* What is reversed or returned is posted, and stays so. *)
IssuesInv ==
    /\ issues \in Seq(Issue)
    /\ \A i \in DOMAIN issues :
          /\ issues[i].request \in Issuable
          /\ issues[i].reversalOf # 0 =>
                /\ issues[i].reversalOf \in 1..(i - 1)
                /\ issues[i].status = "posted"
                /\ issues[issues[i].reversalOf].status = "posted"
          /\ issues[i].reversed => \E j \in DOMAIN issues : issues[j].reversalOf = i
          /\ \A n \in DOMAIN issues[i].items :
                /\ issues[i].items[n].returned <= issues[i].items[n].picked
                /\ issues[i].status # "posted" => issues[i].items[n].returned = 0

ReturnsInv ==
    /\ returns \in Seq(Return)
    /\ \A t \in DOMAIN returns : returns[t].issue \in PostedIssues

(* What a call has read and will save: documents that are there, and data  *)
(* for them.                                                               *)
TypedCall(call) ==
    /\ call.op \in {"none", "updateRequest", "requestStatus", "createIssue", "updateIssue",
                    "issueStatus", "createReturn"}
    /\ call.op \in {"updateRequest", "requestStatus", "createIssue"} =>
          call.doc \in DOMAIN requests
    /\ call.op \in {"updateIssue", "issueStatus", "createReturn"} => call.doc \in DOMAIN issues
    /\ call.op = "updateRequest" => call.data.asked \in [Lines -> Quantities]
    /\ call.op = "requestStatus" => call.data \in {"submitted", "rejected"}
    /\ call.op = "createIssue" =>
          /\ call.data \in Items
          /\ \A n \in DOMAIN call.data : call.data[n].returned = 0
    /\ call.op = "updateIssue" =>
          /\ call.data.item \in Lines \X Rows
          /\ call.data.row \in Rows /\ call.data.picked \in Nat
    /\ call.op = "issueStatus" => call.data \in {"picked", "cancelled"}
    /\ call.op = "createReturn" => call.data \in Seq(Back)

CallInv(call) ==
    /\ TypedCall(call)
    /\ call.op = "createIssue" => call.doc \in Issuable
    /\ call.op = "createReturn" => call.doc \in PostedIssues

CallsInv ==
    /\ DOMAIN client = Clients
    /\ \A c \in Clients : /\ DOMAIN client[c] = {"op", "doc", "data"}
                          /\ CallInv(client[c])

StockInv ==
    onHand \in [Rows -> Nat] /\ reserved \in [Rows -> Nat] /\ scrap \in [Rows -> Nat]

IInv == /\ StockInv /\ RequestsInv /\ IssuesInv /\ ReturnsInv /\ CallsInv
        /\ ReservationsNet /\ StockMatchesDocuments /\ RequestMatchesIssues

(* What holds however calls cross: the types, and that an issue counts     *)
(* what the posted returns against it bring back.                          *)
IssuesTyped ==
    /\ issues \in Seq(Issue)
    /\ \A i \in DOMAIN issues :
          issues[i].request \in DOMAIN requests /\ issues[i].reversalOf \in 0..(i - 1)

ReturnsTyped ==
    /\ returns \in Seq(Return)
    /\ \A t \in DOMAIN returns : returns[t].issue \in DOMAIN issues

CallsTyped ==
    /\ DOMAIN client = Clients
    /\ \A c \in Clients : /\ DOMAIN client[c] = {"op", "doc", "data"}
                          /\ TypedCall(client[c])

CrossedInv == /\ StockInv /\ requests \in Seq(Request)
              /\ IssuesTyped /\ ReturnsTyped /\ CallsTyped /\ ReturnsCounted

(* While calls come one at a time, what each has checked holds on.         *)
OneAtATimeInv == IInv /\ \A c \in Clients : StillAllowed(c)
=============================================================================
