---------------------------- MODULE Corrections ----------------------------
(***************************************************************************)
(* Stock adjustments and stock counts (modules/adjustments, counts): the   *)
(* two documents that correct a balance.  An adjustment says by how much;  *)
(* a count snapshots the balances, is told what is really there, and posts *)
(* the difference, while other postings go on moving the same balances.    *)
(*                                                                         *)
(* create, post and reverse are transactions, one step each                *)
(* (StockPosting).  The other handlers read a document and save it later   *)
(* without looking again, and a new count reads the balances one by one    *)
(* before the transaction that stores it.  Self-approval is left out: with *)
(* a second user about it keeps no document from being approved.           *)
(***************************************************************************)
EXTENDS Integers, Sequences, FiniteSets, FiniteSetsExt, Functions

CONSTANTS Clients,      \* HTTP calls in flight
          Rows,         \* balance keys (location, product, lot, state)
          Opening,      \* Opening[b]: on hand before any of this
          Inputs,       \* the lists of [row, delta] an adjustment may be asked for
          Deltas,       \* what another posting may add
          Counted,      \* what a clerk may count
          Threshold,    \* ADJUSTMENT_MATERIAL_QUANTITY_THRESHOLD
          Selections,   \* the lists of rows a count may be asked for
          MaxAdjustments, MaxCounts, MaxEdits, MaxOther, \* bounds
          MaxTogether   \* bound: of documents, edits and moved rows

ASSUME CorrectionsAssumption ==
    /\ Opening \in [Rows -> Nat]
    /\ Deltas \subseteq Int \ {0} /\ Counted \subseteq Nat
    /\ Inputs \subseteq Seq([row : Rows, delta : Int \ {0}]) \ {<<>>}
    /\ Selections \subseteq Seq(Rows) \ {<<>>}

VARIABLES onHand,       \* the balances and their versions
          version,
          other,        \* what other documents' postings added to each balance
          adjustments,  \* documents by number
          counts,
          client        \* client[c]: what call c has read and will save

vars == <<onHand, version, other, adjustments, counts, client>>
stock == <<onHand, version, other>>

Status == {"draft", "submitted", "approved", "rejected", "posted", "reversed"}

(* Faulty table: what is posted can be posted again. *)
MayAgain(from, to) ==
    <<from, to>> \in {<<"draft", "submitted">>, <<"submitted", "approved">>,
                      <<"submitted", "rejected">>, <<"approved", "posted">>,
                      <<"posted", "posted">>, <<"posted", "reversed">>}

(* ALLOWED_TRANSITIONS, the same for adjustments and counts. *)
May(from, to) ==
    <<from, to>> \in {<<"draft", "submitted">>, <<"submitted", "approved">>,
                      <<"submitted", "rejected">>, <<"approved", "posted">>,
                      <<"posted", "reversed">>}

(* A Decimal128 or null, as a set of at most one number. *)
Null == {}

Idle == [op |-> "none", doc |-> 0, data |-> <<>>]

Init ==
    /\ onHand = Opening
    /\ version = [b \in Rows |-> 0]
    /\ other = [b \in Rows |-> 0]
    /\ adjustments = <<>>
    /\ counts = <<>>
    /\ client = [c \in Clients |-> Idle]

Read(c, op, doc, data) ==
    /\ client[c].op = "none"
    /\ client' = [client EXCEPT ![c] = [op |-> op, doc |-> doc, data |-> data]]

Saving(c, op) ==
    /\ client[c].op = op
    /\ client' = [client EXCEPT ![c] = Idle]

InOneTransaction(c) == client[c].op = "none" /\ UNCHANGED client

-----------------------------------------------------------------------------
(* Posting [row, delta] movements *)

OnRow(moves, b) == {n \in DOMAIN moves : moves[n].row = b /\ moves[n].delta # 0}
Net(moves, b)   == SumFunction([n \in OnRow(moves, b) |-> moves[n].delta])

(* A movement out is an update conditional on what is there, and movements *)
(* of one balance happen in the order of the lines.                        *)
Borne(moves) ==
    \A n \in DOMAIN moves :
        onHand[moves[n].row] + Net(SubSeq(moves, 1, n), moves[n].row) >= 0

PostMovements(moves) ==
    /\ Borne(moves)
    /\ onHand' = [b \in Rows |-> onHand[b] + Net(moves, b)]
    /\ version' = [b \in Rows |-> version[b] + Cardinality(OnRow(moves, b))]
    /\ UNCHANGED other

(* Documents, edits and rows that other postings have moved: an instance   *)
(* has room for some of each, not for all of them at once.                 *)
Room ==
    Len(counts) + Len(adjustments) + Cardinality({b \in Rows : other[b] # 0})
        + SumFunction([a \in DOMAIN adjustments |-> adjustments[a].ver]) < MaxTogether

(* Receipts, issues, transfers: any other posting against a balance. *)
OtherPosting(b, delta) ==
    /\ version[b] < MaxOther /\ Room
    /\ onHand[b] + delta >= 0
    /\ onHand' = [onHand EXCEPT ![b] = @ + delta]
    /\ version' = [version EXCEPT ![b] = @ + 1]
    /\ other' = [other EXCEPT ![b] = @ + delta]
    /\ UNCHANGED <<adjustments, counts, client>>

-----------------------------------------------------------------------------
(* Adjustments *)

Lines(input) == [n \in DOMAIN input |-> [row |-> input[n].row, delta |-> input[n].delta,
                                         prior |-> Null, resulting |-> Null]]

(* computeRequiresElevatedApproval *)
Material(lines) ==
    SumFunction([n \in DOMAIN lines |-> Max({lines[n].delta, -lines[n].delta})]) >= Threshold

CreateAdjustment(c, input) ==
    /\ InOneTransaction(c)
    /\ Len(adjustments) < MaxAdjustments /\ Room
    /\ adjustments' = Append(adjustments,
                             [status |-> "draft", ver |-> 0, lines |-> Lines(input),
                              material |-> Material(input), reversalOf |-> 0])
    /\ UNCHANGED <<stock, counts>>

(* The lines are replaced, so the save compares and increments __v. *)
ReadUpdateAdjustment(c, a, input) ==
    /\ adjustments[a].ver < MaxEdits /\ Room
    /\ adjustments[a].status = "draft"
    /\ Read(c, "updateAdjustment", a, [ver |-> adjustments[a].ver, input |-> input])
    /\ UNCHANGED <<stock, adjustments, counts>>

(* Lines and flag of an edited adjustment. *)
Revised(adjustment, input) ==
    [adjustment EXCEPT !.ver = @ + 1, !.lines = Lines(input), !.material = Material(input)]

SaveUpdateAdjustment(c) ==
    LET a    == client[c].doc
        data == client[c].data
    IN  /\ Saving(c, "updateAdjustment")
        /\ adjustments' = IF adjustments[a].ver # data.ver THEN adjustments
                          ELSE [adjustments EXCEPT ![a] = Revised(@, data.input)]
        /\ UNCHANGED <<stock, counts>>

(* submit, approve and reject only assign the status and who did it. *)
ReadAdjustmentStatus(c, a, to) ==
    /\ to \in {"submitted", "approved", "rejected"}
    /\ May(adjustments[a].status, to)
    /\ Read(c, "adjustmentStatus", a, to)
    /\ UNCHANGED <<stock, adjustments, counts>>

SaveAdjustmentStatus(c) ==
    /\ Saving(c, "adjustmentStatus")
    /\ adjustments' = [adjustments EXCEPT ![client[c].doc].status = client[c].data]
    /\ UNCHANGED <<stock, counts>>

(* Faulty record: the quantities are read after the movements. *)
RecordedLate(lines) ==
    [n \in DOMAIN lines |->
        LET after == onHand[lines[n].row] + Net(lines, lines[n].row) IN
        [lines[n] EXCEPT !.prior = {after}, !.resulting = {after + lines[n].delta}]]

(* Every line records the balance before any movement of this document,    *)
(* and what it makes of that alone.                                        *)
Recorded(lines) ==
    [n \in DOMAIN lines |->
        [lines[n] EXCEPT !.prior = {onHand[lines[n].row]},
                         !.resulting = {onHand[lines[n].row] + lines[n].delta}]]

PostAdjustment(c, a) ==
    /\ InOneTransaction(c)
    /\ May(adjustments[a].status, "posted")
    /\ PostMovements(adjustments[a].lines)
    /\ adjustments' = [adjustments EXCEPT ![a].status = "posted",
                                          ![a].lines = Recorded(@)]
    /\ UNCHANGED counts

(* A reversal is a posted adjustment with the opposite deltas; it inherits *)
(* the approval flag, and the original stays posted.                       *)
ReverseAdjustment(c, a) ==
    LET opposite == [n \in DOMAIN adjustments[a].lines |->
                       [adjustments[a].lines[n] EXCEPT !.delta = -@]]
    IN
    /\ InOneTransaction(c)
    /\ Len(adjustments) < MaxAdjustments /\ Room
    /\ adjustments[a].status = "posted"
    /\ PostMovements(opposite)
    /\ adjustments' = Append(adjustments,
                             [status |-> "posted", ver |-> 0, lines |-> Recorded(opposite),
                              material |-> adjustments[a].material, reversalOf |-> a])
    /\ UNCHANGED counts

-----------------------------------------------------------------------------
(* Counts *)

(* resolveSnapshotItems: one read per selected row, outside a transaction. *)
BeginCount(c, rows) ==
    /\ Len(counts) < MaxCounts /\ Room
    /\ Read(c, "createCount", 0, [rows |-> rows, lines |-> <<>>])
    /\ UNCHANGED <<stock, adjustments, counts>>

SnapshotRow(c) ==
    LET data == client[c].data
        row  == data.rows[Len(data.lines) + 1]
    IN
    /\ client[c].op = "createCount"
    /\ Len(data.lines) < Len(data.rows)
    /\ client' = [client EXCEPT ![c].data.lines =
                    Append(@, [row |-> row, system |-> onHand[row], counted |-> Null,
                               variance |-> Null, asOf |-> version[row]])]
    /\ UNCHANGED <<stock, adjustments, counts>>

SaveCreateCount(c) ==
    /\ Saving(c, "createCount")
    /\ Len(client[c].data.lines) = Len(client[c].data.rows)
    /\ Len(counts) < MaxCounts
    /\ counts' = Append(counts, [status |-> "draft", lines |-> client[c].data.lines,
                                 reversalOf |-> 0])
    /\ UNCHANGED <<stock, adjustments>>

(* The clerk enters line by line; the paths items.n.* are written.         *)
ReadUpdateCount(c, k, n, quantity) ==
    /\ counts[k].status = "draft"
    /\ Read(c, "updateCount", k, [line |-> n, counted |-> quantity])
    /\ UNCHANGED <<stock, adjustments, counts>>

SaveUpdateCount(c) ==
    /\ Saving(c, "updateCount")
    /\ counts' = [counts EXCEPT ![client[c].doc].lines[client[c].data.line].counted =
                    {client[c].data.counted}]
    /\ UNCHANGED <<stock, adjustments>>

(* Faulty difference: with the wrong sign. *)
VarianceReversed(lines) ==
    [n \in DOMAIN lines |-> {lines[n].system - q : q \in lines[n].counted}]

(* Counted less the snapshot. *)
Variance(lines) ==
    [n \in DOMAIN lines |-> {q - lines[n].system : q \in lines[n].counted}]

ReadSubmitCount(c, k) ==
    /\ May(counts[k].status, "submitted")
    /\ \A n \in DOMAIN counts[k].lines : counts[k].lines[n].counted # Null
    /\ Read(c, "submitCount", k, Variance(counts[k].lines))
    /\ UNCHANGED <<stock, adjustments, counts>>

SaveSubmitCount(c) ==
    /\ Saving(c, "submitCount")
    /\ counts' = [counts EXCEPT
                    ![client[c].doc].status = "submitted",
                    ![client[c].doc].lines =
                       [n \in DOMAIN @ |-> [@[n] EXCEPT !.variance = client[c].data[n]]]]
    /\ UNCHANGED <<stock, adjustments>>

ReadCountStatus(c, k, to) ==
    /\ to \in {"approved", "rejected"}
    /\ May(counts[k].status, to)
    /\ Read(c, "countStatus", k, to)
    /\ UNCHANGED <<stock, adjustments, counts>>

SaveCountStatus(c) ==
    /\ Saving(c, "countStatus")
    /\ counts' = [counts EXCEPT ![client[c].doc].status = client[c].data]
    /\ UNCHANGED <<stock, adjustments>>

(* A variance that is null or zero moves nothing. *)
Movements(lines) ==
    [n \in DOMAIN lines |->
        [row |-> lines[n].row,
         delta |-> IF lines[n].variance = Null THEN 0 ELSE CHOOSE v \in lines[n].variance : TRUE]]

PostCount(c, k) ==
    /\ InOneTransaction(c)
    /\ May(counts[k].status, "posted")
    /\ PostMovements(Movements(counts[k].lines))
    /\ counts' = [counts EXCEPT ![k].status = "posted"]
    /\ UNCHANGED adjustments

ReverseCount(c, k) ==
    LET opposite == [n \in DOMAIN counts[k].lines |->
                       [counts[k].lines[n] EXCEPT
                          !.variance = {-Movements(counts[k].lines)[n].delta}]]
    IN
    /\ InOneTransaction(c)
    /\ Len(counts) < MaxCounts /\ Room
    /\ counts[k].status = "posted"
    /\ PostMovements(Movements(opposite))
    /\ counts' = Append(counts, [status |-> "posted", lines |-> opposite, reversalOf |-> k])
    /\ UNCHANGED adjustments

-----------------------------------------------------------------------------
AdjustmentStep(c) ==
    \/ \E input \in Inputs : CreateAdjustment(c, input)
    \/ \E a \in DOMAIN adjustments :
          \/ \E input \in Inputs : ReadUpdateAdjustment(c, a, input)
          \/ \E to \in {"submitted", "approved", "rejected"} : ReadAdjustmentStatus(c, a, to)
          \/ PostAdjustment(c, a)
          \/ ReverseAdjustment(c, a)
    \/ SaveUpdateAdjustment(c)
    \/ SaveAdjustmentStatus(c)

CountStep(c) ==
    \/ \E rows \in Selections : BeginCount(c, rows)
    \/ SnapshotRow(c)
    \/ SaveCreateCount(c)
    \/ \E k \in DOMAIN counts :
          \/ \E n \in DOMAIN counts[k].lines, quantity \in Counted :
                ReadUpdateCount(c, k, n, quantity)
          \/ ReadSubmitCount(c, k)
          \/ \E to \in {"approved", "rejected"} : ReadCountStatus(c, k, to)
          \/ PostCount(c, k)
          \/ ReverseCount(c, k)
    \/ SaveUpdateCount(c)
    \/ SaveSubmitCount(c)
    \/ SaveCountStatus(c)

Next ==
    \/ \E c \in Clients : AdjustmentStep(c) \/ CountStep(c)
    \/ \E b \in Rows, delta \in Deltas : OtherPosting(b, delta)

Spec == Init /\ [][Next]_vars

-----------------------------------------------------------------------------
(* Properties *)

Originals(documents) == {d \in DOMAIN documents : documents[d].reversalOf = 0}
Posted(documents)    == {d \in DOMAIN documents : documents[d].status = "posted"}

(* What each posted adjustment, and each posted count, moved balance b by. *)
Adjusted(b)  == [a \in Posted(adjustments) |-> Net(adjustments[a].lines, b)]
Recounted(b) == [k \in Posted(counts) |-> Net(Movements(counts[k].lines), b)]

(* No balance goes below zero, not even between two lines of one document; *)
(* documents have the fields of their schemas.                             *)
TypeOK ==
    /\ onHand \in [Rows -> Nat] /\ version \in [Rows -> Nat] /\ other \in [Rows -> Int]
    /\ \A a \in DOMAIN adjustments :
          /\ adjustments[a].status \in Status /\ adjustments[a].material \in BOOLEAN
          /\ adjustments[a].ver \in Nat /\ adjustments[a].reversalOf \in 0..(a - 1)
          /\ \A n \in DOMAIN adjustments[a].lines :
                LET line == adjustments[a].lines[n] IN
                /\ line.row \in Rows /\ line.delta \in Int
                /\ line.prior \subseteq Nat /\ line.resulting \subseteq Int
                /\ Cardinality(line.prior) <= 1 /\ Cardinality(line.resulting) <= 1
    /\ \A k \in DOMAIN counts :
          /\ counts[k].status \in Status /\ counts[k].reversalOf \in 0..(k - 1)
          /\ \A n \in DOMAIN counts[k].lines :
                LET line == counts[k].lines[n] IN
                /\ line.row \in Rows /\ line.system \in Nat /\ line.asOf \in Nat
                /\ line.counted \subseteq Nat /\ line.variance \subseteq Int
                /\ Cardinality(line.counted) <= 1 /\ Cardinality(line.variance) <= 1

(* Every balance is its opening quantity, the other postings and the       *)
(* posted corrections, each once, and no correction takes more than is     *)
(* there, in whatever order its lines come.                                *)
StockMatchesCorrections ==
    \A b \in Rows :
        /\ onHand[b] >= 0
        /\ onHand[b] = Opening[b] + other[b] + SumFunction(Adjusted(b))
                                             + SumFunction(Recounted(b))

(* Posting a count sets every balance that nothing moved since its         *)
(* snapshot, and that it selects once, to what was counted; a balance that *)
(* moved keeps the movement.                                               *)
CountSetsBalance ==
    [][\A k \in Originals(counts) :
          counts[k].status # "posted" /\ counts'[k].status = "posted" =>
             \A n \in DOMAIN counts[k].lines :
                LET line == counts[k].lines[n] IN
                /\ line.asOf = version[line.row]
                /\ \A m \in DOMAIN counts[k].lines :
                      counts[k].lines[m].row = line.row => m = n
                => onHand'[line.row] \in line.counted]_vars

(* What an original count posts is what was counted less the snapshot, for *)
(* every line: nothing is entered between the computation and the posting. *)
VarianceIsCurrent ==
    \A k \in Originals(counts) :
        counts[k].status \in {"submitted", "approved", "posted"} =>
            \A n \in DOMAIN counts[k].lines :
                counts[k].lines[n].variance =
                    {q - counts[k].lines[n].system : q \in counts[k].lines[n].counted}

(* "Audit records prior quantity, delta, resulting quantity": a line that  *)
(* has its balance for itself records the balance that posting left.       *)
ResultIsRecorded ==
    [][\A a \in DOMAIN adjustments' :
          /\ adjustments'[a].status = "posted"
          /\ a \in DOMAIN adjustments => adjustments[a].status # "posted"
          => \A n \in DOMAIN adjustments'[a].lines :
                LET line == adjustments'[a].lines[n] IN
                Cardinality(OnRow(adjustments'[a].lines, line.row)) = 1 =>
                   line.prior = {onHand[line.row]} /\ line.resulting = {onHand'[line.row]}]_vars

(* The approval flag is the one of the lines that are there, whichever of  *)
(* two edits wins.                                                         *)
MaterialMatchesLines ==
    \A a \in DOMAIN adjustments :
        LET lines  == adjustments[a].lines
            sum(S) == SumFunction([n \in S |-> lines[n].delta])
            up     == {n \in DOMAIN lines : lines[n].delta > 0}
        IN  adjustments[a].material <=> sum(up) - sum(DOMAIN lines \ up) >= Threshold

(* The rows and quantities of a posted correction never change. *)
PostedCorrectionUnchanged ==
    [][/\ \A a \in DOMAIN adjustments :
             adjustments[a].status = "posted" => adjustments'[a].lines = adjustments[a].lines
       /\ \A k \in DOMAIN counts :
             counts[k].status = "posted" => counts'[k].lines = counts[k].lines]_vars

-----------------------------------------------------------------------------
(* What the documents of the repository say and the code does not do       *)

(* The same record when lines share a balance: the last of them records    *)
(* what posting left.                                                      *)
LastResultIsRecorded ==
    [][\A a \in DOMAIN adjustments :
          adjustments[a].status # "posted" /\ adjustments'[a].status = "posted" =>
             LET lines == adjustments'[a].lines IN
             \A n \in DOMAIN lines :
                n = Max(OnRow(lines, lines[n].row)) =>
                   lines[n].resulting = {onHand'[lines[n].row]}]_vars

-----------------------------------------------------------------------------
(* When no save is stale *)

(* What call c has checked holds on: the document has the status it was    *)
(* read with and, for a submission, the quantities.                        *)
StillAllowed(c) ==
    LET call == client[c] IN
    /\ call.op = "updateAdjustment" => adjustments[call.doc].status = "draft"
    /\ call.op = "adjustmentStatus" => May(adjustments[call.doc].status, call.data)
    /\ call.op = "updateCount" => counts[call.doc].status = "draft"
    /\ call.op = "submitCount" => /\ May(counts[call.doc].status, "submitted")
                                  /\ call.data = Variance(counts[call.doc].lines)
    /\ call.op = "countStatus" => May(counts[call.doc].status, call.data)

(* No document is saved over what another call has made of it since it was *)
(* read.  The code does not see to that: it is so when calls come one at a *)
(* time, or those that overlap are about different documents.              *)
NoStaleSave ==
    [][\A c \in Clients : client[c].op # "none" /\ client'[c].op = "none"
                              => StillAllowed(c)]_vars

OneAtATime == \A c, d \in Clients : c = d

-----------------------------------------------------------------------------
(* The inductive invariants *)

AtMostOne(S) == \A x, y \in S : x = y

AdjustmentLine == [row : Rows, delta : Int \ {0}, prior : SUBSET Nat, resulting : SUBSET Int]
CountLine == [row : Rows, system : Nat, counted : SUBSET Nat, variance : SUBSET Int, asOf : Nat]
Adjustment == [status : Status, ver : Nat, lines : Seq(AdjustmentLine), material : BOOLEAN,
               reversalOf : Nat]
StockCount == [status : Status, lines : Seq(CountLine), reversalOf : Nat]

Balances ==
    /\ onHand \in [Rows -> Nat] /\ version \in [Rows -> Nat] /\ other \in [Rows -> Int]

(* The approval flag is the one of the lines.                              *)
AdjustmentsInv ==
    /\ adjustments \in Seq(Adjustment)
    /\ \A a \in DOMAIN adjustments :
          /\ adjustments[a].reversalOf \in 0..(a - 1)
          /\ adjustments[a].material <=> Material(adjustments[a].lines)
          /\ \A n \in DOMAIN adjustments[a].lines :
                AtMostOne(adjustments[a].lines[n].prior)
                    /\ AtMostOne(adjustments[a].lines[n].resulting)

(* A snapshot is no newer than its balance, and says what is on hand for   *)
(* as long as the balance has the version it was taken at.                 *)
Snapshot(line) ==
    /\ line.asOf <= version[line.row]
    /\ line.asOf = version[line.row] => line.system = onHand[line.row]
    /\ AtMostOne(line.counted) /\ AtMostOne(line.variance)

CountsInv ==
    /\ counts \in Seq(StockCount)
    /\ \A k \in DOMAIN counts :
          /\ counts[k].reversalOf \in 0..(k - 1)
          /\ \A n \in DOMAIN counts[k].lines : Snapshot(counts[k].lines[n])

(* What call c holds belongs to a document that is there.                  *)
CallInv(c) ==
    LET call == client[c]
        lines == counts[call.doc].lines
    IN
    /\ call = [op |-> call.op, doc |-> call.doc, data |-> call.data]
    /\ call.op \in {"none", "updateAdjustment", "adjustmentStatus", "createCount",
                    "updateCount", "submitCount", "countStatus"}
    /\ call.op \in {"updateAdjustment", "adjustmentStatus"} => call.doc \in DOMAIN adjustments
    /\ call.op \in {"updateCount", "submitCount", "countStatus"} => call.doc \in DOMAIN counts
    /\ call.op = "updateAdjustment" => call.data.input \in Inputs
    /\ call.op = "adjustmentStatus" => call.data \in {"submitted", "approved", "rejected"}
    /\ call.op = "createCount" =>
          /\ call.data = [rows |-> call.data.rows, lines |-> call.data.lines]
          /\ call.data.rows \in Selections /\ call.data.lines \in Seq(CountLine)
          /\ \A n \in DOMAIN call.data.lines : Snapshot(call.data.lines[n])
    /\ call.op = "updateCount" => call.data.line \in DOMAIN lines /\ call.data.counted \in Counted
    /\ call.op = "submitCount" =>
          /\ DOMAIN call.data = DOMAIN lines
          /\ \A n \in DOMAIN lines : /\ lines[n].counted # Null
                                     /\ call.data[n] \subseteq Int /\ AtMostOne(call.data[n])
    /\ call.op = "countStatus" => call.data \in {"approved", "rejected"}

(* What holds however stale a save is. *)
IInv ==
    /\ Balances /\ AdjustmentsInv /\ CountsInv
    /\ DOMAIN client = Clients /\ \A c \in Clients : CallInv(c)

(* What holds besides when no save is stale: a count that has left the     *)
(* clerk has every line counted.                                           *)
FreshInv ==
    /\ IInv /\ StockMatchesCorrections /\ VarianceIsCurrent
    /\ \A k \in Originals(counts) :
          counts[k].status \in {"submitted", "approved", "posted"} =>
             \A n \in DOMAIN counts[k].lines : counts[k].lines[n].counted # Null

(* While calls come one at a time, what each has checked holds on.         *)
OneAtATimeInv == FreshInv /\ \A c \in Clients : StillAllowed(c)
=============================================================================
