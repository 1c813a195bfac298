---------------------------- MODULE StockPosting ----------------------------
(***************************************************************************)
(* One posting endpoint, operation by operation: withTransaction           *)
(* (shared/infrastructure/mongo.ts) around withIdempotentPost              *)
(* (shared/infrastructure/idempotency.ts) around the posting work of a     *)
(* document service and LedgerService.postStockMovements, run by several   *)
(* HTTP calls at once over MongoDB's snapshot-isolated transactions.       *)
(*                                                                         *)
(* A transaction works on its own copy of the documents it touches.  A     *)
(* write to a document that another open transaction has written, or that  *)
(* was committed since the snapshot, is a write conflict: the transaction  *)
(* aborts with a transient error and the WHOLE work starts again.          *)
(* MAX_TRANSACTION_ATTEMPTS bounds the rounds of the loop; the driver's    *)
(* session.withTransaction, which each round calls, repeats the work too,  *)
(* for a limited time.  MaxAttempts stands for both.                       *)
(***************************************************************************)
EXTENDS Integers, FiniteSets, FiniteSetsExt

CONSTANTS Calls,        \* HTTP calls that reach the endpoint
          Docs,         \* source documents waiting to be posted
          NumKeys,      \* balance keys, numbered in movementSortKey order
          IdemKeys,     \* values of the Idempotency-Key header
          Movement,     \* Movement[d][k]: signed quantity of document d on key k
          Opening,      \* Opening[k]: on-hand quantity before these postings
          MaxAttempts,  \* attempts of the work that a call may make
          NoDoc,        \* "no result stored under this key"
          NoKey         \* the header is missing

Keys == 1..NumKeys

ASSUME ConstantsAssumption ==
    /\ NumKeys \in Nat
    /\ MaxAttempts \in Nat \ {0}
    /\ Opening \in [Keys -> Nat]
    /\ Movement \in [Docs -> [Keys -> Int]]
    /\ NoDoc \notin Docs
    /\ NoKey \notin IdemKeys

(* A document with nothing to move is refused by the service               *)
(* ("This issue has no picked quantity to post.").                         *)
ASSUME EveryDocMoves == \A d \in Docs : \E k \in Keys : Movement[d][k] # 0

VARIABLES store,   \* the committed documents
          tx,      \* tx[c]: what c's open transaction sees and has written
          call,    \* call[c]: where the call is
          audit    \* audit events, by the call that recorded them

vars == <<store, tx, call, audit>>

-----------------------------------------------------------------------------
(* Types *)

Row == [doc : Docs, key : Keys, quantity : Int, number : Nat]

Stores == [onHand : [Keys -> Int],                 \* stockBalances
           seq    : Nat,                           \* counters, :stockTransaction
           status : [Docs -> {"ready", "posted"}], \* the source documents
           idem   : [IdemKeys -> Docs \cup {NoDoc}], \* idempotencyResults
           rows   : SUBSET Row]                    \* stockTransactions

(* The documents a transaction can write, as names for conflict detection. *)
BalanceOf(k) == <<"balance", k>>
DocOf(d)     == <<"doc", d>>
IdemOf(i)    == <<"idem", i>>
Counter      == <<"counter", "stockTransaction">>

Objects == {BalanceOf(k) : k \in Keys} \cup {DocOf(d) : d \in Docs}
             \cup {IdemOf(i) : i \in IdemKeys} \cup {Counter}

(* In a transaction: the states from the first read to the commit. *)
InTx == {"lookup", "load", "move", "save", "record", "commit"}

Ended == {"done", "failed"}

CallStates == [pc : {"idle", "begin", "audit"} \cup InTx \cup Ended,
               doc : Docs \cup {NoDoc}, idem : IdemKeys \cup {NoKey},
               attempt : 0..MaxAttempts, cursor : 1..(NumKeys + 1)]

Transactions == [view : Stores, written : SUBSET Objects, missed : SUBSET Objects]

EmptyStore == [onHand |-> [k \in Keys |-> Opening[k]], seq |-> 0,
               status |-> [d \in Docs |-> "ready"],
               idem |-> [i \in IdemKeys |-> NoDoc], rows |-> {}]

NoTx == [view |-> EmptyStore, written |-> {}, missed |-> {}]

TypeOK == /\ store \in Stores
          /\ tx \in [Calls -> Transactions]
          /\ call \in [Calls -> CallStates]
          /\ audit \subseteq (Calls \X Docs)

-----------------------------------------------------------------------------
Init ==
    /\ store = EmptyStore
    /\ tx = [c \in Calls |-> NoTx]
    /\ call = [c \in Calls |-> [pc |-> "idle", doc |-> NoDoc, idem |-> NoKey,
                                attempt |-> 0, cursor |-> 1]]
    /\ audit = {}

GoTo(c, pc) == call' = [call EXCEPT ![c].pc = pc]

(* The client calls the endpoint for document d with header value i; a     *)
(* retried click is a second call with the same d and i.                   *)
Request(c, d, i) ==
    /\ call[c].pc = "idle"
    /\ call' = [call EXCEPT ![c].pc = "begin", ![c].doc = d, ![c].idem = i]
    /\ UNCHANGED <<store, tx, audit>>

(* Faulty attempts: one that is not counted, and one that resumes the      *)
(* movements where the last attempt stopped.                               *)
StartAttempt(c, cursor, attempt) ==
    /\ call[c].pc = "begin"
    /\ call[c].attempt < MaxAttempts
    /\ call' = [call EXCEPT ![c].pc = "lookup", ![c].cursor = cursor, ![c].attempt = attempt]
    /\ tx' = [tx EXCEPT ![c] = [view |-> store, written |-> {}, missed |-> {}]]
    /\ UNCHANGED <<store, audit>>
BeginUncounted(c)    == StartAttempt(c, 1, call[c].attempt)
BeginResuming(c)     == StartAttempt(c, call[c].cursor, call[c].attempt + 1)

(* An attempt: a fresh session and a fresh snapshot. *)
Begin(c) ==
    /\ call[c].pc = "begin"
    /\ call[c].attempt < MaxAttempts
    /\ call' = [call EXCEPT ![c].pc = "lookup", ![c].cursor = 1, ![c].attempt = @ + 1]
    /\ tx' = [tx EXCEPT ![c] = [view |-> store, written |-> {}, missed |-> {}]]
    /\ UNCHANGED <<store, audit>>

(* Faulty aborts: ledger rows, or sequence numbers, that were written      *)
(* without the session stay behind.                                        *)
AbortKeepingRows(c) ==
    /\ GoTo(c, "failed")
    /\ tx' = [tx EXCEPT ![c] = NoTx]
    /\ store' = [store EXCEPT !.rows = @ \cup tx[c].view.rows]
    /\ UNCHANGED audit
AbortKeepingCounter(c) ==
    /\ GoTo(c, "failed")
    /\ tx' = [tx EXCEPT ![c] = NoTx]
    /\ store' = [store EXCEPT !.seq = @ + Cardinality(tx[c].view.rows \ store.rows)]
    /\ UNCHANGED audit

(* The work threw an error without a retryable label: the transaction is   *)
(* aborted and the error goes to the client.                               *)
Abort(c) ==
    /\ GoTo(c, "failed")
    /\ tx' = [tx EXCEPT ![c] = NoTx]
    /\ UNCHANGED <<store, audit>>

(* A transient error: the next attempt, or the error after the last one. *)
Retry(c) ==
    /\ GoTo(c, IF call[c].attempt < MaxAttempts THEN "begin" ELSE "failed")
    /\ tx' = [tx EXCEPT ![c] = NoTx]
    /\ UNCHANGED audit

-----------------------------------------------------------------------------
(* Writes under snapshot isolation *)

Writable(c, objects) ==
    /\ objects \cap tx[c].missed = {}
    /\ \A other \in Calls \ {c} : objects \cap tx[other].written = {}

Write(c, objects, view) ==
    tx' = [tx EXCEPT ![c].view = view, ![c].written = @ \cup objects]

(* The documents the call's next operation writes. *)
NextWrites(c) ==
    LET at == call[c].cursor
        moves == call[c].pc = "move" /\ at <= NumKeys
    IN  {o \in {Counter, BalanceOf(at)} : moves /\ Movement[call[c].doc][at] # 0}
          \cup {o \in {DocOf(call[c].doc)} : call[c].pc = "save"}
          \cup {o \in {IdemOf(call[c].idem)} : call[c].pc = "record"}

-----------------------------------------------------------------------------
(* withIdempotentPost and the work it wraps *)

(* The key is required. *)
KeyMissing(c) ==
    /\ call[c].pc = "lookup"
    /\ call[c].idem = NoKey
    /\ Abort(c)

(* Faulty lookups: the payload hash is not compared, or the stored result  *)
(* is not looked at and overwritten later.                                 *)
LookupByKeyOnly(c) ==
    /\ call[c].pc = "lookup"
    /\ call[c].idem # NoKey
    /\ GoTo(c, IF tx[c].view.idem[call[c].idem] = NoDoc THEN "load" ELSE "commit")
    /\ UNCHANGED <<store, tx, audit>>
LookupForgetful(c) ==
    /\ call[c].pc = "lookup"
    /\ call[c].idem # NoKey
    /\ GoTo(c, "load")
    /\ UNCHANGED <<store, tx, audit>>

(* A stored result under this key: replay it if it is for the same         *)
(* payload, refuse the key otherwise.                                      *)
Lookup(c) ==
    LET existing == tx[c].view.idem[call[c].idem] IN
    /\ call[c].pc = "lookup"
    /\ call[c].idem # NoKey
    /\ \/ /\ existing = NoDoc
          /\ GoTo(c, "load")
          /\ UNCHANGED <<store, tx, audit>>
       \/ /\ existing = call[c].doc
          /\ GoTo(c, "commit")
          /\ UNCHANGED <<store, tx, audit>>
       \/ /\ existing \notin {NoDoc, call[c].doc}
          /\ Abort(c)

(* Faulty load: the transition is not asserted. *)
LoadUnchecked(c) ==
    /\ call[c].pc = "load"
    /\ GoTo(c, "move")
    /\ UNCHANGED <<store, tx, audit>>

(* Load the document and assert the transition to its posted status. *)
Load(c) ==
    /\ call[c].pc = "load"
    /\ IF tx[c].view.status[call[c].doc] = "ready"
       THEN GoTo(c, "move") /\ UNCHANGED <<store, tx, audit>>
       ELSE Abort(c)

(* The filter of the conditional balance update: onHand >= -quantity.      *)
CoversBelowZero(view, k, q) == q > 0 \/ view.onHand[k] + 1 >= -q

Covers(view, k, q) == q > 0 \/ view.onHand[k] >= -q

(* The ledger row appended, with the counter and the balance it moves. *)
Book(view, row) ==
    [view EXCEPT !.seq = row.number,
                 !.rows = @ \cup {row},
                 !.onHand[row.key] = @ + row.quantity]

(* One round of the loop in postStockMovements: the next sequence number,  *)
(* the ledger row, then the conditional balance update.                    *)
PostMovement(c) ==
    LET at   == call[c].cursor
        q    == Movement[call[c].doc][at]
        view == tx[c].view
        row  == [doc |-> call[c].doc, key |-> at, quantity |-> q, number |-> view.seq + 1]
    IN
    /\ call[c].pc = "move"
    /\ at <= NumKeys
    /\ Writable(c, NextWrites(c))
    /\ \/ /\ q = 0
          /\ call' = [call EXCEPT ![c].cursor = at + 1]
          /\ UNCHANGED tx
       \/ /\ q # 0
          /\ Covers(view, at, q)
          /\ call' = [call EXCEPT ![c].cursor = at + 1]
          /\ Write(c, NextWrites(c), Book(view, row))
    /\ UNCHANGED <<store, audit>>

(* No balance row with enough on hand: "Insufficient available stock". *)
Insufficient(c) ==
    LET q == Movement[call[c].doc][call[c].cursor] IN
    /\ call[c].pc = "move"
    /\ call[c].cursor <= NumKeys
    /\ Writable(c, NextWrites(c))
    /\ q # 0
    /\ ~Covers(tx[c].view, call[c].cursor, q)
    /\ Abort(c)

(* Faulty end of the loop: the last key is left out. *)
MovementsDoneEarly(c) ==
    /\ call[c].pc = "move"
    /\ call[c].cursor >= NumKeys
    /\ GoTo(c, "save")
    /\ UNCHANGED <<store, tx, audit>>

(* Every movement is booked. *)
MovementsDone(c) ==
    /\ call[c].pc = "move"
    /\ call[c].cursor > NumKeys
    /\ GoTo(c, "save")
    /\ UNCHANGED <<store, tx, audit>>

(* doc.status = 'posted'; doc.save({ session }) *)
SaveDocument(c) ==
    /\ call[c].pc = "save"
    /\ Writable(c, NextWrites(c))
    /\ Write(c, NextWrites(c),
             [tx[c].view EXCEPT !.status[call[c].doc] = "posted"])
    /\ GoTo(c, "record")
    /\ UNCHANGED <<store, audit>>

(* The result row that a replay of this key will find. *)
RecordResult(c) ==
    /\ call[c].pc = "record"
    /\ Writable(c, NextWrites(c))
    /\ Write(c, NextWrites(c),
             [tx[c].view EXCEPT !.idem[call[c].idem] = call[c].doc])
    /\ GoTo(c, "commit")
    /\ UNCHANGED <<store, audit>>

-----------------------------------------------------------------------------
(* The end of an attempt *)

(* What the store holds once transaction t is committed. *)
Merge(t) ==
    [onHand |-> [k \in Keys |-> IF BalanceOf(k) \in t.written
                                THEN t.view.onHand[k] ELSE store.onHand[k]],
     seq    |-> IF Counter \in t.written THEN t.view.seq ELSE store.seq,
     status |-> [d \in Docs |-> IF DocOf(d) \in t.written
                                THEN t.view.status[d] ELSE store.status[d]],
     idem   |-> [i \in IdemKeys |-> IF IdemOf(i) \in t.written
                                    THEN t.view.idem[i] ELSE store.idem[i]],
     rows   |-> store.rows \cup t.view.rows]

(* Every other open transaction now holds a snapshot without these writes. *)
CommitWrites(c) ==
    /\ store' = Merge(tx[c])
    /\ tx' = [o \in Calls |->
                IF o = c THEN NoTx
                ELSE IF call[o].pc \in InTx
                     THEN [tx[o] EXCEPT !.missed = @ \cup tx[c].written]
                     ELSE tx[o]]

Commit(c) ==
    /\ call[c].pc = "commit"
    /\ CommitWrites(c)
    /\ GoTo(c, "audit")
    /\ UNCHANGED audit

(* UnknownTransactionCommitResult: the commit took effect, or it did not;  *)
(* the caller is told neither and runs the whole work again.               *)
CommitUnknown(c) ==
    /\ call[c].pc = "commit"
    /\ \/ /\ CommitWrites(c)
          /\ GoTo(c, IF call[c].attempt < MaxAttempts THEN "begin" ELSE "failed")
          /\ UNCHANGED audit
       \/ Retry(c) /\ UNCHANGED store

(* TransientTransactionError: a write conflict, or a failover or network   *)
(* error at any operation.                                                 *)
WriteConflict(c) ==
    /\ call[c].pc \in InTx
    /\ ~Writable(c, NextWrites(c))
    /\ Retry(c)
    /\ UNCHANGED store

TransientError(c) ==
    /\ call[c].pc \in InTx
    /\ Retry(c)
    /\ UNCHANGED store

(* recordAuditEvent runs after withTransaction returned, without session. *)
RecordAudit(c) ==
    /\ call[c].pc = "audit"
    /\ audit' = audit \cup {<<c, call[c].doc>>}
    /\ GoTo(c, "done")
    /\ UNCHANGED <<store, tx>>

(* The API process stops; an open transaction is aborted by the server. *)
Crash(c) ==
    /\ call[c].pc \in InTx \cup {"begin", "audit"}
    /\ Abort(c)

Step(c) ==
    \/ Begin(c)
    \/ KeyMissing(c)
    \/ Lookup(c)
    \/ Load(c)
    \/ PostMovement(c)
    \/ Insufficient(c)
    \/ MovementsDone(c)
    \/ SaveDocument(c)
    \/ RecordResult(c)
    \/ Commit(c)
    \/ WriteConflict(c)
    \/ RecordAudit(c)

Next ==
    \E c \in Calls :
        \/ \E d \in Docs, i \in IdemKeys \cup {NoKey} : Request(c, d, i)
        \/ Step(c)
        \/ CommitUnknown(c)
        \/ TransientError(c)
        \/ Crash(c)

Spec == Init /\ [][Next]_vars

(* A request that runs keeps running: Node resumes every awaited call. *)
FairSpec == Spec /\ \A c \in Calls : WF_vars(Step(c))

-----------------------------------------------------------------------------
(* Properties *)

Quantity == [r \in store.rows |-> r.quantity]

(* LedgerMatchesBalance: the sum of the signed ledger rows of a key is its *)
(* on-hand balance, whatever conflicts, retries and crashes happened.      *)
LedgerMatchesBalance ==
    \A k \in Keys :
        store.onHand[k] = Opening[k]
            + SumFunctionOnSet(Quantity, {r \in store.rows : r.key = k})

(* OneMovementPerDocument: retries, replays and two keys for the same      *)
(* document never book a document's movement twice.                        *)
OneMovementPerDocument ==
    \A r1, r2 \in store.rows : r1.doc = r2.doc /\ r1.key = r2.key => r1 = r2

Numbered(s) ==
    /\ {r.number : r \in s.rows} = 1..s.seq
    /\ \A r1, r2 \in s.rows : r1.number = r2.number => r1 = r2

(* NumbersAreGapless: counter and ledger commit or roll back together, so  *)
(* the transaction numbers in the ledger are 1..seq, each used once.       *)
NumbersAreGapless == Numbered(store)

(* AllOrNothing: a document is posted exactly when all its movements are   *)
(* in the ledger and exactly when some key holds its result; an attempt    *)
(* that failed at any operation leaves none of the three.                  *)
AllOrNothing ==
    \A d \in Docs :
        LET booked == {r.key : r \in {row \in store.rows : row.doc = d}}
            moved  == {k \in Keys : Movement[d][k] # 0}
        IN  IF store.status[d] = "posted"
            THEN booked = moved /\ \E i \in IdemKeys : store.idem[i] = d
            ELSE booked = {} /\ \A i \in IdemKeys : store.idem[i] # d

(* NonNegative: concurrent postings cannot together take more than a key   *)
(* has on hand (MI-10, ISS-03).                                            *)
NonNegative == \A k \in Keys : store.onHand[k] >= 0

(* SuccessIsPosted: a call that is answered with success, by its own work  *)
(* or by a replay, found or left its document posted under its own key.    *)
SuccessIsPosted ==
    \A c \in Calls :
        call[c].pc \in {"audit", "done"} =>
            /\ store.status[call[c].doc] = "posted"
            /\ store.idem[call[c].idem] = call[c].doc

(* PostedIsFinal: ledger rows and stored results are never changed or      *)
(* removed once committed, and a posted document stays posted.             *)
PostedIsFinal ==
    [][/\ store.rows \subseteq store'.rows
       /\ \A i \in IdemKeys : store.idem[i] # NoDoc => store'.idem[i] = store.idem[i]
       /\ \A d \in Docs : store.status[d] = "posted" => store'.status[d] = "posted"]_vars

(* AtomicallyPosted: the whole protocol is one atomic, at-most-once Post.  *)
Atomic == INSTANCE AtomicPosting
             WITH onHand <- store.onHand,
                  posted <- {d \in Docs : store.status[d] = "posted"}
AtomicallyPosted == Atomic!Spec

(* EveryCallEnds: the bounded retry loop always answers the client.        *)
EveryCallEnds == \A c \in Calls : call[c].pc = "begin" ~> call[c].pc \in Ended

(* AuditedWithPosting: "Append-only audit events written in the same       *)
(* transaction as critical state changes" (SYSTEM_DOCUMENTATION.md:37).    *)
AuditedWithPosting ==
    \A d \in Docs : store.status[d] = "posted" => \E c \in Calls : <<c, d>> \in audit
-----------------------------------------------------------------------------
(* The inductive invariant *)

Moved(d) == {k \in Keys : Movement[d][k] # 0}

(* What the movements of d on the keys below n have written. *)
Touched(d, n) ==
    LET below == {k \in Moved(d) : k < n}
    IN  {BalanceOf(k) : k \in below} \cup {o \in {Counter} : below # {}}

(* What an attempt has written by the time it is at each operation. *)
WrittenSoFar(c) ==
    LET t == tx[c]
        d == call[c].doc
        n == call[c].cursor
    IN /\ call[c].pc \notin InTx => t = NoTx
       /\ call[c].pc \in {"lookup", "load"} => n = 1 /\ t.written = {}
       /\ call[c].pc \in {"save", "record"} => n = NumKeys + 1
       /\ call[c].pc \in {"move", "save"} => t.written = Touched(d, n)
       /\ call[c].pc = "record" => t.written = Touched(d, n) \cup {DocOf(d)}
       /\ call[c].pc = "commit" =>
            \/ t.written = {} /\ t.view.idem[call[c].idem] = d
            \/ /\ n = NumKeys + 1
               /\ t.written = Touched(d, n) \cup {DocOf(d), IdemOf(call[c].idem)}

(* What c reads is what is committed, except for what c itself wrote and   *)
(* for what it can no longer write; and nothing final in it is taken back. *)
ViewIsCurrent(c) ==
    LET t == tx[c]
        other(o) == o \notin t.written \cup t.missed
    IN  /\ \A k \in Keys : other(BalanceOf(k)) => t.view.onHand[k] = store.onHand[k]
        /\ \A d \in Docs : other(DocOf(d)) => t.view.status[d] = store.status[d]
        /\ \A i \in IdemKeys : other(IdemOf(i)) => t.view.idem[i] = store.idem[i]
        /\ \A d \in Docs : DocOf(d) \notin t.written /\ t.view.status[d] = "posted"
                              => store.status[d] = "posted"
        /\ \A i \in IdemKeys : IdemOf(i) \notin t.written /\ t.view.idem[i] # NoDoc
                                  => store.idem[i] = t.view.idem[i]

(* What c has written so far is one application of its document. *)
WritesAreOnePosting(c) ==
    LET t == tx[c]
        d == call[c].doc
        own == {r \in t.view.rows : r.doc = d}
    IN  /\ \A k \in Keys : BalanceOf(k) \in t.written =>
              /\ t.view.onHand[k] = store.onHand[k] + Movement[d][k]
              /\ t.view.onHand[k] >= 0
        /\ call[c].pc \in {"move", "save"} => t.view.status[d] = "ready"
        /\ DocOf(d) \in t.written => t.view.status[d] = "posted" /\ store.status[d] = "ready"
        /\ call[c].pc \in {"load", "move", "save", "record"} => t.view.idem[call[c].idem] = NoDoc
        /\ IdemOf(call[c].idem) \in t.written =>
              t.view.idem[call[c].idem] = d /\ store.idem[call[c].idem] = NoDoc
        /\ \A r \in t.view.rows : r.doc # d => r \in store.rows
        /\ t.written # {} \/ call[c].pc \in {"move", "save", "record"} =>
              /\ {r.key : r \in own} = {k \in Moved(d) : k < call[c].cursor}
              /\ \A r1, r2 \in own : r1.key = r2.key => r1 = r2
        /\ t.written = {} /\ call[c].pc # "move" => own \subseteq store.rows

(* A document is unposted and without rows, or posted with its rows. *)
Consistent(s) ==
    /\ \A d \in Docs :
          {r.key : r \in {row \in s.rows : row.doc = d}}
             = IF s.status[d] = "posted" THEN Moved(d) ELSE {}
    /\ \A i \in IdemKeys : s.idem[i] # NoDoc => s.status[s.idem[i]] = "posted"
    /\ \A d \in Docs : s.status[d] = "posted" => \E i \in IdemKeys : s.idem[i] = d

CallInv(c) ==
    /\ call[c].pc \in InTx \cup {"begin", "audit", "done"} => call[c].doc \in Docs
    /\ call[c].pc \in (InTx \ {"lookup"}) \cup {"audit", "done"} => call[c].idem \in IdemKeys
    /\ WrittenSoFar(c)
    /\ call[c].pc \in InTx => ViewIsCurrent(c) /\ WritesAreOnePosting(c)
    /\ call[c].pc \in {"lookup", "load"} => Consistent(tx[c].view)
    /\ tx[c].written \cap tx[c].missed = {}

WritesAreExclusive ==
    \A c1, c2 \in Calls : c1 # c2 => tx[c1].written \cap tx[c2].written = {}

IInv ==
    /\ TypeOK
    /\ \A c \in Calls : CallInv(c)
    /\ WritesAreExclusive
    /\ Consistent(store)
    /\ OneMovementPerDocument
    /\ NonNegative
    /\ SuccessIsPosted

(* The ledger invariant: every row is its document's movement, ...         *)
RowsAreMovements(s) ==
    /\ IsFiniteSet(s.rows)
    /\ \A r \in s.rows : r.quantity = Movement[r.doc][r.key]

(* ... and a transaction that took a number extends the committed ledger,  *)
(* which no other transaction can extend until this one ends.              *)
LedgerIsCurrent(t) ==
    /\ Counter \notin t.written \cup t.missed =>
          t.view.rows = store.rows /\ t.view.seq = store.seq
    /\ Counter \in t.written => store.rows \subseteq t.view.rows

LedgerInv ==
    /\ \A c \in Calls : call[c].pc \in InTx =>
          /\ RowsAreMovements(tx[c].view)
          /\ Numbered(tx[c].view)
          /\ LedgerIsCurrent(tx[c])
    /\ RowsAreMovements(store)
    /\ NumbersAreGapless
    /\ LedgerMatchesBalance

=============================================================================
