------------------------ MODULE StockPosting_proofs ------------------------
(***************************************************************************)
(* Theorems about StockPosting for every number of calls, documents, keys  *)
(* and attempts.                                                           *)
(***************************************************************************)
EXTENDS StockPosting, Sums

LEMMA InitInv == Init => IInv
<1> SUFFICES ASSUME Init PROVE IInv
  OBVIOUS
<1> USE DEF Init, EmptyStore, NoTx
<1>1. TypeOK
  BY ConstantsAssumption DEF TypeOK, Stores, Transactions, CallStates, Keys
<1>2. ASSUME NEW c \in Calls
      PROVE  CallInv(c)
  BY DEF CallInv, WrittenSoFar, InTx
<1>3. Consistent(store)
  BY ConstantsAssumption DEF Consistent
<1>4. NonNegative
  BY ConstantsAssumption DEF NonNegative, Keys
<1>. QED
  BY <1>1, <1>2, <1>3, <1>4
  DEF IInv, WritesAreExclusive, OneMovementPerDocument, SuccessIsPosted, InTx

-----------------------------------------------------------------------------
(* Names of different documents differ. *)
LEMMA NamesDiffer ==
  /\ \A k1, k2 : BalanceOf(k1) = BalanceOf(k2) => k1 = k2
  /\ \A d1, d2 : DocOf(d1) = DocOf(d2) => d1 = d2
  /\ \A i1, i2 : IdemOf(i1) = IdemOf(i2) => i1 = i2
  /\ \A k, d : BalanceOf(k) # DocOf(d)
  /\ \A k, i : BalanceOf(k) # IdemOf(i)
  /\ \A d, i : DocOf(d) # IdemOf(i)
  /\ \A k : BalanceOf(k) # Counter
  /\ \A d : DocOf(d) # Counter
  /\ \A i : IdemOf(i) # Counter
BY DEF BalanceOf, DocOf, IdemOf, Counter

(* A call whose own state, transaction and committed documents stay the    *)
(* same keeps its part of the invariant.                                   *)
LEMMA Frame ==
  ASSUME NEW c \in Calls, CallInv(c),
         call'[c] = call[c], tx'[c] = tx[c], store' = store
  PROVE  CallInv(c)'
BY DEF CallInv, WrittenSoFar, ViewIsCurrent, WritesAreOnePosting, Consistent

(* The end of an attempt that is not committed: nothing written remains.   *)
LEMMA EndOfAttempt ==
  ASSUME IInv, NEW c \in Calls, NEW pc \in {"begin", "failed"},
         pc = "begin" => call[c].doc \in Docs,
         GoTo(c, pc), tx' = [tx EXCEPT ![c] = NoTx],
         store' = store, audit' = audit
  PROVE  IInv'
<1>0. /\ TypeOK
      /\ \A o \in Calls : CallInv(o)
      /\ WritesAreExclusive
      /\ Consistent(store) /\ OneMovementPerDocument /\ NonNegative /\ SuccessIsPosted
  BY DEF IInv
<1>1. /\ call' \in [Calls -> CallStates]
      /\ call'[c].pc = pc /\ call'[c].doc = call[c].doc
      /\ \A o \in Calls \ {c} : call'[o] = call[o] /\ tx'[o] = tx[o]
      /\ tx'[c] = NoTx
  BY <1>0 DEF GoTo, TypeOK, CallStates, Ended
<1>2. TypeOK'
  <2>1. NoTx \in Transactions
    BY ConstantsAssumption DEF NoTx, Transactions, EmptyStore, Stores, Keys
  <2>. QED
    BY <1>0, <1>1, <2>1 DEF TypeOK
<1>3. ASSUME NEW o \in Calls PROVE CallInv(o)'
  <2>1. CASE o = c
    <3>1. call'[c].pc \notin InTx
      BY <1>1 DEF InTx
    <3>2. tx'[c].written \cap tx'[c].missed = {}
      BY <1>1 DEF NoTx
    <3>3. WrittenSoFar(c)'
      BY <1>1, <3>1 DEF WrittenSoFar, InTx
    <3>. QED
      BY <1>1, <2>1, <3>1, <3>2, <3>3 DEF CallInv, InTx
  <2>2. CASE o # c
    BY <1>0, <1>1, <2>2, Frame
  <2>. QED
    BY <2>1, <2>2
<1>4. WritesAreExclusive'
  BY <1>0, <1>1 DEF WritesAreExclusive, NoTx
<1>5. SuccessIsPosted'
  BY <1>0, <1>1 DEF SuccessIsPosted
<1>. QED
  BY <1>0, <1>2, <1>3, <1>4, <1>5 DEF IInv, Consistent, OneMovementPerDocument, NonNegative

-----------------------------------------------------------------------------
(* A step that only moves call c: it is enough to look at c.               *)
LEMMA CallStep ==
  ASSUME IInv, NEW c \in Calls,
         call' \in [Calls -> CallStates],
         \A o \in Calls \ {c} : call'[o] = call[o],
         tx' = tx, store' = store, audit' \subseteq (Calls \X Docs),
         CallInv(c)',
         call'[c].pc \in {"audit", "done"} =>
            /\ store.status[call'[c].doc] = "posted"
            /\ store.idem[call'[c].idem] = call'[c].doc
  PROVE  IInv'
<1>0. /\ TypeOK
      /\ \A o \in Calls : CallInv(o)
      /\ WritesAreExclusive
      /\ Consistent(store) /\ OneMovementPerDocument /\ NonNegative /\ SuccessIsPosted
  BY DEF IInv
<1>1. TypeOK'
  BY <1>0 DEF TypeOK
<1>2. \A o \in Calls : CallInv(o)'
  BY <1>0, Frame
<1>3. SuccessIsPosted'
  BY <1>0 DEF SuccessIsPosted
<1>. QED
  BY <1>0, <1>1, <1>2, <1>3
  DEF IInv, WritesAreExclusive, Consistent, OneMovementPerDocument, NonNegative

LEMMA RequestInv ==
  ASSUME IInv, NEW c \in Calls, NEW d \in Docs, NEW i \in IdemKeys \cup {NoKey},
         Request(c, d, i)
  PROVE  IInv'
<1>1. TypeOK /\ CallInv(c)
  BY DEF IInv
<1>2. /\ call' \in [Calls -> CallStates]
      /\ call'[c].pc = "begin" /\ call'[c].doc = d
      /\ \A o \in Calls \ {c} : call'[o] = call[o]
  BY <1>1 DEF Request, TypeOK, CallStates
<1>3. CallInv(c)'
  BY <1>1, <1>2 DEF Request, CallInv, WrittenSoFar, InTx, NoTx
<1>. QED
  BY <1>1, <1>2, <1>3, CallStep DEF Request, TypeOK

LEMMA LookupInv ==
  ASSUME IInv, NEW c \in Calls, Lookup(c)
  PROVE  IInv'
<1> DEFINE existing == tx[c].view.idem[call[c].idem]
<1>1. TypeOK /\ CallInv(c)
  BY DEF IInv
<1>2. call[c].pc = "lookup" /\ call[c].idem \in IdemKeys
  BY <1>1 DEF Lookup, TypeOK, CallStates
<1>3. CASE existing = NoDoc /\ GoTo(c, "load") /\ UNCHANGED <<store, tx, audit>>
  <2>1. /\ call' \in [Calls -> CallStates]
        /\ call'[c] = [call[c] EXCEPT !.pc = "load"]
        /\ call'[c].pc = "load"
        /\ \A o \in Calls \ {c} : call'[o] = call[o]
    BY <1>1, <1>3 DEF GoTo, TypeOK, CallStates, InTx
  <2>2. CallInv(c)'
    BY <1>1, <1>2, <1>3, <2>1
    DEF CallInv, WrittenSoFar, InTx, ViewIsCurrent, WritesAreOnePosting, Consistent, CallStates, TypeOK
  <2>. QED
    BY <1>1, <1>3, <2>1, <2>2, CallStep DEF TypeOK
<1>4. CASE existing = call[c].doc /\ GoTo(c, "commit") /\ UNCHANGED <<store, tx, audit>>
  <2>1. /\ call' \in [Calls -> CallStates]
        /\ call'[c] = [call[c] EXCEPT !.pc = "commit"]
        /\ call'[c].pc = "commit"
        /\ \A o \in Calls \ {c} : call'[o] = call[o]
    BY <1>1, <1>4 DEF GoTo, TypeOK, CallStates, InTx
  <2>2. CallInv(c)'
    BY <1>1, <1>2, <1>4, <2>1
    DEF CallInv, WrittenSoFar, InTx, ViewIsCurrent, WritesAreOnePosting, CallStates, TypeOK
  <2>. QED
    BY <1>1, <1>4, <2>1, <2>2, CallStep DEF TypeOK
<1>5. CASE Abort(c)
  BY <1>5, EndOfAttempt DEF Abort
<1>. QED
  BY <1>3, <1>4, <1>5 DEF Lookup

(* Below the first key nothing is touched. *)
LEMMA TouchedNone == ASSUME NEW d PROVE Touched(d, 1) = {}
BY DEF Touched, Moved, Keys

LEMMA LoadInv ==
  ASSUME IInv, NEW c \in Calls, Load(c)
  PROVE  IInv'
<1>1. TypeOK /\ CallInv(c)
  BY DEF IInv
<1>2. CASE Abort(c)
  BY <1>2, EndOfAttempt DEF Abort
<1>3. CASE GoTo(c, "move") /\ UNCHANGED <<store, tx, audit>> /\ ~Abort(c)
  <2>1. /\ call' \in [Calls -> CallStates]
        /\ call'[c] = [call[c] EXCEPT !.pc = "move"]
        /\ call'[c].pc = "move" /\ call'[c].cursor = call[c].cursor
        /\ call'[c].doc = call[c].doc /\ call'[c].idem = call[c].idem
        /\ \A o \in Calls \ {c} : call'[o] = call[o]
    BY <1>1, <1>3 DEF GoTo, TypeOK, CallStates, InTx
  <2>2. /\ call[c].pc = "load" /\ call[c].cursor = 1 /\ tx[c].written = {}
        /\ call[c].doc \in Docs /\ call[c].idem \in IdemKeys
        /\ tx[c].view.status[call[c].doc] = "ready"
        /\ ViewIsCurrent(c) /\ Consistent(tx[c].view)
    BY <1>1, <1>3 DEF CallInv, Load, WrittenSoFar, InTx
  <2>3. {r \in tx[c].view.rows : r.doc = call[c].doc} = {}
    BY <2>2 DEF Consistent
  <2>4. WrittenSoFar(c)'
    BY <1>3, <2>1, <2>2, TouchedNone DEF WrittenSoFar, InTx
  <2>5. ViewIsCurrent(c)'
    BY <1>3, <2>2 DEF ViewIsCurrent
  <2>6. WritesAreOnePosting(c)'
    <3>1. {k \in Moved(call[c].doc) : k < call[c].cursor} = {}
      BY <2>2 DEF Moved, Keys
    <3>2. /\ \A r \in tx[c].view.rows : r.doc # call[c].doc => r \in store.rows
          /\ tx[c].view.idem[call[c].idem] = NoDoc
      BY <1>1, <2>2 DEF CallInv, WritesAreOnePosting, InTx
    <3>. QED
      BY <1>3, <2>1, <2>2, <2>3, <3>1, <3>2 DEF WritesAreOnePosting
  <2>7. CallInv(c)'
    BY <1>1, <1>3, <2>1, <2>2, <2>4, <2>5, <2>6 DEF CallInv, InTx
  <2>. QED
    BY <1>1, <1>3, <2>1, <2>7, CallStep DEF TypeOK
<1>. QED
  BY <1>2, <1>3 DEF Load

LEMMA MovementsDoneInv ==
  ASSUME IInv, NEW c \in Calls, MovementsDone(c)
  PROVE  IInv'
<1>1. TypeOK /\ CallInv(c)
  BY DEF IInv
<1>2. /\ call' \in [Calls -> CallStates]
      /\ call'[c].pc = "save" /\ call'[c].cursor = call[c].cursor
      /\ call'[c].doc = call[c].doc /\ call'[c].idem = call[c].idem
      /\ \A o \in Calls \ {c} : call'[o] = call[o]
      /\ call[c].pc = "move" /\ call[c].cursor = NumKeys + 1
  BY <1>1, ConstantsAssumption DEF MovementsDone, GoTo, TypeOK, CallStates, InTx
<1>3. WrittenSoFar(c)' /\ ViewIsCurrent(c)'
  BY <1>1, <1>2 DEF MovementsDone, CallInv, WrittenSoFar, ViewIsCurrent, InTx
<1>4. WritesAreOnePosting(c)'
  <2>1. PICK k \in Moved(call[c].doc) : TRUE
    BY <1>1, <1>2, EveryDocMoves DEF CallInv, InTx, Moved
  <2>2. tx[c].written # {}
    <3>1. k < NumKeys + 1
      BY <2>1, ConstantsAssumption DEF Moved, Keys
    <3>2. BalanceOf(k) \in Touched(call[c].doc, NumKeys + 1)
      BY <2>1, <3>1 DEF Touched
    <3>. QED
      BY <1>1, <1>2, <3>2 DEF CallInv, WrittenSoFar, InTx
  <2>3. WritesAreOnePosting(c)
    BY <1>1, <1>2 DEF CallInv, InTx
  <2>. QED
    BY <1>2, <2>2, <2>3 DEF MovementsDone, WritesAreOnePosting
<1>5. CallInv(c)'
  BY <1>1, <1>2, <1>3, <1>4 DEF MovementsDone, CallInv, InTx
<1>. QED
  BY <1>1, <1>2, <1>5, CallStep DEF MovementsDone, TypeOK

LEMMA RecordAuditInv ==
  ASSUME IInv, NEW c \in Calls, RecordAudit(c)
  PROVE  IInv'
<1>1. TypeOK /\ CallInv(c) /\ SuccessIsPosted
  BY DEF IInv
<1>2. /\ call' \in [Calls -> CallStates]
      /\ call'[c].pc = "done" /\ call[c].pc = "audit"
      /\ call'[c].doc = call[c].doc /\ call'[c].idem = call[c].idem
      /\ \A o \in Calls \ {c} : call'[o] = call[o]
  BY <1>1 DEF RecordAudit, GoTo, TypeOK, CallStates, Ended
<1>3. CallInv(c)'
  BY <1>1, <1>2 DEF RecordAudit, CallInv, WrittenSoFar, InTx, NoTx
<1>4. call[c].doc \in Docs
  BY <1>1, <1>2 DEF CallInv
<1>. QED
  BY <1>1, <1>2, <1>3, <1>4, CallStep DEF RecordAudit, TypeOK, SuccessIsPosted

LEMMA BeginInv ==
  ASSUME IInv, NEW c \in Calls, Begin(c)
  PROVE  IInv'
<1>0. /\ TypeOK
      /\ \A o \in Calls : CallInv(o)
      /\ WritesAreExclusive
      /\ Consistent(store) /\ OneMovementPerDocument /\ NonNegative /\ SuccessIsPosted
  BY DEF IInv
<1>1. /\ call' \in [Calls -> CallStates]
      /\ call'[c].pc = "lookup" /\ call'[c].cursor = 1
      /\ call'[c].doc = call[c].doc /\ call'[c].doc \in Docs
      /\ \A o \in Calls \ {c} : call'[o] = call[o] /\ tx'[o] = tx[o]
      /\ tx'[c] = [view |-> store, written |-> {}, missed |-> {}]
      /\ store' = store /\ audit' = audit
  BY <1>0, ConstantsAssumption DEF Begin, TypeOK, CallStates, CallInv, InTx
<1>2. TypeOK'
  BY <1>0, <1>1 DEF Begin, TypeOK, Transactions
<1>3. ASSUME NEW o \in Calls PROVE CallInv(o)'
  <2>1. CASE o = c
    <3>1. WrittenSoFar(c)'
      BY <1>1 DEF WrittenSoFar, InTx
    <3>2. ViewIsCurrent(c)'
      BY <1>1 DEF ViewIsCurrent
    <3>3. WritesAreOnePosting(c)'
      BY <1>1 DEF WritesAreOnePosting
    <3>4. Consistent(tx[c].view)'
      BY <1>0, <1>1 DEF Consistent
    <3>. QED
      BY <1>1, <2>1, <3>1, <3>2, <3>3, <3>4 DEF CallInv, InTx
  <2>2. CASE o # c
    BY <1>0, <1>1, <2>2, Frame
  <2>. QED
    BY <2>1, <2>2
<1>4. WritesAreExclusive'
  BY <1>0, <1>1 DEF WritesAreExclusive
<1>5. SuccessIsPosted'
  BY <1>0, <1>1 DEF SuccessIsPosted
<1>. QED
  BY <1>0, <1>1, <1>2, <1>3, <1>4, <1>5
  DEF IInv, Consistent, OneMovementPerDocument, NonNegative

-----------------------------------------------------------------------------
(* A write inside c's transaction: the committed documents stay, and the   *)
(* other transactions have not written what c now writes.                  *)
LEMMA WriteStep ==
  ASSUME IInv, NEW c \in Calls, NEW objects \in SUBSET Objects, NEW view \in Stores,
         Writable(c, objects), Write(c, objects, view),
         call' \in [Calls -> CallStates], call'[c].pc \in InTx,
         \A o \in Calls \ {c} : call'[o] = call[o],
         store' = store, audit' = audit,
         CallInv(c)'
  PROVE  IInv'
<1>0. /\ TypeOK
      /\ \A o \in Calls : CallInv(o)
      /\ WritesAreExclusive
      /\ Consistent(store) /\ OneMovementPerDocument /\ NonNegative /\ SuccessIsPosted
  BY DEF IInv
<1>1. /\ tx'[c].written = tx[c].written \cup objects
      /\ tx'[c] \in Transactions
      /\ tx' \in [Calls -> Transactions]
      /\ \A o \in Calls \ {c} : tx'[o] = tx[o]
  BY <1>0 DEF Write, TypeOK, Transactions
<1>2. TypeOK'
  BY <1>0, <1>1 DEF TypeOK
<1>3. ASSUME NEW o \in Calls PROVE CallInv(o)'
  BY <1>0, <1>1, Frame
<1>4. WritesAreExclusive'
  BY <1>0, <1>1 DEF WritesAreExclusive, Writable
<1>5. SuccessIsPosted'
  BY <1>0 DEF SuccessIsPosted, InTx
<1>. QED
  BY <1>0, <1>2, <1>3, <1>4, <1>5
  DEF IInv, Consistent, OneMovementPerDocument, NonNegative

LEMMA SaveDocumentInv ==
  ASSUME IInv, NEW c \in Calls, SaveDocument(c)
  PROVE  IInv'
<1> DEFINE d == call[c].doc
           view == [tx[c].view EXCEPT !.status[d] = "posted"]
<1>1. TypeOK /\ CallInv(c) /\ call[c].pc = "save"
  BY DEF IInv, SaveDocument
<1>2. /\ d \in Docs /\ call[c].idem \in IdemKeys
      /\ WrittenSoFar(c) /\ ViewIsCurrent(c) /\ WritesAreOnePosting(c)
      /\ tx[c].written \cap tx[c].missed = {}
  BY <1>1 DEF CallInv, InTx
<1>3. NextWrites(c) = {DocOf(d)}
  BY <1>1 DEF NextWrites
<1>4. /\ tx[c] \in Transactions
      /\ view \in Stores
      /\ view.status[d] = "posted"
      /\ \A e \in Docs \ {d} : view.status[e] = tx[c].view.status[e]
      /\ view.onHand = tx[c].view.onHand /\ view.idem = tx[c].view.idem
      /\ view.rows = tx[c].view.rows
  BY <1>1, <1>2 DEF TypeOK, Transactions, Stores
<1>5. /\ call' \in [Calls -> CallStates]
      /\ call'[c].pc = "record" /\ call'[c].cursor = call[c].cursor
      /\ call'[c].doc = d /\ call'[c].idem = call[c].idem
      /\ \A o \in Calls \ {c} : call'[o] = call[o]
      /\ store' = store /\ audit' = audit
  BY <1>1 DEF SaveDocument, GoTo, TypeOK, CallStates, InTx
<1>6. /\ Writable(c, {DocOf(d)}) /\ Write(c, {DocOf(d)}, view)
      /\ tx'[c].view = view /\ tx'[c].written = tx[c].written \cup {DocOf(d)}
      /\ tx'[c].missed = tx[c].missed
  BY <1>1, <1>3 DEF SaveDocument, Write, TypeOK, Transactions
<1>7. DocOf(d) \notin tx[c].written /\ DocOf(d) \notin tx[c].missed
  BY <1>1, <1>2, <1>6, NamesDiffer DEF WrittenSoFar, Touched, Writable
<1>8. store.status[d] = "ready"
  BY <1>1, <1>2, <1>7 DEF ViewIsCurrent, WritesAreOnePosting
<1>9. WrittenSoFar(c)'
  BY <1>1, <1>2, <1>5, <1>6 DEF WrittenSoFar, InTx
<1>10. ViewIsCurrent(c)'
  BY <1>2, <1>4, <1>5, <1>6, NamesDiffer DEF ViewIsCurrent
<1>11. WritesAreOnePosting(c)'
  BY <1>1, <1>2, <1>4, <1>5, <1>6, <1>8, NamesDiffer DEF WritesAreOnePosting
<1>12. CallInv(c)'
  BY <1>2, <1>5, <1>6, <1>7, <1>9, <1>10, <1>11 DEF CallInv, InTx
<1>. QED
  BY <1>2, <1>4, <1>5, <1>6, <1>12, WriteStep DEF Objects, InTx

LEMMA RecordResultInv ==
  ASSUME IInv, NEW c \in Calls, RecordResult(c)
  PROVE  IInv'
<1> DEFINE d == call[c].doc
           i == call[c].idem
           view == [tx[c].view EXCEPT !.idem[i] = d]
<1>1. TypeOK /\ CallInv(c) /\ call[c].pc = "record"
  BY DEF IInv, RecordResult
<1>2. /\ d \in Docs /\ i \in IdemKeys
      /\ WrittenSoFar(c) /\ ViewIsCurrent(c) /\ WritesAreOnePosting(c)
      /\ tx[c].written \cap tx[c].missed = {}
  BY <1>1 DEF CallInv, InTx
<1>3. NextWrites(c) = {IdemOf(i)}
  BY <1>1 DEF NextWrites
<1>4. /\ tx[c] \in Transactions
      /\ view \in Stores
      /\ view.idem[i] = d
      /\ \A j \in IdemKeys \ {i} : view.idem[j] = tx[c].view.idem[j]
      /\ view.onHand = tx[c].view.onHand /\ view.status = tx[c].view.status
      /\ view.rows = tx[c].view.rows
  BY <1>1, <1>2 DEF TypeOK, Transactions, Stores
<1>5. /\ call' \in [Calls -> CallStates]
      /\ call'[c].pc = "commit" /\ call'[c].cursor = call[c].cursor
      /\ call'[c].doc = d /\ call'[c].idem = i
      /\ \A o \in Calls \ {c} : call'[o] = call[o]
      /\ store' = store /\ audit' = audit
  BY <1>1 DEF RecordResult, GoTo, TypeOK, CallStates, InTx
<1>6. /\ Writable(c, {IdemOf(i)}) /\ Write(c, {IdemOf(i)}, view)
      /\ tx'[c].view = view /\ tx'[c].written = tx[c].written \cup {IdemOf(i)}
      /\ tx'[c].missed = tx[c].missed
  BY <1>1, <1>3 DEF RecordResult, Write, TypeOK, Transactions
<1>7. IdemOf(i) \notin tx[c].missed /\ store.idem[i] = NoDoc
  <2>1. IdemOf(i) \notin tx[c].missed
    BY <1>6 DEF Writable
  <2>2. IdemOf(i) \notin tx[c].written
    BY <1>1, <1>2, NamesDiffer DEF WrittenSoFar, Touched
  <2>3. tx[c].view.idem[i] = NoDoc
    BY <1>1, <1>2 DEF WritesAreOnePosting
  <2>. QED
    BY <1>2, <2>1, <2>2, <2>3 DEF ViewIsCurrent
<1>8. WrittenSoFar(c)'
  BY <1>1, <1>2, <1>5, <1>6 DEF WrittenSoFar, InTx
<1>9. ViewIsCurrent(c)'
  BY <1>2, <1>4, <1>5, <1>6, NamesDiffer DEF ViewIsCurrent
<1>10. WritesAreOnePosting(c)'
  BY <1>1, <1>2, <1>4, <1>5, <1>6, <1>7, NamesDiffer DEF WritesAreOnePosting
<1>11. CallInv(c)'
  BY <1>2, <1>5, <1>6, <1>7, <1>8, <1>9, <1>10 DEF CallInv, InTx
<1>. QED
  BY <1>2, <1>4, <1>5, <1>6, <1>11, WriteStep DEF Objects, InTx

-----------------------------------------------------------------------------
(* One more key touched: its balance and the counter, if it moves. *)
LEMMA TouchedNext ==
  ASSUME NEW d \in Docs, NEW n \in Keys
  PROVE  Touched(d, n + 1) =
           Touched(d, n) \cup (IF n \in Moved(d) THEN {Counter, BalanceOf(n)} ELSE {})
<1>1. {k \in Moved(d) : k < n + 1} =
        {k \in Moved(d) : k < n} \cup (IF n \in Moved(d) THEN {n} ELSE {})
  BY DEF Moved, Keys
<1>2. CASE n \in Moved(d)
  BY <1>1, <1>2 DEF Touched
<1>3. CASE n \notin Moved(d)
  BY <1>1, <1>3 DEF Touched
<1>. QED
  BY <1>2, <1>3

(* The documents after one ledger row and its balance update. *)
LEMMA Booked ==
  ASSUME NEW view \in Stores, NEW row \in Row
  PROVE  /\ Book(view, row) \in Stores
         /\ Book(view, row).onHand[row.key] = view.onHand[row.key] + row.quantity
         /\ \A k \in Keys \ {row.key} : Book(view, row).onHand[k] = view.onHand[k]
         /\ Book(view, row).status = view.status /\ Book(view, row).idem = view.idem
         /\ Book(view, row).rows = view.rows \cup {row}
<1> DEFINE onHand == [view.onHand EXCEPT ![row.key] = @ + row.quantity]
           seq == row.number
           rows == view.rows \cup {row}
           next == [view EXCEPT !.seq = seq, !.rows = rows, !.onHand = onHand]
<1>1. /\ view.onHand \in [Keys -> Int] /\ view.rows \in SUBSET Row
      /\ row.key \in Keys /\ row.quantity \in Int /\ row.number \in Nat
  BY DEF Stores, Row
<1>2. /\ onHand \in [Keys -> Int]
      /\ onHand[row.key] = view.onHand[row.key] + row.quantity
      /\ \A k \in Keys \ {row.key} : onHand[k] = view.onHand[k]
  BY <1>1
<1>3. seq \in Nat /\ rows \in SUBSET Row
  BY <1>1
<1>4. /\ next \in Stores /\ next.onHand = onHand /\ next.rows = rows
      /\ next.status = view.status /\ next.idem = view.idem
  <2>. HIDE DEF onHand, seq, rows
  <2>. QED
    BY <1>2, <1>3 DEF Stores
<1>5. Book(view, row) = next
  BY DEF Book
<1>. QED
  BY <1>2, <1>4, <1>5

LEMMA PostMovementInv ==
  ASSUME IInv, NEW c \in Calls, PostMovement(c)
  PROVE  IInv'
<1> DEFINE d == call[c].doc
           at == call[c].cursor
           q == Movement[d][at]
           view == tx[c].view
           row == [doc |-> d, key |-> at, quantity |-> q, number |-> view.seq + 1]
           next == Book(view, row)
<1>1. /\ TypeOK /\ CallInv(c) /\ NonNegative
      /\ call[c].pc = "move" /\ at <= NumKeys
      /\ store' = store /\ audit' = audit
  BY DEF IInv, PostMovement
<1>2. /\ d \in Docs /\ call[c].idem \in IdemKeys
      /\ WrittenSoFar(c) /\ ViewIsCurrent(c) /\ WritesAreOnePosting(c)
      /\ tx[c].written \cap tx[c].missed = {}
      /\ tx[c].written = Touched(d, at)
  BY <1>1 DEF CallInv, InTx, WrittenSoFar
<1>3. at \in Keys /\ q \in Int
  BY <1>1, <1>2, ConstantsAssumption DEF TypeOK, CallStates, Keys
<1>4. /\ call' \in [Calls -> CallStates]
      /\ call'[c].pc = "move" /\ call'[c].cursor = at + 1
      /\ call'[c].doc = d /\ call'[c].idem = call[c].idem
      /\ \A o \in Calls \ {c} : call'[o] = call[o]
  <2>1. call' = [call EXCEPT ![c].cursor = at + 1]
    BY DEF PostMovement
  <2>2. at + 1 \in 1..(NumKeys + 1)
    BY <1>1, <1>3, ConstantsAssumption DEF Keys
  <2>. QED
    BY <1>1, <2>1, <2>2 DEF TypeOK, CallStates
<1>5. CASE q = 0 /\ tx' = tx
  <2>1. at \notin Moved(d)
    BY <1>5 DEF Moved
  <2>2. WrittenSoFar(c)'
    BY <1>1, <1>2, <1>3, <1>4, <1>5, <2>1, TouchedNext DEF WrittenSoFar, InTx
  <2>3. ViewIsCurrent(c)'
    BY <1>1, <1>2, <1>5 DEF ViewIsCurrent
  <2>4. {k \in Moved(d) : k < at + 1} = {k \in Moved(d) : k < at}
    BY <1>3, <2>1 DEF Moved, Keys
  <2>5. WritesAreOnePosting(c)'
    BY <1>1, <1>2, <1>4, <1>5, <2>4 DEF WritesAreOnePosting
  <2>6. CallInv(c)'
    BY <1>2, <1>4, <1>5, <2>2, <2>3, <2>5 DEF CallInv, InTx
  <2>. QED
    BY <1>1, <1>4, <1>5, <2>6, CallStep DEF TypeOK
<1>6. CASE q # 0 /\ (q > 0 \/ view.onHand[at] >= -q) /\ Write(c, NextWrites(c), next)
  <2> DEFINE objects == {Counter, BalanceOf(at)}
  <2>1. at \in Moved(d)
    BY <1>3, <1>6 DEF Moved
  <2>2. NextWrites(c) = objects
    BY <1>1, <1>6 DEF NextWrites
  <2>3. Writable(c, objects) /\ Write(c, objects, next)
    BY <1>6, <2>2 DEF PostMovement
  <2>4. /\ tx[c] \in Transactions /\ view \in Stores /\ row \in Row
        /\ row.doc = d /\ row.key = at
        /\ view.onHand \in [Keys -> Int]
    BY <1>1, <1>2, <1>3 DEF TypeOK, Transactions, Stores, Row
  <2>5. /\ next \in Stores
        /\ next.onHand[at] = view.onHand[at] + q
        /\ \A k \in Keys \ {at} : next.onHand[k] = view.onHand[k]
        /\ next.status = view.status /\ next.idem = view.idem
        /\ next.rows = view.rows \cup {row}
    <3>1. row.key = at /\ row.quantity = q
      OBVIOUS
    <3>. HIDE DEF q, view, row, at, d
    <3>. QED
      BY <2>4, <3>1, Booked
  <2>. HIDE DEF next, row
  <2>6. /\ tx'[c].view = next /\ tx'[c].written = tx[c].written \cup objects
        /\ tx'[c].missed = tx[c].missed
    BY <1>1, <2>3 DEF Write, TypeOK, Transactions
  <2>7. /\ BalanceOf(at) \notin tx[c].written
        /\ objects \cap tx[c].missed = {}
    BY <1>2, <1>3, <2>3, NamesDiffer DEF Touched, Writable, Moved, Keys
  <2>8. view.onHand[at] = store.onHand[at]
    BY <1>2, <1>3, <2>7 DEF ViewIsCurrent
  <2>9. next.onHand[at] >= 0
    <3>1. store.onHand[at] \in Int /\ store.onHand[at] >= 0
      BY <1>1, <1>3 DEF NonNegative, Stores, TypeOK
    <3>2. view.onHand[at] + q = next.onHand[at]
      BY <2>5
    <3>. HIDE DEF q
    <3>. QED
      BY <1>3, <1>6, <2>8, <3>1, <3>2
  <2>10. tx'[c].written = Touched(d, at + 1)
    BY <1>2, <1>3, <2>1, <2>6, TouchedNext
  <2>11. WrittenSoFar(c)'
    BY <1>4, <2>10 DEF WrittenSoFar, InTx
  <2>12. ViewIsCurrent(c)'
    <3>1. ViewIsCurrent(c) /\ store' = store
      BY <1>1, <1>2
    <3>2. /\ \A e : DocOf(e) \in tx'[c].written <=> DocOf(e) \in tx[c].written
          /\ \A i : IdemOf(i) \in tx'[c].written <=> IdemOf(i) \in tx[c].written
          /\ \A k : BalanceOf(k) \in tx'[c].written
                        <=> k = at \/ BalanceOf(k) \in tx[c].written
      BY <2>6, NamesDiffer
    <3>3. /\ tx'[c].view.status = tx[c].view.status /\ tx'[c].view.idem = tx[c].view.idem
          /\ \A k \in Keys \ {at} : tx'[c].view.onHand[k] = tx[c].view.onHand[k]
      BY <2>5, <2>6
    <3>. QED
      BY <2>6, <3>1, <3>2, <3>3 DEF ViewIsCurrent
  <2>13. WritesAreOnePosting(c)'
    <3>1. \A k \in Keys : BalanceOf(k) \in tx'[c].written =>
              /\ next.onHand[k] = store.onHand[k] + Movement[d][k]
              /\ next.onHand[k] >= 0
      BY <1>2, <2>5, <2>6, <2>8, <2>9, NamesDiffer DEF WritesAreOnePosting
    <3>2. /\ DocOf(d) \notin tx'[c].written
          /\ IdemOf(call[c].idem) \notin tx'[c].written
      BY <1>2, <2>6, NamesDiffer DEF Touched
    <3>3. {k \in Moved(d) : k < at + 1} = {k \in Moved(d) : k < at} \cup {at}
      BY <1>3, <2>1 DEF Moved, Keys
    <3>4. {r \in next.rows : r.doc = d} = {r \in view.rows : r.doc = d} \cup {row}
      BY <2>4, <2>5
    <3>5. {r.key : r \in {r \in next.rows : r.doc = d}} = {k \in Moved(d) : k < at + 1}
      <4>1. {r.key : r \in {r \in view.rows : r.doc = d}} = {k \in Moved(d) : k < at}
        BY <1>1, <1>2 DEF WritesAreOnePosting
      <4>. QED
        BY <2>4, <3>3, <3>4, <4>1
    <3>6. \A r \in view.rows : r.doc = d => r.key # at
      <4>1. {r.key : r \in {r \in view.rows : r.doc = d}} = {k \in Moved(d) : k < at}
        BY <1>1, <1>2 DEF WritesAreOnePosting
      <4>2. ~(at < at)
        BY <1>3 DEF Keys
      <4>. HIDE DEF view, d, at
      <4>. QED
        BY <4>1, <4>2
    <3>7. \A r1, r2 \in {r \in next.rows : r.doc = d} : r1.key = r2.key => r1 = r2
      <4>1. \A r1, r2 \in {r \in view.rows : r.doc = d} : r1.key = r2.key => r1 = r2
        BY <1>1, <1>2 DEF WritesAreOnePosting
      <4>2. \A r \in {r \in view.rows : r.doc = d} : r.key # row.key
        BY <2>4, <3>6
      <4>. QED
        BY <3>4, <4>1, <4>2
    <3>8. /\ next.status[d] = "ready" /\ next.idem[call[c].idem] = NoDoc
          /\ \A r \in next.rows : r.doc # d => r \in store.rows
      BY <1>1, <1>2, <2>4, <2>5 DEF WritesAreOnePosting
    <3>. QED
      BY <1>1, <1>4, <2>6, <3>1, <3>2, <3>5, <3>7, <3>8 DEF WritesAreOnePosting
  <2>14. CallInv(c)'
    BY <1>2, <1>4, <2>6, <2>7, <2>11, <2>12, <2>13 DEF CallInv, InTx
  <2>. QED
    BY <1>1, <1>3, <1>4, <2>3, <2>5, <2>14, WriteStep DEF Objects, InTx
<1>. QED
  BY <1>5, <1>6 DEF PostMovement, Covers

-----------------------------------------------------------------------------
(* Another call's commit: the documents it wrote are not among those that  *)
(* o has written, and o now knows that its snapshot misses them.           *)
LEMMA OtherCommits ==
  ASSUME NEW o \in Calls, CallInv(o), NEW W,
         call'[o] = call[o],
         call[o].pc \notin InTx => tx'[o] = tx[o],
         tx'[o].view = tx[o].view, tx'[o].written = tx[o].written,
         call[o].pc \in InTx => tx'[o].missed = tx[o].missed \cup W,
         tx[o].written \cap W = {},
         \A k \in Keys : BalanceOf(k) \notin W => store'.onHand[k] = store.onHand[k],
         \A d \in Docs : DocOf(d) \notin W => store'.status[d] = store.status[d],
         \A i \in IdemKeys : IdemOf(i) \notin W => store'.idem[i] = store.idem[i],
         \A d \in Docs : store.status[d] = "posted" => store'.status[d] = "posted",
         \A i \in IdemKeys : store.idem[i] # NoDoc => store'.idem[i] = store.idem[i],
         store.rows \subseteq store'.rows
  PROVE  CallInv(o)'
<1>1. WrittenSoFar(o)'
  BY DEF CallInv, WrittenSoFar
<1>2. ASSUME call[o].pc \in InTx PROVE ViewIsCurrent(o)'
  BY <1>2 DEF CallInv, ViewIsCurrent
<1>3. ASSUME call[o].pc \in InTx PROVE WritesAreOnePosting(o)'
  <2>1. /\ WritesAreOnePosting(o) /\ call[o].doc \in Docs
        /\ tx[o].written # {} => call[o].idem \in IdemKeys
    BY <1>3 DEF CallInv, WrittenSoFar, InTx
  <2>. QED
    BY <2>1 DEF WritesAreOnePosting
<1>4. call[o].pc \in {"lookup", "load"} => Consistent(tx[o].view)'
  BY DEF CallInv, Consistent
<1>5. tx'[o].written \cap tx'[o].missed = {}
  BY DEF CallInv
<1>. QED
  BY <1>1, <1>2, <1>3, <1>4, <1>5 DEF CallInv

LEMMA NoTxTyped == NoTx \in Transactions
BY ConstantsAssumption DEF NoTx, Transactions, EmptyStore, Stores, Keys

(* The next state of a commit that writes W, where the documents change as *)
(* one posting of one document does.                                       *)
LEMMA CommitStep ==
  ASSUME IInv, NEW c \in Calls, NEW pc \in {"audit", "begin", "failed"},
         call[c].pc = "commit", CommitWrites(c), GoTo(c, pc), audit' = audit,
         store' \in Stores,
         \A k \in Keys : BalanceOf(k) \notin tx[c].written => store'.onHand[k] = store.onHand[k],
         \A d \in Docs : DocOf(d) \notin tx[c].written => store'.status[d] = store.status[d],
         \A i \in IdemKeys : IdemOf(i) \notin tx[c].written => store'.idem[i] = store.idem[i],
         \A d \in Docs : store.status[d] = "posted" => store'.status[d] = "posted",
         \A i \in IdemKeys : store.idem[i] # NoDoc => store'.idem[i] = store.idem[i],
         store.rows \subseteq store'.rows,
         Consistent(store)', OneMovementPerDocument', NonNegative',
         store'.status[call[c].doc] = "posted",
         store'.idem[call[c].idem] = call[c].doc
  PROVE  IInv'
<1>0. /\ TypeOK
      /\ \A o \in Calls : CallInv(o)
      /\ WritesAreExclusive /\ SuccessIsPosted
  BY DEF IInv
<1>1. /\ call' \in [Calls -> CallStates]
      /\ call'[c].pc = pc /\ call'[c].doc = call[c].doc /\ call'[c].idem = call[c].idem
      /\ \A o \in Calls \ {c} : call'[o] = call[o]
      /\ call[c].doc \in Docs /\ call[c].idem \in IdemKeys
  BY <1>0 DEF GoTo, TypeOK, CallStates, Ended, CallInv, InTx
<1>2. /\ tx'[c] = NoTx
      /\ \A o \in Calls \ {c} :
            /\ tx'[o].view = tx[o].view /\ tx'[o].written = tx[o].written
            /\ call[o].pc \in InTx => tx'[o].missed = tx[o].missed \cup tx[c].written
            /\ call[o].pc \notin InTx => tx'[o] = tx[o]
            /\ tx'[o] \in Transactions
  <2>1. tx \in [Calls -> Transactions]
    BY <1>0 DEF TypeOK
  <2>. QED
    BY <2>1 DEF CommitWrites, Transactions
<1>3. TypeOK'
  <2>1. tx' \in [Calls -> Transactions]
    BY <1>2, NoTxTyped DEF CommitWrites
  <2>. QED
    BY <1>0, <1>1, <2>1 DEF TypeOK
<1>4. ASSUME NEW o \in Calls PROVE CallInv(o)'
  <2>1. CASE o = c
    <3>1. call'[c].pc \notin InTx /\ NoTx.written \cap NoTx.missed = {}
      BY <1>1 DEF InTx, NoTx
    <3>. QED
      BY <1>1, <1>2, <2>1, <3>1 DEF CallInv, WrittenSoFar, InTx
  <2>2. CASE o # c
    <3> DEFINE W == tx[c].written
    <3>1. tx[o].written \cap W = {}
      BY <1>0, <2>2 DEF WritesAreExclusive
    <3>2. /\ CallInv(o) /\ call'[o] = call[o]
          /\ call[o].pc \notin InTx => tx'[o] = tx[o]
          /\ tx'[o].view = tx[o].view /\ tx'[o].written = tx[o].written
          /\ call[o].pc \in InTx => tx'[o].missed = tx[o].missed \cup W
      BY <1>0, <1>1, <1>2, <2>2
    <3>3. /\ \A k \in Keys : BalanceOf(k) \notin W => store'.onHand[k] = store.onHand[k]
          /\ \A d \in Docs : DocOf(d) \notin W => store'.status[d] = store.status[d]
          /\ \A i \in IdemKeys : IdemOf(i) \notin W => store'.idem[i] = store.idem[i]
      OBVIOUS
    <3>. HIDE DEF W
    <3>. QED
      BY <3>1, <3>2, <3>3, OtherCommits
  <2>. QED
    BY <2>1, <2>2
<1>5. WritesAreExclusive'
  BY <1>0, <1>2 DEF WritesAreExclusive, NoTx
<1>6. SuccessIsPosted'
  <2>1. ASSUME NEW o \in Calls, call'[o].pc \in {"audit", "done"}, o # c
        PROVE  store'.status[call'[o].doc] = "posted" /\ store'.idem[call'[o].idem] = call'[o].doc
    <3>1. /\ store.status[call[o].doc] = "posted" /\ store.idem[call[o].idem] = call[o].doc
          /\ call'[o] = call[o] /\ call[o].doc \in Docs /\ call[o].idem \in IdemKeys
      BY <1>0, <1>1, <2>1 DEF SuccessIsPosted, CallInv
    <3>. QED
      BY <1>0, <3>1, ConstantsAssumption
  <2>. QED
    BY <1>1, <2>1 DEF SuccessIsPosted
<1>. QED
  BY <1>3, <1>4, <1>5, <1>6 DEF IInv

(* What a commit changes: nothing after a replay, and otherwise exactly    *)
(* one posting of the call's document under the call's key.                *)
LEMMA MergeFacts ==
  ASSUME IInv, NEW c \in Calls, call[c].pc = "commit", store' = Merge(tx[c])
  PROVE  LET d == call[c].doc
             i == call[c].idem
         IN \/ /\ tx[c].written = {} /\ store' = store
               /\ store.status[d] = "posted" /\ store.idem[i] = d
            \/ /\ tx[c].written = Touched(d, NumKeys + 1) \cup {DocOf(d), IdemOf(i)}
               /\ store.status[d] = "ready" /\ store.idem[i] = NoDoc
               /\ \A k \in Keys : store'.onHand[k] = store.onHand[k] + Movement[d][k]
               /\ \A k \in Keys : store'.onHand[k] >= 0
               /\ store'.status[d] = "posted"
               /\ \A e \in Docs \ {d} : store'.status[e] = store.status[e]
               /\ store'.idem[i] = d
               /\ \A j \in IdemKeys \ {i} : store'.idem[j] = store.idem[j]
               /\ \A r \in store'.rows : r.doc # d => r \in store.rows
               /\ {r.key : r \in {r \in store'.rows : r.doc = d}} = Moved(d)
               /\ \A r1, r2 \in store'.rows :
                     r1.doc = d /\ r2.doc = d /\ r1.key = r2.key => r1 = r2
<1> DEFINE d == call[c].doc
           i == call[c].idem
           t == tx[c]
<1>1. /\ TypeOK /\ Consistent(store) /\ NonNegative
      /\ d \in Docs /\ i \in IdemKeys
      /\ WrittenSoFar(c) /\ ViewIsCurrent(c) /\ WritesAreOnePosting(c)
      /\ store \in Stores /\ t \in Transactions /\ t.view \in Stores
  BY DEF IInv, CallInv, InTx, TypeOK, Transactions
<1>2. /\ \A k \in Keys : store'.onHand[k] = IF BalanceOf(k) \in t.written
                                            THEN t.view.onHand[k] ELSE store.onHand[k]
      /\ \A e \in Docs : store'.status[e] = IF DocOf(e) \in t.written
                                            THEN t.view.status[e] ELSE store.status[e]
      /\ \A j \in IdemKeys : store'.idem[j] = IF IdemOf(j) \in t.written
                                              THEN t.view.idem[j] ELSE store.idem[j]
      /\ store'.rows = store.rows \cup t.view.rows
  BY DEF Merge
<1>3. CASE t.written = {} /\ t.view.idem[i] = d
  <2>1. store.idem[i] = d /\ store.status[d] = "posted"
    BY <1>1, <1>3, ConstantsAssumption DEF ViewIsCurrent, Consistent
  <2>2. t.view.rows \subseteq store.rows
    BY <1>1, <1>3 DEF WritesAreOnePosting
  <2>3. store' = [onHand |-> [k \in Keys |-> store.onHand[k]], seq |-> store.seq,
                  status |-> [e \in Docs |-> store.status[e]],
                  idem |-> [j \in IdemKeys |-> store.idem[j]], rows |-> store.rows]
    BY <1>3, <2>2 DEF Merge
  <2>4. store' = store
    BY <1>1, <2>3 DEF Stores
  <2>. QED
    BY <1>3, <2>1, <2>4
<1>4. CASE /\ call[c].cursor = NumKeys + 1
           /\ t.written = Touched(d, NumKeys + 1) \cup {DocOf(d), IdemOf(i)}
  <2>1. /\ store.status[d] = "ready" /\ store.idem[i] = NoDoc
        /\ store'.status[d] = "posted" /\ store'.idem[i] = d
    BY <1>1, <1>2, <1>4 DEF WritesAreOnePosting
  <2>2. /\ \A e \in Docs \ {d} : store'.status[e] = store.status[e]
        /\ \A j \in IdemKeys \ {i} : store'.idem[j] = store.idem[j]
    BY <1>2, <1>4, NamesDiffer DEF Touched
  <2>3. ASSUME NEW k \in Keys
        PROVE  /\ store'.onHand[k] = store.onHand[k] + Movement[d][k]
               /\ store'.onHand[k] >= 0
    <3>1. store.onHand[k] \in Int /\ store.onHand[k] >= 0 /\ Movement[d][k] \in Int
      BY <1>1, ConstantsAssumption DEF Stores, NonNegative
    <3>2. CASE BalanceOf(k) \in t.written
      BY <1>1, <1>2, <3>2 DEF WritesAreOnePosting
    <3>3. CASE BalanceOf(k) \notin t.written
      <4>1. Movement[d][k] = 0
        BY <1>4, <3>3, ConstantsAssumption DEF Touched, Moved, Keys
      <4>. QED
        BY <1>2, <3>1, <3>3, <4>1
    <3>. QED
      BY <3>2, <3>3
  <2>4. {r \in store'.rows : r.doc = d} = {r \in t.view.rows : r.doc = d}
    BY <1>1, <1>2, <2>1 DEF Consistent
  <2>5. {k \in Moved(d) : k < NumKeys + 1} = Moved(d)
    BY ConstantsAssumption DEF Moved, Keys
  <2>6. /\ {r.key : r \in {r \in store'.rows : r.doc = d}} = Moved(d)
        /\ \A r1, r2 \in {r \in store'.rows : r.doc = d} : r1.key = r2.key => r1 = r2
    BY <1>1, <1>4, <2>4, <2>5 DEF WritesAreOnePosting
  <2>7. \A r \in store'.rows : r.doc # d => r \in store.rows
    BY <1>1, <1>2 DEF WritesAreOnePosting
  <2>. QED
    BY <1>4, <2>1, <2>2, <2>3, <2>6, <2>7
<1>. QED
  BY <1>1, <1>3, <1>4 DEF WrittenSoFar, InTx

LEMMA MergeTyped ==
  ASSUME TypeOK, NEW c \in Calls
  PROVE  Merge(tx[c]) \in Stores
BY DEF TypeOK, Transactions, Stores, Merge

LEMMA CommitInv ==
  ASSUME IInv, NEW c \in Calls, NEW pc \in {"audit", "begin", "failed"},
         call[c].pc = "commit", CommitWrites(c), GoTo(c, pc), audit' = audit
  PROVE  IInv'
<1> DEFINE d == call[c].doc
           i == call[c].idem
<1>1. /\ TypeOK /\ Consistent(store) /\ OneMovementPerDocument /\ NonNegative
      /\ d \in Docs /\ i \in IdemKeys
      /\ store' \in Stores /\ store' = Merge(tx[c])
  BY MergeTyped DEF IInv, CallInv, InTx, CommitWrites
<1>2. CASE /\ tx[c].written = {} /\ store' = store
           /\ store.status[d] = "posted" /\ store.idem[i] = d
  <2>1. Consistent(store)' /\ OneMovementPerDocument' /\ NonNegative'
    BY <1>1, <1>2 DEF Consistent, OneMovementPerDocument, NonNegative
  <2>. QED
    BY <1>1, <1>2, <2>1, CommitStep
<1>3. CASE tx[c].written = Touched(d, NumKeys + 1) \cup {DocOf(d), IdemOf(i)}
  <2>0. d \in Docs /\ d # NoDoc
    BY <1>1, ConstantsAssumption
  <2>1. /\ store.status[d] = "ready" /\ store.idem[i] = NoDoc
        /\ \A k \in Keys : store'.onHand[k] >= 0
        /\ store'.status[d] = "posted"
        /\ \A e \in Docs \ {d} : store'.status[e] = store.status[e]
        /\ store'.idem[i] = d
        /\ \A j \in IdemKeys \ {i} : store'.idem[j] = store.idem[j]
        /\ \A r \in store'.rows : r.doc # d => r \in store.rows
        /\ {r.key : r \in {r \in store'.rows : r.doc = d}} = Moved(d)
        /\ \A r1, r2 \in store'.rows :
              r1.doc = d /\ r2.doc = d /\ r1.key = r2.key => r1 = r2
    BY <1>1, <1>3, MergeFacts
  <2>2. store.rows \subseteq store'.rows
    BY <1>1 DEF Merge
  <2>3. Consistent(store)'
    <3>1. ASSUME NEW e \in Docs \ {d}
          PROVE  {r \in store'.rows : r.doc = e} = {r \in store.rows : r.doc = e}
      BY <2>1, <2>2
    <3>2. \A e \in Docs :
            {r.key : r \in {row \in store'.rows : row.doc = e}}
               = IF store'.status[e] = "posted" THEN Moved(e) ELSE {}
      BY <1>1, <2>1, <3>1 DEF Consistent
    <3>3. \A j \in IdemKeys : store'.idem[j] # NoDoc => store'.status[store'.idem[j]] = "posted"
      <4>1. \A j \in IdemKeys : store.idem[j] # NoDoc =>
               store.status[store.idem[j]] = "posted" /\ store.idem[j] \in Docs
        BY <1>1 DEF Consistent, TypeOK, Stores
      <4>. QED
        BY <2>1, <4>1
    <3>4. \A e \in Docs : store'.status[e] = "posted" => \E j \in IdemKeys : store'.idem[j] = e
      <4>1. ASSUME NEW e \in Docs, store'.status[e] = "posted"
            PROVE  \E j \in IdemKeys : store'.idem[j] = e
        <5>1. CASE e = d
          BY <1>1, <2>1, <5>1
        <5>2. CASE e # d
          <6>1. PICK j \in IdemKeys : store.idem[j] = e
            BY <1>1, <2>1, <4>1, <5>2 DEF Consistent
          <6>2. j # i
            BY <2>1, <6>1, ConstantsAssumption
          <6>. QED
            BY <2>1, <6>1, <6>2
        <5>. QED
          BY <5>1, <5>2
      <4>. QED
        BY <4>1
    <3>. QED
      BY <3>2, <3>3, <3>4 DEF Consistent
  <2>4. OneMovementPerDocument'
    BY <1>1, <2>1 DEF OneMovementPerDocument
  <2>5. NonNegative'
    BY <2>1 DEF NonNegative
  <2>6. /\ \A k \in Keys : BalanceOf(k) \notin tx[c].written => store'.onHand[k] = store.onHand[k]
        /\ \A e \in Docs : DocOf(e) \notin tx[c].written => store'.status[e] = store.status[e]
        /\ \A j \in IdemKeys : IdemOf(j) \notin tx[c].written => store'.idem[j] = store.idem[j]
    BY <1>1 DEF Merge
  <2>7. /\ \A e \in Docs : store.status[e] = "posted" => store'.status[e] = "posted"
        /\ \A j \in IdemKeys : store.idem[j] # NoDoc => store'.idem[j] = store.idem[j]
    BY <2>1
  <2>. QED
    BY <1>1, <2>1, <2>2, <2>3, <2>4, <2>5, <2>6, <2>7, CommitStep
<1>. QED
  BY <1>1, <1>2, <1>3, MergeFacts

-----------------------------------------------------------------------------
(* Every step keeps the invariant. *)
LEMMA NextInv == IInv /\ [Next]_vars => IInv'
<1> SUFFICES ASSUME IInv, [Next]_vars PROVE IInv'
  OBVIOUS
<1>1. CASE UNCHANGED vars
  BY <1>1 DEF vars, IInv, TypeOK, CallInv, WrittenSoFar, ViewIsCurrent, WritesAreOnePosting,
              WritesAreExclusive, Consistent, OneMovementPerDocument, NonNegative, SuccessIsPosted
<1>2. ASSUME NEW c \in Calls, NEW d \in Docs, NEW i \in IdemKeys \cup {NoKey}, Request(c, d, i)
      PROVE  IInv'
  BY <1>2, RequestInv
<1>3. ASSUME NEW c \in Calls, Step(c)
      PROVE  IInv'
  <2>1. ASSUME Abort(c) PROVE IInv'
    BY <2>1, EndOfAttempt DEF Abort
  <2>2. CASE KeyMissing(c) \/ Insufficient(c)
    BY <2>1, <2>2 DEF KeyMissing, Insufficient
  <2>3. CASE Commit(c)
    BY <2>3, CommitInv DEF Commit
  <2>4. CASE WriteConflict(c)
    <3>1. CallInv(c) /\ call[c].pc \in InTx
      BY <2>4 DEF IInv, WriteConflict
    <3>2. call[c].doc \in Docs
      BY <3>1 DEF CallInv
    <3>. QED
      BY <2>4, <3>2, EndOfAttempt DEF WriteConflict, Retry
  <2>. QED
    BY <1>3, <2>2, <2>3, <2>4, BeginInv, LookupInv, LoadInv, PostMovementInv,
       MovementsDoneInv, SaveDocumentInv, RecordResultInv, RecordAuditInv DEF Step
<1>4. ASSUME NEW c \in Calls, CommitUnknown(c)
      PROVE  IInv'
  <2>1. CallInv(c) /\ call[c].pc = "commit"
    BY <1>4 DEF IInv, CommitUnknown
  <2>2. call[c].doc \in Docs
    BY <2>1 DEF CallInv, InTx
  <2>3. CASE Retry(c) /\ UNCHANGED store
    BY <2>2, <2>3, EndOfAttempt DEF Retry
  <2>4. CASE /\ CommitWrites(c)
             /\ GoTo(c, IF call[c].attempt < MaxAttempts THEN "begin" ELSE "failed")
             /\ UNCHANGED audit
    <3> DEFINE pc == IF call[c].attempt < MaxAttempts THEN "begin" ELSE "failed"
    <3>1. pc \in {"audit", "begin", "failed"} /\ GoTo(c, pc)
      BY <2>4
    <3>. HIDE DEF pc
    <3>. QED
      BY <2>1, <2>4, <3>1, CommitInv
  <2>. QED
    BY <1>4, <2>3, <2>4 DEF CommitUnknown
<1>5. ASSUME NEW c \in Calls, TransientError(c)
      PROVE  IInv'
  <2>1. CallInv(c) /\ call[c].pc \in InTx
    BY <1>5 DEF IInv, TransientError
  <2>2. call[c].doc \in Docs
    BY <2>1 DEF CallInv
  <2>. QED
    BY <1>5, <2>2, EndOfAttempt DEF TransientError, Retry
<1>6. ASSUME NEW c \in Calls, Crash(c)
      PROVE  IInv'
  BY <1>6, EndOfAttempt DEF Crash, Abort
<1>. QED
  BY <1>1, <1>2, <1>3, <1>4, <1>5, <1>6 DEF Next

(* InductiveInvariant: the strengthening that makes the others inductive.  *)
(* What a transaction has written is one posting of its document, no two   *)
(* open transactions write one document, and what a transaction has not    *)
(* written it either sees as committed or can no longer write.             *)
THEOREM InductiveInvariant == Spec => []IInv
BY InitInv, NextInv, PTL DEF Spec

(* TypeCorrect: every document and every call keeps its type. *)
THEOREM TypeCorrect == Spec => []TypeOK
<1>1. IInv => TypeOK
  BY DEF IInv
<1>. QED
  BY <1>1, InductiveInvariant, PTL

(* PostedOnce: whatever conflicts, lost commit answers, retries, crashes   *)
(* and replays happen, withIdempotentPost and postStockMovements book a    *)
(* document's movement on a key at most once.                              *)
THEOREM PostedOnce == Spec => []OneMovementPerDocument
<1>1. IInv => OneMovementPerDocument
  BY DEF IInv
<1>. QED
  BY <1>1, InductiveInvariant, PTL

(* StockNeverNegative: the conditional balance update of applyBalanceDelta *)
(* keeps every on-hand balance at zero or above under concurrency.         *)
THEOREM StockNeverNegative == Spec => []NonNegative
<1>1. IInv => NonNegative
  BY DEF IInv
<1>. QED
  BY <1>1, InductiveInvariant, PTL

(* SuccessMeansPosted: a call answered with success, from its own work or  *)
(* from the stored result, has its document posted under its key.          *)
THEOREM SuccessMeansPosted == Spec => []SuccessIsPosted
<1>1. IInv => SuccessIsPosted
  BY DEF IInv
<1>. QED
  BY <1>1, InductiveInvariant, PTL

(* NoPartialPosting: a document is posted with all its ledger rows and a   *)
(* stored result, or it has none of them, however its attempts ended.      *)
THEOREM NoPartialPosting == Spec => []AllOrNothing
<1>1. IInv => AllOrNothing
  <2>1. ASSUME TypeOK, Consistent(store)
        PROVE  AllOrNothing
    <3>1. ASSUME NEW d \in Docs, store.status[d] # "posted", NEW i \in IdemKeys
          PROVE  store.idem[i] # d
      <4>1. d # NoDoc
        BY ConstantsAssumption
      <4>. QED
        BY <2>1, <3>1, <4>1 DEF Consistent
    <3>. QED
      BY <2>1, <3>1 DEF AllOrNothing, Consistent, Moved
  <2>. QED
    BY <2>1 DEF IInv
<1>. QED
  BY <1>1, InductiveInvariant, PTL

-----------------------------------------------------------------------------
(* The committed documents change by a commit only.                        *)
LEMMA StoreSteps ==
  ASSUME [Next]_vars
  PROVE  \/ store' = store
         \/ \E c \in Calls : call[c].pc = "commit" /\ store' = Merge(tx[c])
BY DEF vars, Next, Step, Request, Begin, KeyMissing, Lookup, Load, PostMovement,
       Insufficient, MovementsDone, SaveDocument, RecordResult, Commit, CommitUnknown,
       WriteConflict, TransientError, RecordAudit, Crash, Abort, Retry, CommitWrites

(* Final: nothing that was committed about a posting is ever taken back.   *)
THEOREM Final == Spec => PostedIsFinal
<1> DEFINE Kept == /\ store.rows \subseteq store'.rows
                   /\ \A i \in IdemKeys : store.idem[i] # NoDoc => store'.idem[i] = store.idem[i]
                   /\ \A d \in Docs : store.status[d] = "posted" => store'.status[d] = "posted"
<1>1. ASSUME IInv, [Next]_vars PROVE [Kept]_vars
  <2>1. CASE store' = store
    BY <2>1
  <2>2. ASSUME NEW c \in Calls, call[c].pc = "commit", store' = Merge(tx[c])
        PROVE  Kept
    <3>1. store.rows \subseteq store'.rows
      BY <2>2 DEF Merge
    <3>2. \/ store' = store
          \/ /\ \A d \in Docs : store.status[d] = "posted" => store'.status[d] = "posted"
             /\ \A i \in IdemKeys : store.idem[i] # NoDoc => store'.idem[i] = store.idem[i]
      BY <1>1, <2>2, MergeFacts
    <3>. QED
      BY <3>1, <3>2
  <2>. QED
    BY <1>1, <2>1, <2>2, StoreSteps
<1>. QED
  BY <1>1, InductiveInvariant, PTL DEF Spec, PostedIsFinal

-----------------------------------------------------------------------------
(* ImplementsAtomicPosting: seen through the committed balances and the    *)
(* posted documents, the protocol of snapshots, conflicts, retries and     *)
(* stored results is the one-step, at-most-once posting of AtomicPosting.  *)
THEOREM ImplementsAtomicPosting == Spec => AtomicallyPosted
<1> DEFINE posted == {d \in Docs : store.status[d] = "posted"}
<1>1. ASSUME Init PROVE Atomic!Init
  BY <1>1, ConstantsAssumption DEF Init, EmptyStore, Atomic!Init, Keys, Atomic!Keys
<1>2. ASSUME IInv, [Next]_vars PROVE [Atomic!Next]_Atomic!vars
  <2>1. CASE store' = store
    BY <2>1 DEF Atomic!vars
  <2>2. ASSUME NEW c \in Calls, call[c].pc = "commit", store' = Merge(tx[c]), store' # store
        PROVE  Atomic!Next
    <3> DEFINE d == call[c].doc
               i == call[c].idem
    <3>1. /\ TypeOK /\ d \in Docs
          /\ store' \in Stores /\ store \in Stores
      BY <1>2, <2>2, MergeTyped DEF IInv, CallInv, InTx, TypeOK
    <3>2. /\ store.status[d] = "ready" /\ store'.status[d] = "posted"
          /\ \A e \in Docs \ {d} : store'.status[e] = store.status[e]
          /\ \A k \in Keys : store'.onHand[k] = store.onHand[k] + Movement[d][k]
          /\ \A k \in Keys : store'.onHand[k] >= 0
      BY <1>2, <2>2, MergeFacts
    <3>3. d \notin posted /\ posted' = posted \cup {d}
      BY <3>1, <3>2
    <3>4. store'.onHand = [k \in Keys |-> store.onHand[k] + Movement[d][k]]
      BY <3>1, <3>2 DEF Stores
    <3>5. \A k \in Keys : store.onHand[k] + Movement[d][k] >= 0
      BY <3>2
    <3>. HIDE DEF d, posted
    <3>. QED
      BY <3>1, <3>3, <3>4, <3>5 DEF posted, Atomic!Next, Atomic!Post, Atomic!Keys, Keys
  <2>. QED
    BY <1>2, <2>1, <2>2, StoreSteps
<1>. QED
  BY <1>1, <1>2, InductiveInvariant, PTL DEF Spec, AtomicallyPosted, Atomic!Spec
-----------------------------------------------------------------------------
(* The ledger *)

(* One ledger as a transaction holds it. *)
TxLedger(t) == RowsAreMovements(t.view) /\ Numbered(t.view) /\ LedgerIsCurrent(t)

LEMMA InitLedger == Init => LedgerInv
<1> SUFFICES ASSUME Init PROVE LedgerInv
  OBVIOUS
<1>1. /\ store.rows = {} /\ store.seq = 0
      /\ \A k \in Keys : store.onHand[k] = Opening[k]
      /\ \A c \in Calls : call[c].pc \notin InTx
  BY DEF Init, EmptyStore, InTx
<1>2. RowsAreMovements(store)
  BY <1>1, FS_EmptySet DEF RowsAreMovements
<1>3. NumbersAreGapless
  BY <1>1 DEF NumbersAreGapless, Numbered
<1>4. ASSUME NEW k \in Keys
      PROVE  store.onHand[k] = Opening[k]
               + SumFunctionOnSet(Quantity, {r \in store.rows : r.key = k})
  <2>1. {r \in store.rows : r.key = k} = {}
    BY <1>1
  <2>2. SumFunctionOnSet(Quantity, {}) = 0
    BY SumEmpty
  <2>3. Opening[k] \in Int /\ store.onHand[k] = Opening[k]
    BY <1>1, ConstantsAssumption
  <2>. QED
    BY <2>1, <2>2, <2>3
<1>. QED
  BY <1>1, <1>2, <1>3, <1>4 DEF LedgerInv, LedgerMatchesBalance

(* A document that is posted has taken a sequence number. *)
LEMMA CounterTouched ==
  ASSUME NEW d \in Docs
  PROVE  Counter \in Touched(d, NumKeys + 1)
<1>1. PICK k \in Keys : Movement[d][k] # 0
  BY EveryDocMoves
<1>2. k \in Moved(d) /\ k < NumKeys + 1
  BY <1>1, ConstantsAssumption DEF Moved, Keys
<1>. QED
  BY <1>2 DEF Touched

(* A movement takes the next number and appends its row: the numbers of    *)
(* the transaction's ledger stay without a gap.                            *)
LEMMA BookedLedger ==
  ASSUME IInv, NEW c \in Calls, PostMovement(c), Movement[call[c].doc][call[c].cursor] # 0,
         TxLedger(tx[c])
  PROVE  TxLedger(tx[c])'
<1> DEFINE d == call[c].doc
           at == call[c].cursor
           q == Movement[d][at]
           view == tx[c].view
           row == [doc |-> d, key |-> at, quantity |-> q, number |-> view.seq + 1]
<1>1. /\ TypeOK /\ CallInv(c) /\ call[c].pc = "move" /\ at <= NumKeys /\ store' = store
      /\ tx[c].written \cap tx[c].missed = {}
  BY DEF IInv, PostMovement, CallInv
<1>2. /\ tx[c] \in Transactions /\ view \in Stores /\ view.seq \in Nat
  BY <1>1 DEF TypeOK, Transactions, Stores
<1>3. NextWrites(c) = {Counter, BalanceOf(at)}
  BY <1>1 DEF NextWrites
<1>4. /\ tx'[c].view = Book(view, row)
      /\ tx'[c].written = tx[c].written \cup {Counter, BalanceOf(at)}
      /\ Counter \notin tx[c].missed
  <2>1. Writable(c, NextWrites(c)) /\ Write(c, NextWrites(c), Book(view, row))
    BY DEF PostMovement
  <2>. HIDE DEF row
  <2>. QED
    BY <1>1, <1>2, <1>3, <2>1 DEF Write, Writable, TypeOK, Transactions
<1>5. tx'[c].view.rows = view.rows \cup {row} /\ tx'[c].view.seq = view.seq + 1
  BY <1>2, <1>4 DEF Book, Stores
<1>6. row.number = view.seq + 1 /\ row.quantity = Movement[row.doc][row.key]
  OBVIOUS
<1>. HIDE DEF row
<1>7. RowsAreMovements(tx'[c].view)
  BY <1>5, <1>6, FS_AddElement DEF TxLedger, RowsAreMovements
<1>8. Numbered(tx'[c].view)
  <2> DEFINE numbers(R) == {r.number : r \in R}
  <2>1. numbers(view.rows) = 1..view.seq
        /\ \A r1, r2 \in view.rows : r1.number = r2.number => r1 = r2
    BY DEF TxLedger, Numbered
  <2>2. numbers(view.rows \cup {row}) = numbers(view.rows) \cup {view.seq + 1}
    BY <1>6
  <2>3. (1..view.seq) \cup {view.seq + 1} = 1..(view.seq + 1)
    BY <1>2
  <2>4. \A r \in view.rows : r.number # view.seq + 1
    <3>1. \A r \in view.rows : r.number \in 1..view.seq
      BY <2>1
    <3>. QED
      BY <1>2, <3>1
  <2>5. \A r1, r2 \in view.rows \cup {row} : r1.number = r2.number => r1 = r2
    BY <1>6, <2>1, <2>4
  <2>6. numbers(view.rows \cup {row}) = 1..(view.seq + 1)
    BY <2>1, <2>2, <2>3
  <2>. QED
    BY <1>5, <2>5, <2>6 DEF Numbered
<1>9. LedgerIsCurrent(tx[c])'
  <2>1. Counter \in tx'[c].written
    BY <1>4
  <2>2. store.rows \subseteq view.rows
    BY <1>4 DEF TxLedger, LedgerIsCurrent
  <2>. QED
    BY <1>1, <1>5, <2>1, <2>2 DEF LedgerIsCurrent
<1>. QED
  BY <1>7, <1>8, <1>9 DEF TxLedger

(* In a step that leaves the committed documents alone, a call that is in  *)
(* a transaction afterwards keeps its ledger, starts from a new snapshot   *)
(* of the committed one, or books a movement.                              *)
LEMMA LedgerSteps ==
  ASSUME IInv, [Next]_vars, NEW c \in Calls, call'[c].pc \in InTx
  PROVE  \/ /\ call[c].pc \in InTx
            /\ tx'[c].view.rows = tx[c].view.rows /\ tx'[c].view.seq = tx[c].view.seq
            /\ Counter \in tx'[c].written <=> Counter \in tx[c].written
            /\ \/ tx'[c].missed = tx[c].missed /\ store' = store
               \/ \E o \in Calls \ {c} : /\ call[o].pc = "commit" /\ store' = Merge(tx[o])
                                         /\ tx'[c].missed = tx[c].missed \cup tx[o].written
         \/ tx'[c] = [view |-> store, written |-> {}, missed |-> {}] /\ store' = store
         \/ /\ PostMovement(c) /\ call[c].pc \in InTx /\ store' = store
            /\ Movement[call[c].doc][call[c].cursor] # 0
<1> DEFINE Kept == /\ call[c].pc \in InTx
                   /\ tx'[c].view.rows = tx[c].view.rows /\ tx'[c].view.seq = tx[c].view.seq
                   /\ Counter \in tx'[c].written <=> Counter \in tx[c].written
                   /\ tx'[c].missed = tx[c].missed /\ store' = store
           Seen == /\ call[c].pc \in InTx
                   /\ tx'[c].view = tx[c].view /\ tx'[c].written = tx[c].written
                   /\ \E o \in Calls \ {c} : /\ call[o].pc = "commit" /\ store' = Merge(tx[o])
                                             /\ tx'[c].missed = tx[c].missed \cup tx[o].written
           Fresh == tx'[c] = [view |-> store, written |-> {}, missed |-> {}] /\ store' = store
           Books == /\ PostMovement(c) /\ call[c].pc \in InTx /\ store' = store
                    /\ Movement[call[c].doc][call[c].cursor] # 0
<1> SUFFICES Kept \/ Seen \/ Fresh \/ Books
  OBVIOUS
<1>1. TypeOK
  BY DEF IInv
<1>2. CASE UNCHANGED vars
  BY <1>2 DEF vars
<1>3. ASSUME NEW a \in Calls, NEW pc, GoTo(a, pc), a # c, tx'[c] = tx[c], store' = store
      PROVE  Kept
  BY <1>1, <1>3 DEF GoTo, TypeOK
<1>4. ASSUME NEW a \in Calls, NEW pc, GoTo(a, pc), pc \notin InTx, store' = store,
             tx' = [tx EXCEPT ![a] = NoTx]
      PROVE  Kept
  <2>1. a # c
    BY <1>1, <1>4 DEF GoTo, TypeOK
  <2>. QED
    BY <1>1, <1>3, <1>4, <2>1 DEF TypeOK
<1>5. ASSUME NEW a \in Calls, Abort(a) \/ (Retry(a) /\ store' = store)
      PROVE  Kept
  <2>1. \A pc \in {"failed", "begin"} : pc \notin InTx
    BY DEF InTx
  <2>. QED
    BY <1>4, <1>5, <2>1 DEF Abort, Retry
<1>6. ASSUME NEW a \in Calls, NEW pc, GoTo(a, pc), pc \notin InTx, CommitWrites(a),
             call[a].pc = "commit"
      PROVE  Seen
  <2>1. a # c
    BY <1>1, <1>6 DEF GoTo, TypeOK
  <2>2. call'[c] = call[c]
    BY <1>1, <1>6, <2>1 DEF GoTo, TypeOK
  <2>3. tx'[c] = [tx[c] EXCEPT !.missed = @ \cup tx[a].written]
    BY <1>6, <2>1, <2>2 DEF CommitWrites
  <2>4. /\ tx'[c].view = tx[c].view /\ tx'[c].written = tx[c].written
        /\ tx'[c].missed = tx[c].missed \cup tx[a].written
    BY <1>1, <2>3 DEF TypeOK, Transactions
  <2>. QED
    BY <1>6, <2>1, <2>2, <2>4 DEF CommitWrites
<1>7. ASSUME NEW a \in Calls, tx' = tx, store' = store, call[a].pc \in InTx,
             \A o \in Calls \ {a} : call'[o] = call[o]
      PROVE  Kept
  BY <1>7
<1>8. ASSUME NEW a \in Calls, NEW objects, NEW view, Write(a, objects, view), store' = store,
             call[a].pc \in InTx, \A o \in Calls \ {a} : call'[o] = call[o],
             Counter \notin objects, view.rows = tx[a].view.rows, view.seq = tx[a].view.seq
      PROVE  Kept
  BY <1>1, <1>8 DEF Write, TypeOK, Transactions
<1>9. ASSUME NEW a \in Calls, NEW d \in Docs, NEW i \in IdemKeys \cup {NoKey}, Request(a, d, i)
      PROVE  Kept
  <2>1. call'[a].pc = "begin" /\ \A o \in Calls \ {a} : call'[o] = call[o]
    BY <1>1, <1>9 DEF Request, TypeOK, CallStates
  <2>. QED
    BY <1>9, <2>1 DEF Request, InTx
<1>10. ASSUME NEW a \in Calls, Step(a)
       PROVE  Kept \/ Seen \/ Fresh \/ Books
  <2>1. CASE Begin(a)
    BY <1>1, <2>1 DEF Begin, TypeOK
  <2>2. CASE KeyMissing(a) \/ Insufficient(a) \/ WriteConflict(a)
    BY <1>5, <2>2 DEF KeyMissing, Insufficient, WriteConflict
  <2>3. CASE Lookup(a) \/ Load(a) \/ MovementsDone(a)
    <3>1. CASE Abort(a)
      BY <1>5, <3>1
    <3>2. CASE /\ call[a].pc \in InTx /\ tx' = tx /\ store' = store
               /\ \E pc \in InTx : GoTo(a, pc)
      BY <1>1, <1>7, <3>2 DEF GoTo, TypeOK
    <3>. QED
      BY <2>3, <3>1, <3>2 DEF Lookup, Load, MovementsDone, InTx
  <2>4. CASE PostMovement(a)
    <3>1. /\ call' = [call EXCEPT ![a].cursor = call[a].cursor + 1]
          /\ store' = store /\ call[a].pc \in InTx
      BY <2>4 DEF PostMovement, InTx
    <3>2. \A o \in Calls \ {a} : call'[o] = call[o]
      BY <1>1, <3>1 DEF TypeOK
    <3>3. CASE Movement[call[a].doc][call[a].cursor] = 0
      <4>1. tx' = tx
        BY <2>4, <3>3 DEF PostMovement
      <4>. QED
        BY <1>7, <3>1, <3>2, <4>1
    <3>4. CASE Movement[call[a].doc][call[a].cursor] # 0 /\ a # c
      <4>1. tx'[c] = tx[c]
        BY <1>1, <2>4, <3>4 DEF PostMovement, Write, TypeOK
      <4>. QED
        BY <3>1, <3>2, <3>4, <4>1
    <3>. QED
      BY <2>4, <3>1, <3>3, <3>4
  <2>5. CASE SaveDocument(a)
    <3> DEFINE view == [tx[a].view EXCEPT !.status[call[a].doc] = "posted"]
    <3>1. /\ Write(a, NextWrites(a), view) /\ store' = store /\ call[a].pc = "save"
          /\ NextWrites(a) = {DocOf(call[a].doc)}
          /\ \A o \in Calls \ {a} : call'[o] = call[o]
      BY <1>1, <2>5 DEF SaveDocument, NextWrites, GoTo, TypeOK
    <3>2. view.rows = tx[a].view.rows /\ view.seq = tx[a].view.seq
      BY <1>1 DEF TypeOK, Transactions, Stores
    <3>. HIDE DEF view
    <3>. QED
      BY <1>8, <3>1, <3>2, NamesDiffer DEF InTx
  <2>6. CASE RecordResult(a)
    <3> DEFINE view == [tx[a].view EXCEPT !.idem[call[a].idem] = call[a].doc]
    <3>1. /\ Write(a, NextWrites(a), view) /\ store' = store /\ call[a].pc = "record"
          /\ NextWrites(a) = {IdemOf(call[a].idem)}
          /\ \A o \in Calls \ {a} : call'[o] = call[o]
      BY <1>1, <2>6 DEF RecordResult, NextWrites, GoTo, TypeOK
    <3>2. view.rows = tx[a].view.rows /\ view.seq = tx[a].view.seq
      BY <1>1 DEF TypeOK, Transactions, Stores
    <3>. HIDE DEF view
    <3>. QED
      BY <1>8, <3>1, <3>2, NamesDiffer DEF InTx
  <2>7. CASE Commit(a)
    BY <1>6, <2>7 DEF Commit, InTx
  <2>8. CASE RecordAudit(a)
    <3>1. /\ tx' = tx /\ store' = store /\ call'[a].pc = "done"
          /\ \A o \in Calls \ {a} : call'[o] = call[o]
      BY <1>1, <2>8 DEF RecordAudit, GoTo, TypeOK, CallStates
    <3>. QED
      BY <3>1 DEF InTx
  <2>. QED
    BY <1>10, <2>1, <2>2, <2>3, <2>4, <2>5, <2>6, <2>7, <2>8 DEF Step
<1>11. ASSUME NEW a \in Calls, CommitUnknown(a)
       PROVE  Kept \/ Seen
  <2>1. CASE Retry(a) /\ UNCHANGED store
    BY <1>5, <2>1
  <2>2. CASE CommitWrites(a)
    <3>1. \A pc \in {"failed", "begin"} : pc \notin InTx
      BY DEF InTx
    <3>2. PICK pc \in {"failed", "begin"} : GoTo(a, pc)
      BY <1>11, <2>2 DEF CommitUnknown, Retry
    <3>. QED
      BY <1>6, <1>11, <2>2, <3>1, <3>2 DEF CommitUnknown
  <2>. QED
    BY <1>11, <2>1, <2>2 DEF CommitUnknown
<1>12. ASSUME NEW a \in Calls, TransientError(a) \/ Crash(a)
       PROVE  Kept
  BY <1>5, <1>12 DEF TransientError, Crash
<1>. QED
  BY <1>2, <1>9, <1>10, <1>11, <1>12 DEF Next

(* The commit of a posting adds one row for each key that its document     *)
(* moves to the committed ledger, with the quantity its balance changed.   *)
LEMMA CommitLedger ==
  ASSUME IInv, LedgerInv, NEW c \in Calls, call[c].pc = "commit", store' = Merge(tx[c])
  PROVE  /\ RowsAreMovements(store)' /\ NumbersAreGapless' /\ LedgerMatchesBalance'
         /\ \/ tx[c].written = {} /\ store' = store
            \/ Counter \in tx[c].written
<1> DEFINE d == call[c].doc
           i == call[c].idem
           t == tx[c]
<1>1. /\ TypeOK /\ d \in Docs /\ t.view \in Stores /\ store \in Stores /\ Consistent(store)
      /\ TxLedger(t) /\ WritesAreOnePosting(c)
      /\ RowsAreMovements(store) /\ NumbersAreGapless /\ LedgerMatchesBalance
  BY DEF IInv, CallInv, InTx, LedgerInv, TxLedger, TypeOK, Transactions
<1>2. CASE t.written = {} /\ store' = store
  BY <1>1, <1>2 DEF RowsAreMovements, NumbersAreGapless, Numbered, LedgerMatchesBalance, Quantity
<1>3. CASE /\ t.written = Touched(d, NumKeys + 1) \cup {DocOf(d), IdemOf(i)}
           /\ store.status[d] = "ready"
           /\ \A k \in Keys : store'.onHand[k] = store.onHand[k] + Movement[d][k]
           /\ {r.key : r \in {r \in store'.rows : r.doc = d}} = Moved(d)
           /\ \A r1, r2 \in store'.rows :
                 r1.doc = d /\ r2.doc = d /\ r1.key = r2.key => r1 = r2
           /\ \A r \in store'.rows : r.doc # d => r \in store.rows
  <2>1. Counter \in t.written
    BY <1>1, <1>3, CounterTouched
  <2>2. store'.rows = t.view.rows /\ store'.seq = t.view.seq /\ store.rows \subseteq store'.rows
    BY <1>1, <2>1 DEF TxLedger, LedgerIsCurrent, Merge
  <2>3. RowsAreMovements(store)' /\ NumbersAreGapless'
    BY <1>1, <2>2 DEF TxLedger, RowsAreMovements, NumbersAreGapless, Numbered
  <2>4. \A r \in store.rows : r.doc # d
    <3>1. {r.key : r \in {row \in store.rows : row.doc = d}} = {}
      BY <1>1, <1>3 DEF Consistent
    <3>. QED
      BY <3>1
  <2>5. ASSUME NEW k \in Keys
        PROVE  store'.onHand[k] = Opening[k]
                 + SumFunctionOnSet(Quantity', {r \in store'.rows : r.key = k})
    <3> DEFINE before == {r \in store.rows : r.key = k}
               after == {r \in store'.rows : r.key = k}
               sum == SumFunctionOnSet(Quantity, before)
               sumAfter == SumFunctionOnSet(Quantity', after)
    <3>1. /\ store.onHand[k] = Opening[k] + sum
          /\ store.onHand[k] \in Int /\ Opening[k] \in Int /\ Movement[d][k] \in Int
      BY <1>1, ConstantsAssumption DEF LedgerMatchesBalance, Stores
    <3>2. IsFiniteSet(before) /\ IsFiniteSet(after)
      BY <1>1, <2>3, FS_Subset DEF RowsAreMovements
    <3>3. \A r \in store'.rows : r.quantity \in Int /\ Quantity'[r] = r.quantity
      <4>1. \A r \in t.view.rows : r.quantity \in Int
        BY <1>1 DEF Stores, Row
      <4>. QED
        BY <2>2, <4>1 DEF Quantity
    <3>4. \A r \in before : r \in store'.rows /\ Quantity[r] = Quantity'[r]
      BY <2>2 DEF Quantity
    <3>5. sum = SumFunctionOnSet(Quantity', before) /\ sum \in Int
      <4>1. \A r \in before : Quantity[r] \in Int /\ Quantity'[r] = Quantity[r]
        BY <3>3, <3>4
      <4>. HIDE DEF before
      <4>0. before \in SUBSET before
        OBVIOUS
      <4>2. SumFunctionOnSet(Quantity, before) \in Int
        BY <3>2, <4>0, <4>1, SumType
      <4>3. SumFunctionOnSet(Quantity, before) = SumFunctionOnSet(Quantity', before)
        BY <3>2, <4>1, SumSame
      <4>. QED
        BY <4>2, <4>3
    <3>6. sumAfter = sum + Movement[d][k]
      <4>1. CASE k \in Moved(d)
        <5>1. PICK r \in store'.rows : r.doc = d /\ r.key = k
          BY <1>3, <4>1
        <5>2. after = before \cup {r} /\ r \notin before
          BY <1>3, <2>2, <2>4, <5>1
        <5>3. Quantity'[r] = Movement[d][k]
          BY <2>3, <3>3, <5>1 DEF RowsAreMovements
        <5>4. \A x \in before \cup {r} : Quantity'[x] \in Int
          BY <3>3, <5>2
        <5>. HIDE DEF before, after
        <5>5. SumFunctionOnSet(Quantity', before \cup {r})
                = SumFunctionOnSet(Quantity', before) + Quantity'[r]
          BY <3>2, <5>2, <5>4, SumAdd
        <5>. QED
          BY <3>5, <5>2, <5>3, <5>5
      <4>2. CASE k \notin Moved(d)
        <5>1. Movement[d][k] = 0
          BY <4>2 DEF Moved
        <5>2. after = before
          BY <1>3, <2>2, <2>4, <4>2
        <5>3. sumAfter = sum
          BY <3>5, <5>2
        <5>. HIDE DEF sum, sumAfter
        <5>. QED
          BY <3>5, <5>1, <5>3
      <4>. QED
        BY <4>1, <4>2
    <3>7. store'.onHand[k] = store.onHand[k] + Movement[d][k]
      BY <1>3
    <3>. HIDE DEF sum, sumAfter
    <3>8. store'.onHand[k] = Opening[k] + sumAfter
      BY <3>1, <3>5, <3>6, <3>7
    <3>. QED
      BY <3>8 DEF sumAfter
  <2>. QED
    BY <2>1, <2>3, <2>5 DEF LedgerMatchesBalance
<1>. QED
  BY <1>2, <1>3, MergeFacts

LEMMA NextLedger == IInv /\ LedgerInv /\ [Next]_vars => LedgerInv'
<1> SUFFICES ASSUME IInv, LedgerInv, [Next]_vars PROVE LedgerInv'
  OBVIOUS
<1>1. ASSUME NEW c \in Calls, call'[c].pc \in InTx
      PROVE  TxLedger(tx[c])'
  <2>1. CASE /\ call[c].pc \in InTx /\ store' = store
             /\ tx'[c].view.rows = tx[c].view.rows /\ tx'[c].view.seq = tx[c].view.seq
             /\ Counter \in tx'[c].written <=> Counter \in tx[c].written
             /\ tx'[c].missed = tx[c].missed
    BY <2>1 DEF LedgerInv, TxLedger, RowsAreMovements, Numbered, LedgerIsCurrent
  <2>2. ASSUME NEW o \in Calls \ {c}, call[o].pc = "commit", store' = Merge(tx[o]),
               call[c].pc \in InTx,
               tx'[c].view.rows = tx[c].view.rows, tx'[c].view.seq = tx[c].view.seq,
               Counter \in tx'[c].written <=> Counter \in tx[c].written,
               tx'[c].missed = tx[c].missed \cup tx[o].written
        PROVE  TxLedger(tx[c])'
    <3>1. \/ tx[o].written = {} /\ store' = store
          \/ Counter \in tx[o].written
      BY <2>2, CommitLedger
    <3>2. ~(Counter \in tx[o].written /\ Counter \in tx[c].written)
      BY <2>2 DEF IInv, WritesAreExclusive
    <3>3. TxLedger(tx[c])
      BY <2>2 DEF LedgerInv, TxLedger
    <3>4. RowsAreMovements(tx'[c].view) /\ Numbered(tx'[c].view)
      BY <2>2, <3>3 DEF TxLedger, RowsAreMovements, Numbered
    <3>5. LedgerIsCurrent(tx[c])'
      BY <2>2, <3>1, <3>2, <3>3 DEF TxLedger, LedgerIsCurrent
    <3>. QED
      BY <3>4, <3>5 DEF TxLedger
  <2>3. CASE tx'[c] = [view |-> store, written |-> {}, missed |-> {}] /\ store' = store
    BY <2>3 DEF LedgerInv, NumbersAreGapless, TxLedger, RowsAreMovements, Numbered, LedgerIsCurrent
  <2>4. CASE /\ PostMovement(c) /\ call[c].pc \in InTx
             /\ Movement[call[c].doc][call[c].cursor] # 0
    BY <2>4, BookedLedger DEF LedgerInv, TxLedger
  <2>. QED
    BY <1>1, <2>1, <2>2, <2>3, <2>4, LedgerSteps
<1>2. RowsAreMovements(store)' /\ NumbersAreGapless' /\ LedgerMatchesBalance'
  <2>1. CASE store' = store
    BY <2>1 DEF LedgerInv, RowsAreMovements, NumbersAreGapless, Numbered, LedgerMatchesBalance,
                Quantity
  <2>. QED
    BY <2>1, StoreSteps, CommitLedger
<1>. QED
  BY <1>1, <1>2 DEF LedgerInv, TxLedger

(* LedgerInvariant: a transaction that has taken a number extends the      *)
(* committed ledger, which no other transaction then extends.              *)
THEOREM LedgerInvariant == Spec => []LedgerInv
BY InductiveInvariant, InitLedger, NextLedger, PTL DEF Spec

(* LedgerIsTheBalance: the signed rows that postStockMovements appends to  *)
(* the ledger add up, key by key, to what the balances changed by.         *)
THEOREM LedgerIsTheBalance == Spec => []LedgerMatchesBalance
<1>1. LedgerInv => LedgerMatchesBalance
  BY DEF LedgerInv
<1>. QED
  BY <1>1, LedgerInvariant, PTL

(* NoGaps: however many attempts were given up, the committed ledger rows  *)
(* are numbered 1, 2, 3, ... by nextSequence, each number once.            *)
THEOREM NoGaps == Spec => []NumbersAreGapless
<1>1. LedgerInv => NumbersAreGapless
  BY DEF LedgerInv
<1>. QED
  BY <1>1, LedgerInvariant, PTL
=============================================================================
