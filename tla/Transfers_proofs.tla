-------------------------- MODULE Transfers_proofs --------------------------
(***************************************************************************)
(* Theorems about Transfers: any number of overlapping calls, transfers,   *)
(* lines, locations and goods.                                             *)
(***************************************************************************)
EXTENDS Transfers, Sums, TLAPS

-----------------------------------------------------------------------------
(* Quantities of lines *)

LEMMA SequenceDomain ==
  ASSUME NEW S, NEW s \in Seq(S)
  PROVE  /\ DOMAIN s = 1..Len(s) /\ Len(s) \in Nat /\ IsFiniteSet(DOMAIN s)
         /\ \A n \in DOMAIN s : s[n] \in S
<1>1. DOMAIN s = 1..Len(s) /\ Len(s) \in Nat /\ \A n \in DOMAIN s : s[n] \in S
  OBVIOUS
<1>2. IsFiniteSet(1..Len(s))
  BY <1>1, FS_Interval
<1>. QED
  BY <1>1, <1>2

LEMMA ItemFields ==
  ASSUME NEW items \in Seq(Item), NEW n \in DOMAIN items
  PROVE  /\ items[n].quantity \in Nat /\ items[n].from \in Places /\ items[n].to \in Places
         /\ items[n].good \in Goods /\ items[n].quantity \in Quantities
<1>1. items[n] \in Item
  BY SequenceDomain
<1>. QED
  BY <1>1, TransfersAssumption DEF Item

LEMMA LineQuantities ==
  ASSUME NEW items \in Seq(Item), NEW x, NEW g
  PROVE  /\ IsFiniteSet(DOMAIN items)
         /\ DOMAIN Outgoing(items, x, g) = DOMAIN items
         /\ DOMAIN Incoming(items, x, g) = DOMAIN items
         /\ \A n \in DOMAIN items : /\ Outgoing(items, x, g)[n] \in Nat
                                    /\ Incoming(items, x, g)[n] \in Nat
BY SequenceDomain, ItemFields DEF Outgoing, Incoming

LEMMA LineTotals ==
  ASSUME NEW items \in Seq(Item), NEW x, NEW g
  PROVE  Leaving(items, x, g) \in Nat /\ Arriving(items, x, g) \in Nat
BY LineQuantities, TotalNat DEF Leaving, Arriving

(* A reversal takes where its original brought, and brings where it took. *)
LEMMA BackTurns ==
  ASSUME NEW items \in Seq(Item)
  PROVE  /\ Back(items) \in Seq(Item)
         /\ \A x, g : /\ Leaving(Back(items), x, g) = Arriving(items, x, g)
                      /\ Arriving(Back(items), x, g) = Leaving(items, x, g)
         /\ Orderly(items) => Orderly(Back(items))
<1> DEFINE back == Back(items)
<1>1. \A n \in DOMAIN items : items[n] \in Item
  BY SequenceDomain
<1>2. DOMAIN back = DOMAIN items
  BY DEF Back
<1>3. ASSUME NEW n \in DOMAIN items
      PROVE  /\ back[n] \in Item
             /\ back[n].from = items[n].to /\ back[n].to = items[n].from
             /\ back[n].good = items[n].good /\ back[n].quantity = items[n].quantity
  <2>1. back[n] = [items[n] EXCEPT !.from = items[n].to, !.to = items[n].from]
    BY DEF Back
  <2>. QED
    BY <1>1, <2>1 DEF Item
<1>4. back \in Seq(Item)
  <2>1. DOMAIN back = 1..Len(items) /\ Len(items) \in Nat
    BY <1>2, SequenceDomain
  <2>2. back = [n \in 1..Len(items) |-> back[n]]
    BY <2>1 DEF Back
  <2>3. \A n \in 1..Len(items) : back[n] \in Item
    BY <1>2, <1>3, <2>1
  <2>. HIDE DEF back
  <2>. QED
    BY <2>1, <2>2, <2>3
<1>. HIDE DEF back
<1>5. ASSUME NEW x, NEW g
      PROVE  /\ Leaving(back, x, g) = Arriving(items, x, g)
             /\ Arriving(back, x, g) = Leaving(items, x, g)
  <2>1. Outgoing(back, x, g) = Incoming(items, x, g)
    BY <1>2, <1>3 DEF Outgoing, Incoming
  <2>2. Incoming(back, x, g) = Outgoing(items, x, g)
    BY <1>2, <1>3 DEF Outgoing, Incoming
  <2>. QED
    BY <2>1, <2>2 DEF Leaving, Arriving
<1>6. Orderly(items) => Orderly(back)
  BY <1>2, <1>3 DEF Orderly
<1>. QED
  BY <1>4, <1>5, <1>6 DEF back

(* What leaves somewhere arrives somewhere. *)
LEMMA Balanced ==
  ASSUME NEW items \in Seq(Item), NEW g
  PROVE  SumFunction([x \in Places |-> Leaving(items, x, g)])
             = SumFunction([x \in Places |-> Arriving(items, x, g)])
<1> DEFINE S == DOMAIN items
           moved == [n \in S |-> IF items[n].good = g THEN items[n].quantity ELSE 0]
           from == [n \in S |-> items[n].from]
           to == [n \in S |-> items[n].to]
           out == [x \in Places |-> Outgoing(items, x, g)]
           into == [x \in Places |-> Incoming(items, x, g)]
           leaving == [x \in Places |-> Leaving(items, x, g)]
           arriving == [x \in Places |-> Arriving(items, x, g)]
<1>1. IsFiniteSet(S) /\ IsFiniteSet(Places)
  BY SequenceDomain, TransfersAssumption
<1>2. \A n \in S : from[n] \in Places /\ to[n] \in Places /\ moved[n] \in Int
  BY ItemFields
<1>3. \A x \in Places : \A n \in S :
          /\ out[x][n] = IF from[n] = x THEN moved[n] ELSE 0
          /\ into[x][n] = IF to[n] = x THEN moved[n] ELSE 0
  BY DEF Outgoing, Incoming
<1>4. \A x \in Places : /\ leaving[x] = SumFunctionOnSet(out[x], S)
                        /\ arriving[x] = SumFunctionOnSet(into[x], S)
  BY LineQuantities DEF Leaving, Arriving, SumFunction
<1>5. DOMAIN leaving = Places /\ DOMAIN arriving = Places
  OBVIOUS
<1>. HIDE DEF S, moved, from, to, out, into, leaving, arriving
<1>6. SumFunctionOnSet(leaving, Places) = SumFunctionOnSet(moved, S)
  BY <1>1, <1>2, <1>3, <1>4, SumGrouped
<1>7. SumFunctionOnSet(arriving, Places) = SumFunctionOnSet(moved, S)
  BY <1>1, <1>2, <1>3, <1>4, SumGrouped
<1>8. SumFunction(leaving) = SumFunction(arriving)
  BY <1>5, <1>6, <1>7 DEF SumFunction
<1>. QED
  BY <1>8 DEF leaving, arriving

-----------------------------------------------------------------------------
(* Movements *)

(* A transfer that passes the test, line by line, leaves no balance below  *)
(* zero.                                                                   *)
LEMMA BearableIsCovered ==
  ASSUME NEW items \in Seq(Item), NEW straight \in BOOLEAN, Bearable(items, straight),
         available \in [Places -> [Goods -> Nat]], NEW x \in Places, NEW g \in Goods
  PROVE  available[x][g] - Leaving(items, x, g)
             + (IF straight THEN Arriving(items, x, g) ELSE 0) \in Nat
<1> DEFINE out == Outgoing(items, x, g)
           into == Incoming(items, x, g)
           last == Len(items)
<1>1. DOMAIN items = 1..last /\ last \in Nat /\ IsFiniteSet(1..last)
  BY SequenceDomain
<1>2. /\ DOMAIN out = 1..last /\ DOMAIN into = 1..last
      /\ \A n \in 1..last : out[n] \in Int /\ into[n] \in Nat /\ into[n] \in Int
  BY <1>1, LineQuantities
<1>3. Leaving(items, x, g) = SumFunctionOnSet(out, 1..last)
      /\ Arriving(items, x, g) = SumFunctionOnSet(into, 1..last)
  BY <1>2 DEF Leaving, Arriving, SumFunction
<1>4. Leaving(items, x, g) \in Nat /\ Arriving(items, x, g) \in Nat
  BY LineTotals
<1>5. available[x][g] \in Nat
  OBVIOUS
<1>6. CASE last = 0
  <2>1. 1..last = {}
    BY <1>6
  <2>2. Leaving(items, x, g) = 0 /\ Arriving(items, x, g) = 0
    BY <1>3, <2>1, SumEmpty
  <2>. QED
    BY <1>5, <2>2
<1>7. CASE last # 0
  <2>1. last \in DOMAIN items /\ 1..(last - 1) = (1..last) \ {last}
    BY <1>1, <1>7
  <2>2. available[x][g] + (IF straight THEN SumFunctionOnSet(into, 1..(last - 1)) ELSE 0)
            >= SumFunctionOnSet(out, 1..last)
    BY <2>1 DEF Bearable
  <2>3. SumFunctionOnSet(into, 1..last) = SumFunctionOnSet(into, (1..last) \ {last}) + into[last]
    <3>1. 1..last \in SUBSET (1..last) /\ last \in 1..last
      BY <1>1, <1>7
    <3>2. \A n \in 1..last : into[n] \in Int
      BY <1>2
    <3>. HIDE DEF into, last
    <3>. QED
      BY <1>1, <3>1, <3>2, SumRemove
  <2>4. into[last] \in Nat /\ SumFunctionOnSet(into, (1..last) \ {last}) \in Int
    <3>1. (1..last) \ {last} \in SUBSET (1..last) /\ last \in 1..last
      BY <1>1, <1>7
    <3>2. \A n \in 1..last : into[n] \in Int
      BY <1>2
    <3>3. into[last] \in Nat
      BY <1>2, <3>1
    <3>. HIDE DEF into, last
    <3>. QED
      BY <1>1, <3>1, <3>2, <3>3, SumType
  <2> DEFINE before == SumFunctionOnSet(into, (1..last) \ {last})
             l == Leaving(items, x, g)
             a == Arriving(items, x, g)
  <2>5. /\ available[x][g] + (IF straight THEN before ELSE 0) >= l
        /\ a = before + into[last] /\ before \in Int
    BY <1>3, <2>1, <2>2, <2>3, <2>4
  <2>6. l \in Nat /\ a \in Nat
    BY <1>4
  <2>7. available[x][g] - l + (IF straight THEN a ELSE 0) \in Nat
    <3>1. PICK had \in Nat : had = available[x][g]
      BY <1>5
    <3>2. PICK more \in Nat : more = into[last]
      BY <2>4
    <3>. HIDE DEF before, l, a, into
    <3>3. a = before + more /\ before \in Int /\ had + (IF straight THEN before ELSE 0) >= l
      BY <2>5, <3>1, <3>2
    <3>4. CASE straight
      <4>1. had - l + a \in Nat
        BY <2>6, <3>3, <3>4
      <4>. QED
        BY <3>1, <3>4, <4>1
    <3>5. CASE ~straight
      <4>1. had - l + 0 \in Nat
        BY <2>6, <3>3, <3>5
      <4>. QED
        BY <3>1, <3>5, <4>1
    <3>. QED
      BY <3>4, <3>5
  <2>. QED
    BY <2>7 DEF l, a
<1>. QED
  BY <1>6, <1>7

(* Goods that only move between balances stay as many as they were. *)
LEMMA Conserved ==
  ASSUME StockConserved, NEW items \in Seq(Item),
         available \in [Places -> [Goods -> Nat]], transit \in [Places -> [Goods -> Nat]],
         available' \in [Places -> [Goods -> Nat]], transit' \in [Places -> [Goods -> Nat]],
         \/ \A x \in Places, g \in Goods :
               available'[x][g] + transit'[x][g] = available[x][g] + transit[x][g]
         \/ \A x \in Places, g \in Goods :
               available'[x][g] + transit'[x][g] = available[x][g] + transit[x][g]
                   - Leaving(items, x, g) + Arriving(items, x, g)
  PROVE  StockConserved'
<1> SUFFICES ASSUME NEW g \in Goods
             PROVE  SumFunction([x \in Places |-> available'[x][g] + transit'[x][g]])
                        = SumFunction([x \in Places |-> Opening[x][g]])
  BY DEF StockConserved
<1> DEFINE had == [x \in Places |-> available[x][g] + transit[x][g]]
           has == [x \in Places |-> available'[x][g] + transit'[x][g]]
           out == [x \in Places |-> Leaving(items, x, g)]
           into == [x \in Places |-> Arriving(items, x, g)]
<1>1. \A x \in Places : available[x][g] \in Nat /\ transit[x][g] \in Nat
  OBVIOUS
<1>2. \A x \in Places : available'[x][g] \in Nat /\ transit'[x][g] \in Nat
  OBVIOUS
<1>3. \A x \in Places : had[x] \in Int /\ has[x] \in Int /\ out[x] \in Int /\ into[x] \in Int
  BY <1>1, <1>2, LineTotals
<1>4. /\ DOMAIN had = Places /\ DOMAIN has = Places /\ DOMAIN out = Places
      /\ DOMAIN into = Places /\ IsFiniteSet(Places)
  BY TransfersAssumption
<1>5. SumFunction(has) = SumFunction(had)
  <2>1. CASE \A x \in Places : has[x] = had[x]
    <3>. HIDE DEF has, had
    <3>. QED
      BY <1>3, <1>4, <2>1, TotalSame
  <2>2. CASE \A x \in Places : has[x] = had[x] - out[x] + into[x]
    <3> DEFINE both == [x \in Places |-> has[x] + out[x]]
    <3>1. \A x \in Places : both[x] = has[x] + out[x] /\ both[x] = had[x] + into[x]
      BY <1>3, <2>2
    <3>. HIDE DEF both
    <3>2. SumFunction(out) = SumFunction(into)
      BY Balanced
    <3>. HIDE DEF has, had, out, into
    <3>3. SumFunctionOnSet(both, Places)
              = SumFunctionOnSet(has, Places) + SumFunctionOnSet(out, Places)
      BY <1>3, <1>4, <3>1, SumPlus
    <3>4. SumFunctionOnSet(both, Places)
              = SumFunctionOnSet(had, Places) + SumFunctionOnSet(into, Places)
      BY <1>3, <1>4, <3>1, SumPlus
    <3>5. /\ SumFunctionOnSet(has, Places) \in Int /\ SumFunctionOnSet(had, Places) \in Int
          /\ SumFunctionOnSet(out, Places) \in Int
      BY <1>3, <1>4, SumType
    <3>. QED
      BY <1>4, <3>2, <3>3, <3>4, <3>5 DEF SumFunction
  <2>3. CASE \A x \in Places, h \in Goods :
               available'[x][h] + transit'[x][h] = available[x][h] + transit[x][h]
    <3>1. \A x \in Places : has[x] = had[x]
      BY <2>3
    <3>. QED
      BY <2>1, <3>1
  <2>4. CASE \A x \in Places, h \in Goods :
               available'[x][h] + transit'[x][h] = available[x][h] + transit[x][h]
                   - Leaving(items, x, h) + Arriving(items, x, h)
    <3>1. ASSUME NEW x \in Places
          PROVE  has[x] = had[x] - out[x] + into[x]
      <4>1. available'[x][g] + transit'[x][g] = available[x][g] + transit[x][g]
                - Leaving(items, x, g) + Arriving(items, x, g)
        BY <2>4
      <4>2. /\ has[x] = available'[x][g] + transit'[x][g]
            /\ had[x] = available[x][g] + transit[x][g]
            /\ out[x] = Leaving(items, x, g) /\ into[x] = Arriving(items, x, g)
        OBVIOUS
      <4>3. available[x][g] \in Int /\ transit[x][g] \in Int
        BY <1>1
      <4>4. Leaving(items, x, g) \in Int /\ Arriving(items, x, g) \in Int
        BY LineTotals
      <4>. HIDE DEF has, had, out, into
      <4>. QED
        BY <4>1, <4>2, <4>3, <4>4
    <3>. QED
      BY <2>2, <3>1
  <2>. QED
    BY <2>3, <2>4
<1>. QED
  BY <1>5 DEF StockConserved

-----------------------------------------------------------------------------
(* Steps, however stale a save is *)

LEMMA Replaced ==
  ASSUME transfers \in Seq(Transfer), NEW t \in DOMAIN transfers, NEW new \in Transfer,
         transfers' = [transfers EXCEPT ![t] = new]
  PROVE  /\ transfers' \in Seq(Transfer) /\ DOMAIN transfers' = DOMAIN transfers
         /\ transfers'[t] = new
         /\ \A u \in DOMAIN transfers : u # t => transfers'[u] = transfers[u]
<1>1. DOMAIN transfers' = 1..Len(transfers) /\ Len(transfers) \in Nat
  BY SequenceDomain
<1>2. \A u \in 1..Len(transfers) : transfers'[u] \in Transfer
  BY SequenceDomain
<1>3. transfers' = [u \in 1..Len(transfers) |-> transfers'[u]]
  BY <1>1
<1>. QED
  BY <1>1, <1>2, <1>3

LEMMA Appended ==
  ASSUME transfers \in Seq(Transfer), NEW new \in Transfer, transfers' = Append(transfers, new)
  PROVE  /\ transfers' \in Seq(Transfer)
         /\ DOMAIN transfers' = DOMAIN transfers \cup {Len(transfers) + 1}
         /\ Len(transfers) + 1 \notin DOMAIN transfers
         /\ transfers'[Len(transfers) + 1] = new
         /\ \A u \in DOMAIN transfers : transfers'[u] = transfers[u]
<1>1. Len(transfers) \in Nat /\ DOMAIN transfers = 1..Len(transfers)
  BY SequenceDomain
<1>2. transfers' \in Seq(Transfer) /\ Len(transfers') = Len(transfers) + 1
  OBVIOUS
<1>3. DOMAIN transfers' = 1..(Len(transfers) + 1)
  BY <1>2, SequenceDomain
<1>. QED
  BY <1>1, <1>2, <1>3

(* The parts of the invariant that are about balances and about calls.     *)
Balances ==
  available \in [Places -> [Goods -> Nat]] /\ transit \in [Places -> [Goods -> Nat]]

Documents ==
  /\ transfers \in Seq(Transfer)
  /\ \A t \in DOMAIN transfers : /\ Orderly(transfers[t].items)
                                 /\ transfers[t].reversalOf \in 0..(t - 1)

Calls ==
  /\ client \in [Clients -> [op : {"none", "submitted", "approved"}, doc : Nat]]
  /\ \A c \in Clients : client[c].op # "none" => client[c].doc \in DOMAIN transfers
  /\ \A c \in Clients : client[c].op = "none" => client[c].doc = 0

LEMMA InParts == IInv <=> Balances /\ Documents /\ Calls /\ StockConserved
BY Zenon DEF IInv, Balances, Documents, Calls

(* A transfer whose lines stay as they are moves on. *)
LEMMA DocumentMoves ==
  ASSUME Documents, NEW t \in DOMAIN transfers, NEW new \in Transfer,
         transfers' = [transfers EXCEPT ![t] = new],
         new.items = transfers[t].items, new.reversalOf = transfers[t].reversalOf
  PROVE  Documents' /\ DOMAIN transfers' = DOMAIN transfers
<1>1. /\ transfers' \in Seq(Transfer) /\ DOMAIN transfers' = DOMAIN transfers
      /\ transfers'[t] = new
      /\ \A u \in DOMAIN transfers : u # t => transfers'[u] = transfers[u]
  BY Replaced DEF Documents
<1>2. ASSUME NEW u \in DOMAIN transfers
      PROVE  transfers'[u].items = transfers[u].items
             /\ transfers'[u].reversalOf = transfers[u].reversalOf
  BY <1>1
<1>. QED
  BY <1>1, <1>2 DEF Documents

LEMMA DocumentAdded ==
  ASSUME Documents, NEW new \in Transfer, transfers' = Append(transfers, new),
         Orderly(new.items), new.reversalOf \in 0..Len(transfers)
  PROVE  Documents' /\ DOMAIN transfers \subseteq DOMAIN transfers'
<1>1. /\ transfers' \in Seq(Transfer)
      /\ DOMAIN transfers' = DOMAIN transfers \cup {Len(transfers) + 1}
      /\ transfers'[Len(transfers) + 1] = new
      /\ \A u \in DOMAIN transfers : transfers'[u] = transfers[u]
  BY Appended DEF Documents
<1>2. Len(transfers) \in Nat
  BY SequenceDomain DEF Documents
<1>3. (Len(transfers) + 1) - 1 = Len(transfers)
  BY <1>2
<1>. QED
  BY <1>1, <1>3 DEF Documents

LEMMA CallsStay ==
  ASSUME Calls, UNCHANGED client, DOMAIN transfers \subseteq DOMAIN transfers'
  PROVE  Calls'
BY DEF Calls

(* What posting does to the balances. *)
LEMMA MovedBalances ==
  ASSUME Balances, StockConserved, NEW items \in Seq(Item), NEW straight \in BOOLEAN,
         Bearable(items, straight), Moved(items, straight)
  PROVE  /\ Balances' /\ StockConserved'
         /\ \A x \in Places, g \in Goods :
               /\ available'[x][g] = available[x][g] - Leaving(items, x, g)
                                        + (IF straight THEN Arriving(items, x, g) ELSE 0)
               /\ transit'[x][g] = transit[x][g]
                                        + (IF straight THEN 0 ELSE Arriving(items, x, g))
<1>1. \A x \in Places, g \in Goods :
         /\ available'[x][g] = available[x][g] - Leaving(items, x, g)
                                  + (IF straight THEN Arriving(items, x, g) ELSE 0)
         /\ transit'[x][g] = transit[x][g]
                                  + (IF straight THEN 0 ELSE Arriving(items, x, g))
  BY DEF Moved
<1>2. ASSUME NEW x \in Places, NEW g \in Goods
      PROVE  /\ available[x][g] \in Nat /\ transit[x][g] \in Nat
             /\ Leaving(items, x, g) \in Nat /\ Arriving(items, x, g) \in Nat
  BY LineTotals DEF Balances
<1>3. ASSUME NEW x \in Places, NEW g \in Goods
      PROVE  available'[x][g] \in Nat /\ transit'[x][g] \in Nat
  <2>1. available'[x][g] \in Nat
    BY <1>1, BearableIsCovered DEF Balances
  <2>2. transit'[x][g] \in Nat
    BY <1>1, <1>2
  <2>. QED
    BY <2>1, <2>2
<1>4. Balances'
  <2>1. /\ available' = [x \in Places |-> [g \in Goods |-> available'[x][g]]]
        /\ transit' = [x \in Places |-> [g \in Goods |-> transit'[x][g]]]
    BY DEF Moved
  <2>. QED
    BY <1>3, <2>1 DEF Balances
<1>5. ASSUME NEW x \in Places, NEW g \in Goods
      PROVE  available'[x][g] + transit'[x][g] = available[x][g] + transit[x][g]
                 - Leaving(items, x, g) + Arriving(items, x, g)
  <2>1. CASE straight
    BY <1>1, <1>2, <2>1
  <2>2. CASE ~straight
    BY <1>1, <1>2, <2>2
  <2>. QED
    BY <2>1, <2>2
<1>6. StockConserved'
  BY <1>4, <1>5, Conserved DEF Balances
<1>. QED
  BY <1>1, <1>4, <1>6

LEMMA Created ==
  ASSUME IInv, NEW c \in Clients, NEW policy \in Policies, NEW items \in Seq(Item),
         Create(c, policy, items)
  PROVE  IInv'
<1> DEFINE new == [status |-> "draft", policy |-> policy, items |-> items,
                   posted |-> FALSE, received |-> FALSE, reversalOf |-> 0]
<1>1. new \in Transfer /\ Orderly(new.items)
  BY DEF Create, Transfer, Status
<1>2. Balances /\ Documents /\ Calls /\ StockConserved
  BY InParts
<1>3. new.reversalOf \in 0..Len(transfers)
  BY <1>2, SequenceDomain DEF Documents
<1>4. transfers' = Append(transfers, new) /\ UNCHANGED <<available, transit, client>>
  BY DEF Create
<1>. HIDE DEF new
<1>5. Documents' /\ DOMAIN transfers \subseteq DOMAIN transfers'
  BY <1>1, <1>2, <1>3, <1>4, DocumentAdded
<1>6. Calls'
  BY <1>2, <1>4, <1>5, CallsStay
<1>7. Balances' /\ StockConserved'
  BY <1>2, <1>4 DEF Balances, StockConserved
<1>. QED
  BY <1>5, <1>6, <1>7 DEF IInv, Balances, Documents, Calls

LEMMA StatusRead ==
  ASSUME IInv, NEW c \in Clients, NEW t \in DOMAIN transfers, NEW to, ReadStatus(c, t, to)
  PROVE  IInv'
<1>1. Balances /\ Documents /\ Calls /\ StockConserved
  BY InParts
<1>2. /\ UNCHANGED <<available, transit, transfers>> /\ to \in {"submitted", "approved"}
      /\ client' = [client EXCEPT ![c] = [op |-> to, doc |-> t]]
  BY DEF ReadStatus
<1>3. t \in Nat
  BY <1>1, SequenceDomain DEF Documents
<1>4. Calls'
  BY <1>1, <1>2, <1>3 DEF Calls
<1>5. Balances' /\ Documents' /\ StockConserved'
  BY <1>1, <1>2 DEF Balances, Documents, StockConserved
<1>. QED
  BY <1>4, <1>5 DEF IInv, Balances, Documents, Calls

LEMMA StatusSaved ==
  ASSUME IInv, NEW c \in Clients, SaveStatus(c)
  PROVE  IInv'
<1> DEFINE t == client[c].doc
           new == [transfers[t] EXCEPT !.status = client[c].op]
<1>1. Balances /\ Documents /\ Calls /\ StockConserved
  BY InParts
<1>2. /\ UNCHANGED <<available, transit>> /\ transfers' = [transfers EXCEPT ![t] = new]
      /\ client' = [client EXCEPT ![c] = [op |-> "none", doc |-> 0]] /\ client[c].op # "none"
  BY DEF SaveStatus
<1>3. t \in DOMAIN transfers /\ client[c].op \in {"submitted", "approved"}
  BY <1>1, <1>2 DEF Calls
<1>4. transfers[t] \in Transfer
  BY <1>1, <1>3, SequenceDomain DEF Documents
<1>5. new \in Transfer /\ new.items = transfers[t].items
      /\ new.reversalOf = transfers[t].reversalOf
  BY <1>3, <1>4 DEF Transfer, Status
<1>. HIDE DEF new, t
<1>6. Documents' /\ DOMAIN transfers' = DOMAIN transfers
  BY <1>1, <1>2, <1>3, <1>5, DocumentMoves
<1>7. Calls'
  BY <1>1, <1>2, <1>6 DEF Calls
<1>8. Balances' /\ StockConserved'
  BY <1>1, <1>2 DEF Balances, StockConserved
<1>. QED
  BY <1>6, <1>7, <1>8 DEF IInv, Balances, Documents, Calls

LEMMA StatusAllows ==
  /\ \A s : TransferMay(s, "completed") => s \in {"approved", "in_transit"}
  /\ \A s : TransferMay(s, "in_transit") => s = "approved"
  /\ \A s : \A to \in {"submitted", "approved"} :
        TransferMay(s, to) => s \in {"draft", "submitted"}
BY DEF TransferMay

LEMMA TransferFields ==
  ASSUME Documents, NEW t \in DOMAIN transfers
  PROVE  /\ transfers[t] \in Transfer /\ transfers[t].items \in Seq(Item)
         /\ Orderly(transfers[t].items) /\ t \in 1..Len(transfers) /\ Len(transfers) \in Nat
<1>1. transfers[t] \in Transfer /\ t \in 1..Len(transfers) /\ Len(transfers) \in Nat
  BY SequenceDomain DEF Documents
<1>. QED
  BY <1>1 DEF Documents, Transfer

(* The transfer that posting leaves behind. *)
PostedForm(old) ==
  LET straight == old.policy = "immediate"
  IN  [old EXCEPT !.status = IF straight THEN "completed" ELSE "in_transit",
                  !.posted = TRUE, !.received = IF straight THEN TRUE ELSE @]

LEMMA PostFacts ==
  ASSUME IInv, NEW c \in Clients, NEW t \in DOMAIN transfers, Post(c, t)
  PROVE  LET items == transfers[t].items
             straight == transfers[t].policy = "immediate"
         IN  /\ items \in Seq(Item) /\ straight \in BOOLEAN
             /\ TransferMay(transfers[t].status, IF straight THEN "completed" ELSE "in_transit")
             /\ Bearable(items, straight) /\ Moved(items, straight)
             /\ transfers' = [transfers EXCEPT ![t] = PostedForm(transfers[t])]
             /\ PostedForm(transfers[t]) \in Transfer
             /\ UNCHANGED client
<1>1. transfers[t] \in Transfer /\ transfers[t].items \in Seq(Item)
  BY TransferFields DEF IInv, Documents
<1>2. PostedForm(transfers[t]) \in Transfer
  BY <1>1 DEF PostedForm, Transfer, Status
<1>3. transfers' = [transfers EXCEPT ![t] = PostedForm(transfers[t])]
  BY DEF Post, PostedForm
<1>. QED
  BY <1>1, <1>2, <1>3 DEF Post

LEMMA TransferPosted ==
  ASSUME IInv, NEW c \in Clients, NEW t \in DOMAIN transfers, Post(c, t)
  PROVE  IInv'
<1> DEFINE items == transfers[t].items
           straight == transfers[t].policy = "immediate"
           new == PostedForm(transfers[t])
<1>1. Balances /\ Documents /\ Calls /\ StockConserved
  BY InParts
<1>2. /\ items \in Seq(Item) /\ straight \in BOOLEAN
      /\ Bearable(items, straight) /\ Moved(items, straight)
      /\ transfers' = [transfers EXCEPT ![t] = new] /\ new \in Transfer /\ UNCHANGED client
  BY PostFacts
<1>3. new.items = transfers[t].items /\ new.reversalOf = transfers[t].reversalOf
  BY <1>1, TransferFields DEF PostedForm, Transfer
<1>. HIDE DEF items, straight, new
<1>4. Balances' /\ StockConserved'
  BY <1>1, <1>2, MovedBalances
<1>5. Documents' /\ DOMAIN transfers' = DOMAIN transfers
  BY <1>1, <1>2, <1>3, DocumentMoves
<1>6. Calls'
  BY <1>1, <1>2, <1>5, CallsStay
<1>. QED
  BY <1>4, <1>5, <1>6 DEF IInv, Balances, Documents, Calls

ReceivedForm(old) == [old EXCEPT !.status = "completed", !.received = TRUE]

LEMMA ReceiveFacts ==
  ASSUME IInv, NEW c \in Clients, NEW t \in DOMAIN transfers, Receive(c, t)
  PROVE  LET items == transfers[t].items
         IN  /\ items \in Seq(Item)
             /\ TransferMay(transfers[t].status, "completed")
             /\ Balances'
             /\ \A x \in Places, g \in Goods :
                   /\ available'[x][g] = available[x][g] + Arriving(items, x, g)
                   /\ transit'[x][g] = transit[x][g] - Arriving(items, x, g)
             /\ transfers' = [transfers EXCEPT ![t] = ReceivedForm(transfers[t])]
             /\ ReceivedForm(transfers[t]) \in Transfer
             /\ UNCHANGED client
<1> DEFINE items == transfers[t].items
<1>1. transfers[t] \in Transfer /\ items \in Seq(Item)
  BY TransferFields DEF IInv, Documents
<1>2. ReceivedForm(transfers[t]) \in Transfer
  BY <1>1 DEF ReceivedForm, Transfer, Status
<1>3. transfers' = [transfers EXCEPT ![t] = ReceivedForm(transfers[t])]
  BY DEF Receive, ReceivedForm
<1>4. /\ transit' = [x \in Places |-> [g \in Goods |-> transit[x][g] - Arriving(items, x, g)]]
      /\ available' = [x \in Places |-> [g \in Goods |-> available[x][g] + Arriving(items, x, g)]]
      /\ \A x \in Places, g \in Goods : transit[x][g] >= Arriving(items, x, g)
      /\ TransferMay(transfers[t].status, "completed") /\ UNCHANGED client
  BY DEF Receive
<1>5. ASSUME NEW x \in Places, NEW g \in Goods
      PROVE  available'[x][g] \in Nat /\ transit'[x][g] \in Nat
  <2>1. Arriving(items, x, g) \in Nat
    BY <1>1, LineTotals
  <2>2. available[x][g] \in Nat /\ transit[x][g] \in Nat
    BY DEF IInv
  <2>3. transit[x][g] >= Arriving(items, x, g)
    BY <1>4
  <2>4. /\ available'[x][g] = available[x][g] + Arriving(items, x, g)
        /\ transit'[x][g] = transit[x][g] - Arriving(items, x, g)
    BY <1>4
  <2>. QED
    BY <2>1, <2>2, <2>3, <2>4
<1>6. Balances'
  BY <1>4, <1>5 DEF Balances
<1>. QED
  BY <1>1, <1>2, <1>3, <1>4, <1>6

LEMMA TransferReceived ==
  ASSUME IInv, NEW c \in Clients, NEW t \in DOMAIN transfers, Receive(c, t)
  PROVE  IInv'
<1> DEFINE items == transfers[t].items
           new == ReceivedForm(transfers[t])
<1>1. Balances /\ Documents /\ Calls /\ StockConserved
  BY InParts
<1>2. /\ items \in Seq(Item) /\ Balances'
      /\ \A x \in Places, g \in Goods :
            /\ available'[x][g] = available[x][g] + Arriving(items, x, g)
            /\ transit'[x][g] = transit[x][g] - Arriving(items, x, g)
      /\ transfers' = [transfers EXCEPT ![t] = new] /\ new \in Transfer /\ UNCHANGED client
  BY ReceiveFacts
<1>3. new.items = transfers[t].items /\ new.reversalOf = transfers[t].reversalOf
  BY <1>1, TransferFields DEF ReceivedForm, Transfer
<1>. HIDE DEF items, new
<1>4. ASSUME NEW x \in Places, NEW g \in Goods
      PROVE  available'[x][g] + transit'[x][g] = available[x][g] + transit[x][g]
  <2>1. available[x][g] \in Nat /\ transit[x][g] \in Nat /\ Arriving(items, x, g) \in Nat
    BY <1>1, <1>2, LineTotals DEF Balances
  <2>. QED
    BY <1>2, <2>1
<1>5. StockConserved'
  BY <1>1, <1>2, <1>4, Conserved DEF Balances
<1>6. Documents' /\ DOMAIN transfers' = DOMAIN transfers
  BY <1>1, <1>2, <1>3, DocumentMoves
<1>7. Calls'
  BY <1>1, <1>2, <1>6, CallsStay
<1>. QED
  BY <1>2, <1>5, <1>6, <1>7 DEF IInv, Balances, Documents, Calls

(* The reversal of transfer t. *)
ReversalForm(t) ==
  [status |-> "completed", policy |-> "immediate", items |-> Back(transfers[t].items),
   posted |-> TRUE, received |-> TRUE, reversalOf |-> t]

LEMMA ReverseFacts ==
  ASSUME IInv, NEW c \in Clients, NEW t \in DOMAIN transfers, Reverse(c, t)
  PROVE  LET items == Back(transfers[t].items)
         IN  /\ items \in Seq(Item) /\ Bearable(items, TRUE) /\ Moved(items, TRUE)
             /\ transfers' = Append(transfers, ReversalForm(t))
             /\ ReversalForm(t) \in Transfer /\ Orderly(items)
             /\ t \in 0..Len(transfers) /\ UNCHANGED client
<1>1. /\ transfers[t].items \in Seq(Item) /\ Orderly(transfers[t].items)
      /\ t \in 1..Len(transfers) /\ Len(transfers) \in Nat
  BY TransferFields DEF IInv, Documents
<1>2. Back(transfers[t].items) \in Seq(Item) /\ Orderly(Back(transfers[t].items))
  BY <1>1, BackTurns
<1>3. t \in 0..Len(transfers) /\ t \in Nat
  BY <1>1
<1>4. ReversalForm(t) \in Transfer
  BY <1>2, <1>3 DEF ReversalForm, Transfer, Status, Policies
<1>. QED
  BY <1>2, <1>3, <1>4 DEF Reverse, ReversalForm

LEMMA TransferReversed ==
  ASSUME IInv, NEW c \in Clients, NEW t \in DOMAIN transfers, Reverse(c, t)
  PROVE  IInv'
<1> DEFINE items == Back(transfers[t].items)
           new == ReversalForm(t)
<1>1. Balances /\ Documents /\ Calls /\ StockConserved
  BY InParts
<1>2. /\ items \in Seq(Item) /\ Bearable(items, TRUE) /\ Moved(items, TRUE)
      /\ transfers' = Append(transfers, new) /\ new \in Transfer /\ Orderly(items)
      /\ t \in 0..Len(transfers) /\ UNCHANGED client
  BY ReverseFacts
<1>3. new.items = items /\ new.reversalOf = t
  BY DEF ReversalForm
<1>. HIDE DEF items, new
<1>4. Balances' /\ StockConserved'
  BY <1>1, <1>2, MovedBalances
<1>5. Documents' /\ DOMAIN transfers \subseteq DOMAIN transfers'
  BY <1>1, <1>2, <1>3, DocumentAdded
<1>6. Calls'
  BY <1>1, <1>2, <1>5, CallsStay
<1>. QED
  BY <1>4, <1>5, <1>6 DEF IInv, Balances, Documents, Calls

LEMMA Start == Init => IInv
<1> SUFFICES ASSUME Init
             PROVE  IInv
  OBVIOUS
<1>1. Balances
  BY TransfersAssumption DEF Init, Balances
<1>2. Documents
  BY DEF Init, Documents
<1>3. Calls
  BY DEF Init, Calls
<1>4. StockConserved
  <2> SUFFICES ASSUME NEW g \in Goods
               PROVE  SumFunction([x \in Places |-> available[x][g] + transit[x][g]])
                          = SumFunction([x \in Places |-> Opening[x][g]])
    BY DEF StockConserved
  <2>1. \A x \in Places : available[x][g] + transit[x][g] = Opening[x][g]
    BY TransfersAssumption DEF Init
  <2>2. [x \in Places |-> available[x][g] + transit[x][g]] = [x \in Places |-> Opening[x][g]]
    BY <2>1
  <2>. QED
    BY <2>2
<1>. QED
  BY <1>1, <1>2, <1>3, <1>4, InParts

(* A line is created with the fields of its schema. *)
LEMMA CreatedLines ==
  ASSUME NEW n \in 1..MaxItems, NEW items \in [1..n -> Item]
  PROVE  items \in Seq(Item)
BY TransfersAssumption

LEMMA Steps ==
  ASSUME IInv, [Next]_vars
  PROVE  IInv'
<1>1. CASE UNCHANGED vars
  BY <1>1 DEF IInv, vars, StockConserved
<1>2. ASSUME NEW c \in Clients, Step(c)
      PROVE  IInv'
  BY <1>2, CreatedLines, Created, StatusRead, StatusSaved, TransferPosted, TransferReceived,
     TransferReversed DEF Step
<1>. QED
  BY <1>1, <1>2 DEF Next

-----------------------------------------------------------------------------
(* What needs nothing of the calls *)

LEMMA StepIsByACall == [Next]_vars => (UNCHANGED vars \/ \E c \in Clients : Step(c))
BY DEF Next

(* The inductive invariant holds in every state, however calls cross. *)
THEOREM TransfersInvariant == Spec => []IInv
BY Start, Steps, PTL DEF Spec

LEMMA InvariantTypes == IInv => TypeOK
<1> SUFFICES ASSUME IInv
             PROVE  TypeOK
  OBVIOUS
<1>1. Balances /\ Documents /\ Calls
  BY InParts
<1>2. ASSUME NEW t \in DOMAIN transfers
      PROVE  /\ transfers[t].status \in Status /\ transfers[t].policy \in Policies
             /\ transfers[t].items \in Seq(Item) /\ Orderly(transfers[t].items)
             /\ transfers[t].posted \in BOOLEAN /\ transfers[t].received \in BOOLEAN
             /\ transfers[t].reversalOf \in 0..(t - 1)
  BY <1>1, TransferFields DEF Transfer, Documents
<1>3. ASSUME NEW c \in Clients
      PROVE  /\ client[c].op \in {"none", "submitted", "approved"}
             /\ client[c].doc \in 0..Len(transfers)
  <2>1. client[c].op \in {"none", "submitted", "approved"}
    BY <1>1 DEF Calls
  <2>2. DOMAIN transfers = 1..Len(transfers) /\ Len(transfers) \in Nat
    BY <1>1, SequenceDomain DEF Documents
  <2>3. client[c].doc \in DOMAIN transfers \/ client[c].doc = 0
    BY <1>1, <2>1 DEF Calls
  <2>. QED
    BY <2>1, <2>2, <2>3
<1>. QED
  BY <1>1, <1>2, <1>3 DEF TypeOK, Balances

(* No balance is ever negative, even between the lines of a transfer that  *)
(* take from a location what others bring there.                           *)
THEOREM TransferTypes == Spec => []TypeOK
BY TransfersInvariant, InvariantTypes, PTL

(* Goods are neither made nor lost, not even when a stale status is saved  *)
(* and a transfer is posted or received again.                             *)
THEOREM GoodsAreConserved == Spec => []StockConserved
<1>1. IInv => StockConserved
  BY DEF IInv
<1>. QED
  BY <1>1, TransfersInvariant, PTL

(* A step that adds a transfer creates one or reverses one. *)
Undoes ==
  \A t \in (DOMAIN transfers') \ DOMAIN transfers :
     LET of == transfers'[t].reversalOf IN
     of # 0 =>
        \A x \in Places, g \in Goods :
           available'[x][g] - available[x][g] =
               Leaving(transfers[of].items, x, g) - Arriving(transfers[of].items, x, g)

LEMMA ReversalMoves ==
  ASSUME IInv, NEW c \in Clients, NEW of \in DOMAIN transfers, Reverse(c, of)
  PROVE  Undoes
<1> DEFINE items == transfers[of].items
<1>1. Balances /\ Documents /\ StockConserved
  BY InParts
<1>2. /\ Back(items) \in Seq(Item) /\ Bearable(Back(items), TRUE) /\ Moved(Back(items), TRUE)
      /\ transfers' = Append(transfers, ReversalForm(of)) /\ ReversalForm(of) \in Transfer
  BY ReverseFacts
<1>3. items \in Seq(Item)
  BY <1>1, TransferFields
<1>. HIDE DEF items
<1>4. ASSUME NEW x \in Places, NEW g \in Goods
      PROVE  available'[x][g] - available[x][g]
                 = Leaving(items, x, g) - Arriving(items, x, g)
  <2>1. available'[x][g] = available[x][g] - Leaving(Back(items), x, g)
                               + Arriving(Back(items), x, g)
    BY <1>1, <1>2, MovedBalances
  <2>2. Leaving(Back(items), x, g) = Arriving(items, x, g)
        /\ Arriving(Back(items), x, g) = Leaving(items, x, g)
    BY <1>3, BackTurns
  <2>3. available[x][g] \in Int /\ Leaving(items, x, g) \in Int /\ Arriving(items, x, g) \in Int
    BY <1>1, <1>3, LineTotals DEF Balances
  <2>. QED
    BY <2>1, <2>2, <2>3
<1>5. /\ DOMAIN transfers' = DOMAIN transfers \cup {Len(transfers) + 1}
      /\ transfers'[Len(transfers) + 1] = ReversalForm(of)
  BY <1>1, <1>2, Appended DEF Documents
<1>6. ReversalForm(of).reversalOf = of
  BY DEF ReversalForm
<1>. QED
  BY <1>4, <1>5, <1>6 DEF Undoes, items

LEMMA StepUndoes ==
  ASSUME IInv, [Next]_vars
  PROVE  Undoes
<1>1. Balances /\ Documents /\ Calls
  BY InParts
<1>2. CASE DOMAIN transfers' = DOMAIN transfers
  BY <1>2 DEF Undoes
<1>3. ASSUME NEW c \in Clients, NEW policy \in Policies, NEW items \in Seq(Item),
             Create(c, policy, items)
      PROVE  Undoes
  <2> DEFINE new == [status |-> "draft", policy |-> policy, items |-> items,
                     posted |-> FALSE, received |-> FALSE, reversalOf |-> 0]
  <2>1. transfers' = Append(transfers, new) /\ new.reversalOf = 0 /\ new \in Transfer
    BY <1>3 DEF Create, Transfer, Status
  <2>. HIDE DEF new
  <2>2. DOMAIN transfers' = DOMAIN transfers \cup {Len(transfers) + 1}
        /\ transfers'[Len(transfers) + 1] = new
    BY <1>1, <2>1, Appended DEF Documents
  <2>. QED
    BY <2>1, <2>2 DEF Undoes
<1>4. ASSUME NEW c \in Clients, Step(c)
      PROVE  Undoes
  <2>1. ASSUME NEW t \in DOMAIN transfers, \/ \E to : ReadStatus(c, t, to)
                                           \/ Post(c, t) \/ Receive(c, t)
        PROVE  DOMAIN transfers' = DOMAIN transfers
    BY <2>1 DEF ReadStatus, Post, Receive
  <2>2. ASSUME SaveStatus(c)
        PROVE  DOMAIN transfers' = DOMAIN transfers
    BY <2>2 DEF SaveStatus
  <2>. QED
    BY <1>2, <1>3, <1>4, <2>1, <2>2, CreatedLines, ReversalMoves DEF Step
<1>5. CASE UNCHANGED vars
  BY <1>2, <1>5 DEF vars
<1>. QED
  BY <1>4, <1>5, StepIsByACall

(* A reversal moves every balance by the opposite of what its original     *)
(* came to.                                                                *)
THEOREM ReversalsUndo == Spec => ReversalUndoes
<1>1. IInv /\ [Next]_vars =>
         [\A t \in (DOMAIN transfers') \ DOMAIN transfers :
             LET of == transfers'[t].reversalOf IN
             of # 0 =>
                \A x \in Places, g \in Goods :
                   available'[x][g] - available[x][g] =
                       Leaving(transfers[of].items, x, g)
                           - Arriving(transfers[of].items, x, g)]_vars
  BY StepUndoes DEF Undoes
<1>. QED
  BY <1>1, TransfersInvariant, PTL DEF Spec, ReversalUndoes

-----------------------------------------------------------------------------
(* Totals over sets of transfers *)

TakenIn(ts, S, x, g)   == SumFunction([t \in S |-> Leaving(ts[t].items, x, g)])
BroughtIn(ts, S, x, g) == SumFunction([t \in S |-> Arriving(ts[t].items, x, g)])

LEMMA TotalsType ==
  ASSUME NEW ts, NEW S, IsFiniteSet(S), \A t \in S : ts[t].items \in Seq(Item), NEW x, NEW g
  PROVE  TakenIn(ts, S, x, g) \in Int /\ BroughtIn(ts, S, x, g) \in Int
<1> DEFINE took == [t \in S |-> Leaving(ts[t].items, x, g)]
           brought == [t \in S |-> Arriving(ts[t].items, x, g)]
<1>1. /\ DOMAIN took = S /\ DOMAIN brought = S
      /\ \A t \in S : took[t] \in Int /\ brought[t] \in Int
  BY LineTotals
<1>. HIDE DEF took, brought
<1>2. SumFunction(took) \in Int /\ SumFunction(brought) \in Int
  BY <1>1, TotalInt
<1>. QED
  BY <1>2 DEF TakenIn, BroughtIn, took, brought

(* The totals over a set depend on the lines of its transfers only ...     *)
LEMMA TotalsStay ==
  ASSUME NEW old, NEW ts, NEW S, \A t \in S : ts[t].items = old[t].items, NEW x, NEW g
  PROVE  TakenIn(ts, S, x, g) = TakenIn(old, S, x, g)
         /\ BroughtIn(ts, S, x, g) = BroughtIn(old, S, x, g)
<1>1. /\ [t \in S |-> Leaving(ts[t].items, x, g)] = [t \in S |-> Leaving(old[t].items, x, g)]
      /\ [t \in S |-> Arriving(ts[t].items, x, g)] = [t \in S |-> Arriving(old[t].items, x, g)]
  OBVIOUS
<1>. QED
  BY <1>1 DEF TakenIn, BroughtIn

(* ... and grow by what those of a transfer that joins come to.            *)
LEMMA TotalsGrow ==
  ASSUME NEW ts, NEW S, IsFiniteSet(S), NEW u, u \notin S,
         \A t \in S \cup {u} : ts[t].items \in Seq(Item), NEW x, NEW g
  PROVE  /\ TakenIn(ts, S \cup {u}, x, g)
                = TakenIn(ts, S, x, g) + Leaving(ts[u].items, x, g)
         /\ BroughtIn(ts, S \cup {u}, x, g)
                = BroughtIn(ts, S, x, g) + Arriving(ts[u].items, x, g)
<1> DEFINE took(T) == [t \in T |-> Leaving(ts[t].items, x, g)]
           brought(T) == [t \in T |-> Arriving(ts[t].items, x, g)]
           T == S \cup {u}
<1>1. /\ DOMAIN took(S) = S /\ DOMAIN took(T) = S \cup {u}
      /\ \A t \in S : took(S)[t] \in Int /\ took(T)[t] = took(S)[t]
      /\ took(T)[u] = Leaving(ts[u].items, x, g) /\ took(T)[u] \in Int
  BY LineTotals
<1>2. /\ DOMAIN brought(S) = S /\ DOMAIN brought(T) = S \cup {u}
      /\ \A t \in S : brought(S)[t] \in Int /\ brought(T)[t] = brought(S)[t]
      /\ brought(T)[u] = Arriving(ts[u].items, x, g) /\ brought(T)[u] \in Int
  BY LineTotals
<1>. HIDE DEF took, brought, T
<1>3. SumFunction(took(T)) = SumFunction(took(S)) + took(T)[u]
  BY <1>1, TotalAdd
<1>4. SumFunction(brought(T)) = SumFunction(brought(S)) + brought(T)[u]
  BY <1>2, TotalAdd
<1>. QED
  BY <1>1, <1>2, <1>3, <1>4 DEF TakenIn, BroughtIn, took, brought, T

LEMMA Several ==
  ASSUME Documents
  PROVE  /\ IsFiniteSet(Posted) /\ IsFiniteSet(Received)
         /\ IsFiniteSet(Sent) /\ IsFiniteSet(Fetched)
         /\ Posted \subseteq DOMAIN transfers /\ Received \subseteq DOMAIN transfers
         /\ Sent \subseteq DOMAIN transfers /\ Fetched \subseteq DOMAIN transfers
         /\ \A t \in DOMAIN transfers : transfers[t].items \in Seq(Item)
<1>1. IsFiniteSet(DOMAIN transfers) /\ \A t \in DOMAIN transfers : transfers[t].items \in Seq(Item)
  BY SequenceDomain, TransferFields DEF Documents
<1>2. /\ Posted \subseteq DOMAIN transfers /\ Received \subseteq DOMAIN transfers
      /\ Sent \subseteq DOMAIN transfers /\ Fetched \subseteq DOMAIN transfers
  BY DEF Posted, Received, Sent, Fetched
<1>. QED
  BY <1>1, <1>2, FS_Subset

SameLines == \A t \in DOMAIN transfers : transfers'[t].items = transfers[t].items

LEMMA TotalsKept ==
  ASSUME Documents, SameLines, NEW S, S \subseteq DOMAIN transfers, IsFiniteSet(S),
         NEW x, NEW g
  PROVE  /\ TakenIn(transfers', S, x, g) = TakenIn(transfers, S, x, g)
         /\ BroughtIn(transfers', S, x, g) = BroughtIn(transfers, S, x, g)
         /\ TakenIn(transfers, S, x, g) \in Int /\ BroughtIn(transfers, S, x, g) \in Int
<1>1. \A t \in S : transfers[t].items \in Seq(Item) /\ transfers'[t].items = transfers[t].items
  BY Several DEF SameLines
<1>2. TakenIn(transfers, S, x, g) \in Int /\ BroughtIn(transfers, S, x, g) \in Int
  BY <1>1, TotalsType
<1>3. /\ TakenIn(transfers', S, x, g) = TakenIn(transfers, S, x, g)
      /\ BroughtIn(transfers', S, x, g) = BroughtIn(transfers, S, x, g)
  BY <1>1, TotalsStay
<1>. QED
  BY <1>2, <1>3

Grow(S, u) ==
  \A x, g : /\ TakenIn(transfers', S \cup {u}, x, g)
                  = TakenIn(transfers, S, x, g) + Leaving(transfers'[u].items, x, g)
            /\ BroughtIn(transfers', S \cup {u}, x, g)
                  = BroughtIn(transfers, S, x, g) + Arriving(transfers'[u].items, x, g)

LEMMA TotalsJoined ==
  ASSUME Documents, SameLines, NEW S, S \subseteq DOMAIN transfers, IsFiniteSet(S),
         NEW u, u \notin S, transfers'[u].items \in Seq(Item)
  PROVE  Grow(S, u)
<1> SUFFICES ASSUME NEW x, NEW g
             PROVE  /\ TakenIn(transfers', S \cup {u}, x, g)
                           = TakenIn(transfers, S, x, g) + Leaving(transfers'[u].items, x, g)
                    /\ BroughtIn(transfers', S \cup {u}, x, g)
                           = BroughtIn(transfers, S, x, g) + Arriving(transfers'[u].items, x, g)
  BY DEF Grow
<1>1. \A t \in S : transfers[t].items \in Seq(Item) /\ transfers'[t].items = transfers[t].items
  BY Several DEF SameLines
<1>2. \A t \in S \cup {u} : transfers'[t].items \in Seq(Item)
  BY <1>1
<1>3. /\ TakenIn(transfers', S \cup {u}, x, g)
             = TakenIn(transfers', S, x, g) + Leaving(transfers'[u].items, x, g)
      /\ BroughtIn(transfers', S \cup {u}, x, g)
             = BroughtIn(transfers', S, x, g) + Arriving(transfers'[u].items, x, g)
  BY <1>2, TotalsGrow
<1>. QED
  BY <1>3, TotalsKept

(* Transfer u joins some of the four sets ...                              *)
Joining(u, p, r, s, f) ==
  /\ Posted' = IF p THEN Posted \cup {u} ELSE Posted
  /\ Received' = IF r THEN Received \cup {u} ELSE Received
  /\ Sent' = IF s THEN Sent \cup {u} ELSE Sent
  /\ Fetched' = IF f THEN Fetched \cup {u} ELSE Fetched
  /\ p => u \notin Posted
  /\ r => u \notin Received
  /\ s => u \notin Sent
  /\ f => u \notin Fetched

(* ... and the balances move by what its lines come to.                    *)
Moving(items, p, r, s, f) ==
  \A x \in Places, g \in Goods :
     /\ available'[x][g] = available[x][g] - (IF p THEN Leaving(items, x, g) ELSE 0)
                              + (IF r THEN Arriving(items, x, g) ELSE 0)
     /\ transit'[x][g] = transit[x][g] + (IF s THEN Arriving(items, x, g) ELSE 0)
                              - (IF f THEN Arriving(items, x, g) ELSE 0)

LEMMA StillMatches ==
  ASSUME IInv, StockMatchesTransfers, Balances', NEW u, NEW items \in Seq(Item),
         SameLines, transfers'[u].items = items,
         NEW p \in BOOLEAN, NEW r \in BOOLEAN, NEW s \in BOOLEAN, NEW f \in BOOLEAN,
         Joining(u, p, r, s, f), Moving(items, p, r, s, f)
  PROVE  StockMatchesTransfers'
<1> DEFINE l(x, g) == Leaving(items, x, g)
           a(x, g) == Arriving(items, x, g)
<1>1. Balances /\ Documents
  BY InParts
<1>2. ASSUME NEW x \in Places, NEW g \in Goods
      PROVE  /\ TakenIn(transfers', Posted', x, g)
                    = TakenIn(transfers, Posted, x, g) + (IF p THEN l(x, g) ELSE 0)
             /\ BroughtIn(transfers', Received', x, g)
                    = BroughtIn(transfers, Received, x, g) + (IF r THEN a(x, g) ELSE 0)
             /\ BroughtIn(transfers', Sent', x, g)
                    = BroughtIn(transfers, Sent, x, g) + (IF s THEN a(x, g) ELSE 0)
             /\ BroughtIn(transfers', Fetched', x, g)
                    = BroughtIn(transfers, Fetched, x, g) + (IF f THEN a(x, g) ELSE 0)
             /\ TakenIn(transfers, Posted, x, g) \in Int
             /\ BroughtIn(transfers, Received, x, g) \in Int
             /\ BroughtIn(transfers, Sent, x, g) \in Int
             /\ BroughtIn(transfers, Fetched, x, g) \in Int
  <2>1. ASSUME NEW S, NEW added \in BOOLEAN, S \subseteq DOMAIN transfers, IsFiniteSet(S),
               added => u \notin S, NEW T, T = IF added THEN S \cup {u} ELSE S
        PROVE  /\ TakenIn(transfers', T, x, g)
                      = TakenIn(transfers, S, x, g) + (IF added THEN l(x, g) ELSE 0)
               /\ BroughtIn(transfers', T, x, g)
                      = BroughtIn(transfers, S, x, g) + (IF added THEN a(x, g) ELSE 0)
               /\ TakenIn(transfers, S, x, g) \in Int /\ BroughtIn(transfers, S, x, g) \in Int
    <3>1. /\ TakenIn(transfers', S, x, g) = TakenIn(transfers, S, x, g)
          /\ BroughtIn(transfers', S, x, g) = BroughtIn(transfers, S, x, g)
          /\ TakenIn(transfers, S, x, g) \in Int /\ BroughtIn(transfers, S, x, g) \in Int
      BY <1>1, <2>1, TotalsKept
    <3>2. CASE added
      <4>1. S \subseteq DOMAIN transfers /\ IsFiniteSet(S) /\ u \notin S
        BY <2>1, <3>2
      <4>2. transfers'[u].items \in Seq(Item)
        OBVIOUS
      <4>3. Grow(S, u)
        BY <1>1, <4>1, <4>2, TotalsJoined
      <4>. QED
        BY <2>1, <3>1, <3>2, <4>3 DEF Grow
    <3>3. CASE ~added
      BY <2>1, <3>1, <3>3
    <3>. QED
      BY <3>2, <3>3
  <2>. HIDE DEF l, a
  <2>2. /\ TakenIn(transfers', Posted', x, g)
               = TakenIn(transfers, Posted, x, g) + (IF p THEN l(x, g) ELSE 0)
        /\ TakenIn(transfers, Posted, x, g) \in Int
    BY <1>1, <2>1, Several DEF Joining
  <2>3. /\ BroughtIn(transfers', Received', x, g)
               = BroughtIn(transfers, Received, x, g) + (IF r THEN a(x, g) ELSE 0)
        /\ BroughtIn(transfers, Received, x, g) \in Int
    BY <1>1, <2>1, Several DEF Joining
  <2>4. /\ BroughtIn(transfers', Sent', x, g)
               = BroughtIn(transfers, Sent, x, g) + (IF s THEN a(x, g) ELSE 0)
        /\ BroughtIn(transfers, Sent, x, g) \in Int
    BY <1>1, <2>1, Several DEF Joining
  <2>5. /\ BroughtIn(transfers', Fetched', x, g)
               = BroughtIn(transfers, Fetched, x, g) + (IF f THEN a(x, g) ELSE 0)
        /\ BroughtIn(transfers, Fetched, x, g) \in Int
    BY <1>1, <2>1, Several DEF Joining
  <2>. QED
    BY <2>2, <2>3, <2>4, <2>5
<1>3. ASSUME NEW x \in Places, NEW g \in Goods
      PROVE  /\ available'[x][g] = Opening[x][g] - TakenIn(transfers', Posted', x, g)
                                       + BroughtIn(transfers', Received', x, g)
             /\ transit'[x][g] = BroughtIn(transfers', Sent', x, g)
                                       - BroughtIn(transfers', Fetched', x, g)
  <2>1. /\ available[x][g] = Opening[x][g] - TakenIn(transfers, Posted, x, g)
                                 + BroughtIn(transfers, Received, x, g)
        /\ transit[x][g] = BroughtIn(transfers, Sent, x, g)
                                 - BroughtIn(transfers, Fetched, x, g)
    BY DEF StockMatchesTransfers, TakenFrom, BroughtTo, TakenIn, BroughtIn
  <2>2. /\ available'[x][g] = available[x][g] - (IF p THEN l(x, g) ELSE 0)
                                   + (IF r THEN a(x, g) ELSE 0)
        /\ transit'[x][g] = transit[x][g] + (IF s THEN a(x, g) ELSE 0)
                                   - (IF f THEN a(x, g) ELSE 0)
    BY DEF Moving
  <2>3. l(x, g) \in Int /\ a(x, g) \in Int /\ Opening[x][g] \in Int
    BY LineTotals, TransfersAssumption
  <2>. HIDE DEF l, a
  <2> DEFINE o == Opening[x][g]
             out == TakenIn(transfers, Posted, x, g)
             in == BroughtIn(transfers, Received, x, g)
             sent == BroughtIn(transfers, Sent, x, g)
             fetched == BroughtIn(transfers, Fetched, x, g)
             dp == IF p THEN l(x, g) ELSE 0
             dr == IF r THEN a(x, g) ELSE 0
             ds == IF s THEN a(x, g) ELSE 0
             df == IF f THEN a(x, g) ELSE 0
  <2>4. dp \in Int /\ dr \in Int /\ ds \in Int /\ df \in Int
    BY <2>3
  <2>5. /\ TakenIn(transfers', Posted', x, g) = out + dp
        /\ BroughtIn(transfers', Received', x, g) = in + dr
        /\ BroughtIn(transfers', Sent', x, g) = sent + ds
        /\ BroughtIn(transfers', Fetched', x, g) = fetched + df
        /\ out \in Int /\ in \in Int /\ sent \in Int /\ fetched \in Int
    BY <1>2
  <2>6. /\ available'[x][g] = available[x][g] - dp + dr
        /\ transit'[x][g] = transit[x][g] + ds - df
        /\ available[x][g] = o - out + in /\ transit[x][g] = sent - fetched /\ o \in Int
    BY <2>1, <2>2, <2>3
  <2>. HIDE DEF o, out, in, sent, fetched, dp, dr, ds, df
  <2>7. o - (out + dp) + (in + dr) = ((o - out + in) - dp) + dr
    BY <2>4, <2>5, <2>6
  <2>8. (sent + ds) - (fetched + df) = (sent - fetched) + ds - df
    BY <2>4, <2>5
  <2>9. /\ available'[x][g] = o - (out + dp) + (in + dr)
        /\ transit'[x][g] = (sent + ds) - (fetched + df)
    BY <2>6, <2>7, <2>8
  <2>. QED
    BY <2>5, <2>9 DEF o
<1>4. ASSUME NEW x \in Places, NEW g \in Goods
      PROVE  available'[x][g] >= 0 /\ transit'[x][g] >= 0
  BY DEF Balances
<1>. QED
  BY <1>3, <1>4 DEF StockMatchesTransfers, TakenFrom, BroughtTo, TakenIn, BroughtIn

-----------------------------------------------------------------------------
(* Steps when no save is stale *)

LEMMA Members ==
  \A t : /\ t \in Posted <=> t \in DOMAIN transfers /\ transfers[t].posted
         /\ t \in Received <=> t \in DOMAIN transfers /\ transfers[t].received
         /\ t \in Sent <=> t \in Posted /\ transfers[t].policy = "in_transit"
         /\ t \in Fetched <=> t \in Received /\ ~(t \in Posted /\ transfers[t].policy = "immediate")
BY DEF Posted, Received, Sent, Fetched

LEMMA MembersAfter ==
  \A t : /\ t \in Posted' <=> t \in DOMAIN transfers' /\ transfers'[t].posted
         /\ t \in Received' <=> t \in DOMAIN transfers' /\ transfers'[t].received
         /\ t \in Sent' <=> t \in Posted' /\ transfers'[t].policy = "in_transit"
         /\ t \in Fetched' <=> /\ t \in Received'
                             /\ ~(t \in Posted' /\ transfers'[t].policy = "immediate")
BY DEF Posted, Received, Sent, Fetched

(* Who joins which set when a transfer that has not been received yet, and *)
(* was posted to travel if at all, moves on; or when one is added.         *)
LEMMA Joins ==
  ASSUME Documents, NEW u, NEW new \in Transfer,
         \/ /\ u \in DOMAIN transfers /\ transfers' = [transfers EXCEPT ![u] = new]
            /\ new.policy = transfers[u].policy /\ ~transfers[u].received
            /\ transfers[u].posted => transfers[u].policy = "in_transit" /\ new.posted
         \/ u = Len(transfers) + 1 /\ transfers' = Append(transfers, new)
  PROVE  /\ Posted' = IF new.posted THEN Posted \cup {u} ELSE Posted
         /\ Received' = IF new.received THEN Received \cup {u} ELSE Received
         /\ Sent' = IF new.posted /\ new.policy = "in_transit" THEN Sent \cup {u} ELSE Sent
         /\ Fetched' = IF new.received /\ ~(new.posted /\ new.policy = "immediate")
                       THEN Fetched \cup {u} ELSE Fetched
         /\ u \notin Received
<1>1. /\ u \in DOMAIN transfers' /\ transfers'[u] = new
      /\ \A t \in DOMAIN transfers : t # u => transfers'[t] = transfers[t]
      /\ \A t : t # u => (t \in DOMAIN transfers' <=> t \in DOMAIN transfers)
      /\ u \in DOMAIN transfers =>
            /\ new.policy = transfers[u].policy /\ ~transfers[u].received
            /\ transfers[u].posted => transfers[u].policy = "in_transit" /\ new.posted
  BY Replaced, Appended DEF Documents
<1>2. u \in Posted => new.posted /\ new.policy = "in_transit"
  BY <1>1, Members
<1>3. u \notin Received /\ u \notin Fetched
  BY <1>1, Members
<1>4. \A t : t # u => /\ t \in Posted' <=> t \in Posted
                      /\ t \in Received' <=> t \in Received
                      /\ t \in Sent' <=> t \in Sent
                      /\ t \in Fetched' <=> t \in Fetched
  BY <1>1, Members, MembersAfter
<1>5. /\ u \in Posted' <=> new.posted
      /\ u \in Received' <=> new.received
      /\ u \in Sent' <=> new.posted /\ new.policy = "in_transit"
      /\ u \in Fetched' <=> new.received /\ ~(new.posted /\ new.policy = "immediate")
  BY <1>1, MembersAfter
<1>6. u \in Sent => new.posted /\ new.policy = "in_transit"
  BY <1>2, Members
<1>7. Posted' = IF new.posted
               THEN Posted \cup {u} ELSE Posted
  <2>1. \A t : t \in Posted' <=> t \in Posted \/ (t = u /\ new.posted)
    BY <1>2, <1>4, <1>5
  <2>. QED
    BY <2>1
<1>8. Received' = IF new.received
               THEN Received \cup {u} ELSE Received
  <2>1. \A t : t \in Received' <=> t \in Received \/ (t = u /\ new.received)
    BY <1>3, <1>4, <1>5
  <2>. QED
    BY <2>1
<1>9. Sent' = IF new.posted /\ new.policy = "in_transit"
               THEN Sent \cup {u} ELSE Sent
  <2>1. \A t : t \in Sent' <=> t \in Sent \/ (t = u /\ new.posted /\ new.policy = "in_transit")
    BY <1>4, <1>5, <1>6
  <2>. QED
    BY <2>1
<1>10. Fetched' = IF new.received /\ ~(new.posted /\ new.policy = "immediate")
               THEN Fetched \cup {u} ELSE Fetched
  <2>1. \A t : t \in Fetched' <=>
                 \/ t \in Fetched
                 \/ t = u /\ new.received /\ ~(new.posted /\ new.policy = "immediate")
    BY <1>3, <1>4, <1>5
  <2>. QED
    BY <2>1
<1>. QED
  BY <1>3, <1>7, <1>8, <1>9, <1>10

(* A step that leaves the lines of every transfer alone, changes or adds   *)
(* transfer u, and moves the balances accordingly.                         *)
LEMMA StaysFresh ==
  ASSUME FreshInv, IInv', NEW u, NEW new \in Transfer,
         \/ /\ u \in DOMAIN transfers /\ transfers' = [transfers EXCEPT ![u] = new]
            /\ new.items = transfers[u].items /\ new.policy = transfers[u].policy
            /\ ~transfers[u].received
            /\ transfers[u].posted => transfers[u].policy = "in_transit" /\ new.posted
         \/ u = Len(transfers) + 1 /\ transfers' = Append(transfers, new),
         Happened(new),
         LET p == new.posted /\ u \notin Posted
             r == new.received
             s == new.posted /\ new.policy = "in_transit" /\ u \notin Sent
             f == new.received /\ ~(new.posted /\ new.policy = "immediate")
         IN  Moving(new.items, p, r, s, f)
  PROVE  FreshInv'
<1> DEFINE p == new.posted /\ u \notin Posted
           r == new.received
           s == new.posted /\ new.policy = "in_transit" /\ u \notin Sent
           f == new.received /\ ~(new.posted /\ new.policy = "immediate")
<1>1. /\ IInv /\ Documents /\ StockMatchesTransfers
      /\ \A t \in DOMAIN transfers : Happened(transfers[t])
  BY DEF FreshInv, IInv, Documents
<1>2. /\ u \in DOMAIN transfers' /\ transfers'[u] = new
      /\ \A t \in DOMAIN transfers : t # u => transfers'[t] = transfers[t]
      /\ \A t \in DOMAIN transfers' : t # u => t \in DOMAIN transfers
      /\ u \in DOMAIN transfers => new.items = transfers[u].items
  BY <1>1, Replaced, Appended DEF Documents
<1>3. /\ Posted' = IF new.posted THEN Posted \cup {u} ELSE Posted
      /\ Received' = IF new.received THEN Received \cup {u} ELSE Received
      /\ Sent' = IF new.posted /\ new.policy = "in_transit" THEN Sent \cup {u} ELSE Sent
      /\ Fetched' = IF new.received /\ ~(new.posted /\ new.policy = "immediate")
                    THEN Fetched \cup {u} ELSE Fetched
      /\ u \notin Received
  BY <1>1, Joins
<1>4. Joining(u, p, r, s, f)
  <2>1. Posted' = IF p THEN Posted \cup {u} ELSE Posted
    BY <1>3
  <2>2. Received' = IF r THEN Received \cup {u} ELSE Received
    BY <1>3
  <2>3. Sent' = IF s THEN Sent \cup {u} ELSE Sent
    BY <1>3
  <2>4. Fetched' = IF f THEN Fetched \cup {u} ELSE Fetched
    BY <1>3
  <2>5. (p => u \notin Posted) /\ (r => u \notin Received) /\ (s => u \notin Sent)
    BY <1>3
  <2>6. f => u \notin Fetched
    BY <1>3, Members
  <2>. HIDE DEF p, r, s, f
  <2>. QED
    BY <2>1, <2>2, <2>3, <2>4, <2>5, <2>6 DEF Joining
<1>5. p \in BOOLEAN /\ r \in BOOLEAN /\ s \in BOOLEAN /\ f \in BOOLEAN
  BY DEF Transfer
<1>6. SameLines /\ transfers'[u].items = new.items /\ new.items \in Seq(Item)
  BY <1>2 DEF SameLines, Transfer
<1>7. Moving(new.items, p, r, s, f)
  OBVIOUS
<1>8. Balances'
  BY DEF IInv, Balances
<1>. HIDE DEF p, r, s, f
<1>9. StockMatchesTransfers'
  BY <1>1, <1>4, <1>5, <1>6, <1>7, <1>8, StillMatches
<1>10. \A t \in DOMAIN transfers' : Happened(transfers'[t])
  BY <1>1, <1>2
<1>. QED
  BY <1>9, <1>10 DEF FreshInv

LEMMA Amounts ==
  ASSUME IInv, NEW x \in Places, NEW g \in Goods, NEW items \in Seq(Item)
  PROVE  /\ available[x][g] \in Int /\ transit[x][g] \in Int
         /\ Leaving(items, x, g) \in Int /\ Arriving(items, x, g) \in Int
BY LineTotals DEF IInv

LEMMA NothingMoves ==
  ASSUME IInv, UNCHANGED <<available, transit>>, NEW items \in Seq(Item),
         NEW p, NEW r, NEW s, NEW f, ~p, ~r, ~s, ~f
  PROVE  Moving(items, p, r, s, f)
BY Amounts DEF Moving

LEMMA FreshlyCreated ==
  ASSUME FreshInv, IInv', NEW c \in Clients, NEW policy \in Policies, NEW items \in Seq(Item),
         Create(c, policy, items)
  PROVE  FreshInv'
<1> DEFINE new == [status |-> "draft", policy |-> policy, items |-> items,
                   posted |-> FALSE, received |-> FALSE, reversalOf |-> 0]
<1>1. new \in Transfer /\ ~new.posted /\ ~new.received /\ new.items \in Seq(Item)
  BY DEF Transfer, Status
<1>2. transfers' = Append(transfers, new) /\ UNCHANGED <<available, transit>>
  BY DEF Create
<1>3. Happened(new)
  BY DEF Happened
<1>. HIDE DEF new
<1> DEFINE u == Len(transfers) + 1
           p == new.posted /\ u \notin Posted
           r == new.received
           s == new.posted /\ new.policy = "in_transit" /\ u \notin Sent
           f == new.received /\ ~(new.posted /\ new.policy = "immediate")
<1>4. Moving(new.items, p, r, s, f)
  <2>1. ~p /\ ~r /\ ~s /\ ~f
    BY <1>1
  <2>. HIDE DEF p, r, s, f
  <2>. QED
    BY <1>1, <1>2, <2>1, NothingMoves DEF FreshInv
<1>. HIDE DEF u
<1>5. u = Len(transfers) + 1
  BY DEF u
<1>. QED
  BY <1>1, <1>2, <1>3, <1>4, <1>5, StaysFresh

LEMMA FreshlySaved ==
  ASSUME FreshInv, IInv', NEW c \in Clients, SaveStatus(c), StillAllowed(c)
  PROVE  FreshInv'
<1> DEFINE t == client[c].doc
           new == [transfers[t] EXCEPT !.status = client[c].op]
<1>1. IInv /\ Documents /\ Calls
  BY InParts DEF FreshInv
<1>2. /\ UNCHANGED <<available, transit>> /\ transfers' = [transfers EXCEPT ![t] = new]
      /\ client[c].op # "none"
  BY DEF SaveStatus
<1>3. t \in DOMAIN transfers /\ client[c].op \in {"submitted", "approved"}
  BY <1>1, <1>2 DEF Calls
<1>4. transfers[t] \in Transfer /\ Happened(transfers[t])
  BY <1>1, <1>3, TransferFields DEF FreshInv
<1>5. transfers[t].status \in {"draft", "submitted"}
  BY <1>2, <1>3, StatusAllows DEF StillAllowed
<1>6. /\ new \in Transfer /\ new.items = transfers[t].items /\ new.policy = transfers[t].policy
      /\ new.items \in Seq(Item)
      /\ new.posted = transfers[t].posted /\ new.received = transfers[t].received
      /\ new.status = client[c].op
  BY <1>3, <1>4 DEF Transfer, Status
<1>7. ~transfers[t].posted /\ ~transfers[t].received
  BY <1>4, <1>5 DEF Happened
<1>. HIDE DEF new, t
<1>8. Happened(new)
  BY <1>3, <1>6, <1>7 DEF Happened
<1> DEFINE p == new.posted /\ t \notin Posted
           r == new.received
           s == new.posted /\ new.policy = "in_transit" /\ t \notin Sent
           f == new.received /\ ~(new.posted /\ new.policy = "immediate")
<1>9. Moving(new.items, p, r, s, f)
  <2>1. ~p /\ ~r /\ ~s /\ ~f
    BY <1>6, <1>7
  <2>. HIDE DEF p, r, s, f
  <2>. QED
    BY <1>1, <1>2, <1>6, <2>1, NothingMoves
<1>. QED
  BY <1>2, <1>3, <1>6, <1>7, <1>8, <1>9, StaysFresh

LEMMA FreshlyPosted ==
  ASSUME FreshInv, IInv', NEW c \in Clients, NEW t \in DOMAIN transfers, Post(c, t)
  PROVE  FreshInv'
<1> DEFINE items == transfers[t].items
           straight == transfers[t].policy = "immediate"
           new == PostedForm(transfers[t])
<1>1. IInv /\ Documents /\ Balances /\ StockConserved
  BY InParts DEF FreshInv
<1>2. /\ items \in Seq(Item) /\ straight \in BOOLEAN
      /\ TransferMay(transfers[t].status, IF straight THEN "completed" ELSE "in_transit")
      /\ Bearable(items, straight) /\ Moved(items, straight)
      /\ transfers' = [transfers EXCEPT ![t] = new] /\ new \in Transfer
  BY <1>1, PostFacts
<1>3. transfers[t] \in Transfer /\ Happened(transfers[t])
  BY <1>1, TransferFields DEF FreshInv
<1>4. transfers[t].policy \in Policies /\ transfers[t].received \in BOOLEAN
  BY <1>3 DEF Transfer
<1>5. ~transfers[t].posted /\ ~transfers[t].received
  <2>1. transfers[t].status = "approved" \/ (transfers[t].status = "in_transit" /\ straight)
    BY <1>2, StatusAllows
  <2>2. CASE transfers[t].status = "approved"
    BY <1>3, <2>2 DEF Happened
  <2>3. CASE transfers[t].status = "in_transit" /\ straight
    BY <1>3, <2>3 DEF Happened
  <2>. QED
    BY <2>1, <2>2, <2>3
<1>6. /\ new.items = items /\ new.policy = transfers[t].policy /\ new.posted
      /\ new.received <=> straight
      /\ new.status = IF straight THEN "completed" ELSE "in_transit"
  BY <1>3, <1>5 DEF PostedForm, Transfer
<1>7. Happened(new)
  BY <1>4, <1>6 DEF Happened, Policies
<1>8. t \notin Posted /\ t \notin Sent
  BY <1>5, Members
<1> DEFINE p == new.posted /\ t \notin Posted
           r == new.received
           s == new.posted /\ new.policy = "in_transit" /\ t \notin Sent
           f == new.received /\ ~(new.posted /\ new.policy = "immediate")
<1>9. p /\ (r <=> straight) /\ (s <=> ~straight) /\ ~f
  BY <1>4, <1>6, <1>8 DEF Policies
<1>. HIDE DEF new, items
<1>10. Moving(new.items, p, r, s, f)
  <2>. HIDE DEF p, r, s, f, straight
  <2> SUFFICES ASSUME NEW x \in Places, NEW g \in Goods
               PROVE  /\ available'[x][g] = available[x][g]
                                                - (IF p THEN Leaving(items, x, g) ELSE 0)
                                                + (IF r THEN Arriving(items, x, g) ELSE 0)
                      /\ transit'[x][g] = transit[x][g]
                                              + (IF s THEN Arriving(items, x, g) ELSE 0)
                                              - (IF f THEN Arriving(items, x, g) ELSE 0)
    BY <1>6 DEF Moving
  <2>1. /\ available'[x][g] = available[x][g] - Leaving(items, x, g)
                                 + (IF straight THEN Arriving(items, x, g) ELSE 0)
        /\ transit'[x][g] = transit[x][g]
                                 + (IF straight THEN 0 ELSE Arriving(items, x, g))
    BY <1>1, <1>2, MovedBalances
  <2>2. /\ available[x][g] \in Int /\ transit[x][g] \in Int
        /\ Leaving(items, x, g) \in Int /\ Arriving(items, x, g) \in Int
    BY <1>1, <1>2, Amounts
  <2>3. CASE straight
    BY <1>9, <2>1, <2>2, <2>3
  <2>4. CASE ~straight
    BY <1>9, <2>1, <2>2, <2>4
  <2>. QED
    BY <2>3, <2>4
<1>. QED
  BY <1>2, <1>5, <1>6, <1>7, <1>10, StaysFresh DEF items

LEMMA FreshlyReceived ==
  ASSUME FreshInv, IInv', NEW c \in Clients, NEW t \in DOMAIN transfers, Receive(c, t)
  PROVE  FreshInv'
<1> DEFINE items == transfers[t].items
           new == ReceivedForm(transfers[t])
<1>1. IInv /\ Documents
  BY InParts DEF FreshInv
<1>2. /\ items \in Seq(Item) /\ TransferMay(transfers[t].status, "completed")
      /\ \A x \in Places, g \in Goods :
            /\ available'[x][g] = available[x][g] + Arriving(items, x, g)
            /\ transit'[x][g] = transit[x][g] - Arriving(items, x, g)
      /\ transfers' = [transfers EXCEPT ![t] = new] /\ new \in Transfer
  BY <1>1, ReceiveFacts
<1>3. transfers[t] \in Transfer /\ Happened(transfers[t])
  BY <1>1, TransferFields DEF FreshInv
<1>4. transfers[t].status \in {"approved", "in_transit"}
  BY <1>2, StatusAllows
<1>5. /\ ~transfers[t].received
      /\ transfers[t].posted => transfers[t].policy = "in_transit"
  BY <1>3, <1>4 DEF Happened
<1>6. /\ new.items = items /\ new.policy = transfers[t].policy /\ new.received
      /\ new.posted <=> transfers[t].posted
      /\ new.status = "completed"
  BY <1>3 DEF ReceivedForm, Transfer
<1>7. Happened(new)
  BY <1>6 DEF Happened
<1>8. transfers[t].posted => t \in Posted /\ t \in Sent
  BY <1>5, Members
<1> DEFINE p == new.posted /\ t \notin Posted
           r == new.received
           s == new.posted /\ new.policy = "in_transit" /\ t \notin Sent
           f == new.received /\ ~(new.posted /\ new.policy = "immediate")
<1>9. ~p /\ r /\ ~s /\ f
  BY <1>5, <1>6, <1>8
<1>. HIDE DEF new, items
<1>10. Moving(new.items, p, r, s, f)
  <2>. HIDE DEF p, r, s, f
  <2>1. ASSUME NEW x \in Places, NEW g \in Goods
        PROVE  /\ available[x][g] \in Int /\ transit[x][g] \in Int
               /\ Leaving(items, x, g) \in Int /\ Arriving(items, x, g) \in Int
    BY <1>1, <1>2, Amounts
  <2>. QED
    BY <1>2, <1>6, <1>9, <2>1 DEF Moving
<1>. QED
  BY <1>2, <1>5, <1>6, <1>7, <1>10, StaysFresh DEF items

LEMMA FreshlyReversed ==
  ASSUME FreshInv, IInv', NEW c \in Clients, NEW of \in DOMAIN transfers, Reverse(c, of)
  PROVE  FreshInv'
<1> DEFINE items == Back(transfers[of].items)
           new == ReversalForm(of)
           u == Len(transfers) + 1
<1>1. IInv /\ Documents /\ Balances /\ StockConserved
  BY InParts DEF FreshInv
<1>2. /\ items \in Seq(Item) /\ Bearable(items, TRUE) /\ Moved(items, TRUE)
      /\ transfers' = Append(transfers, new) /\ new \in Transfer
  BY <1>1, ReverseFacts
<1>3. /\ new.items = items /\ new.policy = "immediate" /\ new.posted /\ new.received
      /\ new.status = "completed"
  BY DEF ReversalForm
<1>4. Happened(new)
  BY <1>3 DEF Happened
<1>5. u \notin Posted
  BY <1>1, <1>2, Appended, Members DEF Documents
<1> DEFINE p == new.posted /\ u \notin Posted
           r == new.received
           s == new.posted /\ new.policy = "in_transit" /\ u \notin Sent
           f == new.received /\ ~(new.posted /\ new.policy = "immediate")
<1>6. p /\ r /\ ~s /\ ~f
  BY <1>3, <1>5
<1>. HIDE DEF new, items
<1>7. Moving(new.items, p, r, s, f)
  <2>. HIDE DEF p, r, s, f
  <2>1. ASSUME NEW x \in Places, NEW g \in Goods
        PROVE  /\ available[x][g] \in Int /\ transit[x][g] \in Int
               /\ Leaving(items, x, g) \in Int /\ Arriving(items, x, g) \in Int
               /\ available'[x][g] = available[x][g] - Leaving(items, x, g)
                                        + Arriving(items, x, g)
               /\ transit'[x][g] = transit[x][g] + 0
    BY <1>1, <1>2, Amounts, MovedBalances
  <2>. QED
    BY <1>3, <1>6, <2>1 DEF Moving
<1>. HIDE DEF u
<1>8. u = Len(transfers) + 1
  BY DEF u
<1>. QED
  BY <1>2, <1>4, <1>7, <1>8, StaysFresh

Saves(c) == client[c].op # "none" /\ client'[c].op = "none"

LEMMA MatchesOn ==
  ASSUME StockMatchesTransfers, UNCHANGED <<available, transit, transfers>>
  PROVE  StockMatchesTransfers'
<1>1. Posted' = Posted /\ Received' = Received
  BY DEF Posted, Received
<1>2. Sent' = Sent /\ Fetched' = Fetched
  BY <1>1 DEF Sent, Fetched
<1>3. ASSUME NEW S, NEW x, NEW g
      PROVE  TakenIn(transfers', S, x, g) = TakenIn(transfers, S, x, g)
             /\ BroughtIn(transfers', S, x, g) = BroughtIn(transfers, S, x, g)
  BY TotalsStay
<1>4. \A x \in Places, g \in Goods :
         /\ available[x][g] = Opening[x][g] - TakenIn(transfers, Posted, x, g)
                                  + BroughtIn(transfers, Received, x, g)
         /\ transit[x][g] = BroughtIn(transfers, Sent, x, g) - BroughtIn(transfers, Fetched, x, g)
         /\ available[x][g] >= 0 /\ transit[x][g] >= 0
  BY DEF StockMatchesTransfers, TakenFrom, BroughtTo, TakenIn, BroughtIn
<1>5. \A x \in Places, g \in Goods :
         /\ available'[x][g] = Opening[x][g] - TakenIn(transfers', Posted', x, g)
                                  + BroughtIn(transfers', Received', x, g)
         /\ transit'[x][g] = BroughtIn(transfers', Sent', x, g)
                                  - BroughtIn(transfers', Fetched', x, g)
         /\ available'[x][g] >= 0 /\ transit'[x][g] >= 0
  BY <1>1, <1>2, <1>3, <1>4
<1>. QED
  BY <1>5 DEF StockMatchesTransfers, TakenFrom, BroughtTo, TakenIn, BroughtIn

LEMMA FreshStep ==
  ASSUME FreshInv, [Next]_vars, [\A c \in Clients : Saves(c) => StillAllowed(c)]_vars
  PROVE  FreshInv'
<1>1. IInv /\ IInv'
  BY Steps DEF FreshInv
<1>2. CASE UNCHANGED vars
  <2>1. StockMatchesTransfers'
    BY <1>2, MatchesOn DEF vars, FreshInv
  <2>2. \A t \in DOMAIN transfers' : Happened(transfers'[t])
    BY <1>2 DEF vars, FreshInv
  <2>. QED
    BY <1>1, <2>1, <2>2 DEF FreshInv
<1>3. ASSUME NEW c \in Clients, Step(c)
      PROVE  FreshInv'
  <2>1. ASSUME NEW t \in DOMAIN transfers, NEW to, ReadStatus(c, t, to)
        PROVE  FreshInv'
    <3>1. UNCHANGED <<available, transit, transfers>>
      BY <2>1 DEF ReadStatus
    <3>2. StockMatchesTransfers'
      BY <3>1, MatchesOn DEF FreshInv
    <3>3. \A t2 \in DOMAIN transfers' : Happened(transfers'[t2])
      BY <3>1 DEF FreshInv
    <3>. QED
      BY <1>1, <3>2, <3>3 DEF FreshInv
  <2>2. ASSUME SaveStatus(c)
        PROVE  FreshInv'
    <3>1. Saves(c) /\ client' # client
      BY <1>1, <2>2 DEF SaveStatus, Saves, IInv
    <3>2. StillAllowed(c)
      BY <3>1 DEF vars
    <3>. QED
      BY <1>1, <2>2, <3>2, FreshlySaved
  <2>. QED
    BY <1>1, <1>3, <2>1, <2>2, CreatedLines, FreshlyCreated, FreshlyPosted, FreshlyReceived,
       FreshlyReversed DEF Step
<1>. QED
  BY <1>2, <1>3, StepIsByACall

LEMMA FreshStart == Init => FreshInv
<1> SUFFICES ASSUME Init
             PROVE  FreshInv
  OBVIOUS
<1>1. IInv
  BY Start
<1>2. DOMAIN transfers = {}
  BY DEF Init
<1>3. Posted = {} /\ Received = {} /\ Sent = {} /\ Fetched = {}
  BY <1>2 DEF Posted, Received, Sent, Fetched
<1>4. ASSUME NEW x, NEW g
      PROVE  TakenFrom({}, x, g) = 0 /\ BroughtTo({}, x, g) = 0
  BY TotalEmpty DEF TakenFrom, BroughtTo
<1>5. \A x \in Places, g \in Goods : /\ available[x][g] = Opening[x][g]
                                     /\ transit[x][g] = 0 /\ Opening[x][g] \in Nat
  BY TransfersAssumption DEF Init
<1>6. StockMatchesTransfers
  BY <1>3, <1>4, <1>5 DEF StockMatchesTransfers
<1>. QED
  BY <1>1, <1>2, <1>6 DEF FreshInv

(* When no save is stale, the status of a transfer tells what has happened *)
(* to it, and every balance what has happened to all of them.              *)
THEOREM FreshTransfers == Spec /\ NoStaleSave => []FreshInv
<1>1. FreshInv /\ [Next]_vars /\ [\A c \in Clients : Saves(c) => StillAllowed(c)]_vars
         => FreshInv'
  BY FreshStep
<1>2. NoStaleSave <=> [][\A c \in Clients : Saves(c) => StillAllowed(c)]_vars
  <2>1. [\A c \in Clients : client[c].op # "none" /\ client'[c].op = "none"
                               => StillAllowed(c)]_vars
           <=> [\A c \in Clients : Saves(c) => StillAllowed(c)]_vars
    BY DEF Saves
  <2>. QED
    BY <2>1, PTL DEF NoStaleSave
<1>. QED
  BY <1>1, <1>2, FreshStart, PTL DEF Spec

(* Each transfer took effect once, at its own two locations: no balance    *)
(* has anything else in it than its opening quantity and the transfers     *)
(* posted and received (StockTransferService.post, receive, reverse).      *)
THEOREM BalancesMatchTransfers == Spec /\ NoStaleSave => []StockMatchesTransfers
<1>1. FreshInv => StockMatchesTransfers
  BY DEF FreshInv
<1>. QED
  BY <1>1, FreshTransfers, PTL

-----------------------------------------------------------------------------
(* The table of transitions *)

MovesAlong ==
  \A t \in DOMAIN transfers :
     transfers'[t].status # transfers[t].status
        => TransferMay(transfers[t].status, transfers'[t].status)

LEMMA StepMovesAlong ==
  ASSUME IInv, [Next]_vars, [\A c \in Clients : Saves(c) => StillAllowed(c)]_vars
  PROVE  MovesAlong
<1>1. Documents /\ Calls
  BY InParts
<1>2. CASE UNCHANGED vars
  BY <1>2 DEF vars, MovesAlong
<1>3. ASSUME NEW c \in Clients, NEW policy \in Policies, NEW items \in Seq(Item),
             Create(c, policy, items)
      PROVE  MovesAlong
  <2>1. PICK new \in Transfer : transfers' = Append(transfers, new)
    BY <1>3 DEF Create, Transfer, Status
  <2>. QED
    BY <1>1, <2>1, Appended DEF MovesAlong, Documents
<1>4. ASSUME NEW c \in Clients, NEW t \in DOMAIN transfers, NEW new \in Transfer,
             transfers' = [transfers EXCEPT ![t] = new],
             TransferMay(transfers[t].status, new.status)
      PROVE  MovesAlong
  BY <1>1, <1>4, Replaced DEF MovesAlong, Documents
<1>5. ASSUME NEW c \in Clients, SaveStatus(c)
      PROVE  MovesAlong
  <2> DEFINE t == client[c].doc
             new == [transfers[t] EXCEPT !.status = client[c].op]
  <2>1. StillAllowed(c) /\ client[c].op # "none"
    <3>1. Saves(c) /\ client' # client /\ client[c].op # "none"
      BY <1>1, <1>5 DEF SaveStatus, Saves, Calls
    <3>. QED
      BY <3>1 DEF vars
  <2>2. t \in DOMAIN transfers /\ client[c].op \in Status
    BY <1>1, <2>1 DEF Calls, Status
  <2>3. transfers[t] \in Transfer
    BY <1>1, <2>2, TransferFields
  <2>4. new \in Transfer /\ new.status = client[c].op
    BY <2>2, <2>3 DEF Transfer
  <2>5. transfers' = [transfers EXCEPT ![t] = new]
    BY <1>5 DEF SaveStatus
  <2>6. TransferMay(transfers[t].status, new.status)
    BY <2>1, <2>4 DEF StillAllowed
  <2>. HIDE DEF t, new
  <2>. QED
    BY <1>4, <2>2, <2>4, <2>5, <2>6
<1>6. ASSUME NEW c \in Clients, NEW t \in DOMAIN transfers, Post(c, t)
      PROVE  MovesAlong
  <2>1. transfers[t] \in Transfer
    BY <1>1, TransferFields
  <2>2. /\ PostedForm(transfers[t]) \in Transfer
        /\ transfers' = [transfers EXCEPT ![t] = PostedForm(transfers[t])]
        /\ TransferMay(transfers[t].status,
                       IF transfers[t].policy = "immediate" THEN "completed" ELSE "in_transit")
    BY <1>6, PostFacts
  <2>3. PostedForm(transfers[t]).status
            = IF transfers[t].policy = "immediate" THEN "completed" ELSE "in_transit"
    BY <2>1 DEF PostedForm, Transfer
  <2>. QED
    BY <1>4, <2>2, <2>3
<1>7. ASSUME NEW c \in Clients, NEW t \in DOMAIN transfers, Receive(c, t)
      PROVE  MovesAlong
  <2>1. transfers[t] \in Transfer
    BY <1>1, TransferFields
  <2>2. /\ ReceivedForm(transfers[t]) \in Transfer
        /\ transfers' = [transfers EXCEPT ![t] = ReceivedForm(transfers[t])]
        /\ TransferMay(transfers[t].status, "completed")
    BY <1>7, ReceiveFacts
  <2>3. ReceivedForm(transfers[t]).status = "completed"
    BY <2>1 DEF ReceivedForm, Transfer
  <2>. QED
    BY <1>4, <2>2, <2>3
<1>8. ASSUME NEW c \in Clients, NEW of \in DOMAIN transfers, Reverse(c, of)
      PROVE  MovesAlong
  <2>1. transfers' = Append(transfers, ReversalForm(of)) /\ ReversalForm(of) \in Transfer
    BY <1>8, ReverseFacts
  <2>. QED
    BY <1>1, <2>1, Appended DEF MovesAlong, Documents
<1>9. ASSUME NEW c \in Clients, NEW t \in DOMAIN transfers, NEW to, ReadStatus(c, t, to)
      PROVE  MovesAlong
  BY <1>9 DEF ReadStatus, MovesAlong
<1>10. ASSUME NEW c \in Clients, Step(c)
       PROVE  MovesAlong
  BY <1>3, <1>5, <1>6, <1>7, <1>8, <1>9, <1>10, CreatedLines DEF Step
<1>. QED
  BY <1>2, <1>10, StepIsByACall

(* The same of behaviours without a stale save, for TransfersMoveAlong.    *)
LEMMA FreshTransfersMoveAlong == Spec /\ NoStaleSave => TransferTransitions
<1>1. IInv /\ [Next]_vars /\ [\A c \in Clients : Saves(c) => StillAllowed(c)]_vars
         => [\A t \in DOMAIN transfers :
                transfers'[t].status # transfers[t].status
                   => TransferMay(transfers[t].status, transfers'[t].status)]_vars
  BY StepMovesAlong DEF MovesAlong
<1>2. [\A c \in Clients : client[c].op # "none" /\ client'[c].op = "none"
                             => StillAllowed(c)]_vars
         <=> [\A c \in Clients : Saves(c) => StillAllowed(c)]_vars
  BY DEF Saves
<1>. QED
  BY <1>1, <1>2, TransfersInvariant, PTL DEF Spec, NoStaleSave, TransferTransitions

-----------------------------------------------------------------------------
(* Calls one at a time *)

LEMMA StartAlone == Init => OneAtATimeInv
<1> SUFFICES ASSUME Init
             PROVE  OneAtATimeInv
  OBVIOUS
<1>1. \A c \in Clients : client[c].op = "none"
  BY DEF Init
<1>. QED
  BY <1>1, FreshStart DEF OneAtATimeInv, StillAllowed

LEMMA StepAlone ==
  ASSUME OneAtATime, OneAtATimeInv, [Next]_vars
  PROVE  OneAtATimeInv'
<1>1. DOMAIN client = Clients
  BY DEF OneAtATimeInv, FreshInv, IInv
<1>2. FreshInv'
  <2>1. [\A c \in Clients : Saves(c) => StillAllowed(c)]_vars
    BY DEF OneAtATimeInv
  <2>. QED
    BY <2>1, FreshStep DEF OneAtATimeInv
<1>3. ASSUME NEW c \in Clients, NEW d \in Clients, Step(d)
      PROVE  StillAllowed(c)'
  <2>1. c = d
    BY DEF OneAtATime
  <2>2. CASE client'[c].op = "none"
    BY <2>2 DEF StillAllowed
  <2>3. ASSUME NEW t \in DOMAIN transfers, NEW to, ReadStatus(c, t, to)
        PROVE  StillAllowed(c)'
    <3>1. /\ TransferMay(transfers[t].status, to) /\ transfers' = transfers
          /\ client' = [client EXCEPT ![c] = [op |-> to, doc |-> t]]
      BY <2>3 DEF ReadStatus
    <3>2. client'[c].op = to /\ client'[c].doc = t
      BY <1>1, <3>1
    <3>. QED
      BY <3>1, <3>2 DEF StillAllowed
  <2>4. ASSUME SaveStatus(c)
        PROVE  client'[c].op = "none"
    BY <1>1, <2>4 DEF SaveStatus
  <2>5. ASSUME NEW policy, NEW items, Create(c, policy, items)
        PROVE  client'[c].op = "none"
    BY <2>5 DEF Create
  <2>6. ASSUME NEW t, Post(c, t) \/ Receive(c, t) \/ Reverse(c, t)
        PROVE  client'[c].op = "none"
    BY <2>6 DEF Post, Receive, Reverse
  <2>. QED
    BY <1>3, <2>1, <2>2, <2>3, <2>4, <2>5, <2>6 DEF Step
<1>4. CASE UNCHANGED vars
  BY <1>2, <1>4 DEF vars, OneAtATimeInv, StillAllowed
<1>. QED
  BY <1>2, <1>3, <1>4, StepIsByACall DEF OneAtATimeInv

(* When calls come one at a time no save is stale: the theorems above hold *)
(* of every behaviour.                                                     *)
THEOREM NoneIsStaleAlone == ASSUME OneAtATime PROVE Spec => NoStaleSave
<1>1. Init => OneAtATimeInv
  BY StartAlone
<1>2. OneAtATimeInv /\ [Next]_vars => OneAtATimeInv'
  BY StepAlone
<1>3. OneAtATimeInv => [\A c \in Clients : client[c].op # "none" /\ client'[c].op = "none"
                                               => StillAllowed(c)]_vars
  BY DEF OneAtATimeInv
<1>. QED
  BY <1>1, <1>2, <1>3, PTL DEF Spec, NoStaleSave

(* When calls come one at a time, a transfer's status moves along          *)
(* ALLOWED_TRANSITIONS only (stockTransferStatus.ts).                      *)
THEOREM TransfersMoveAlong == ASSUME OneAtATime PROVE Spec => TransferTransitions
BY FreshTransfersMoveAlong, NoneIsStaleAlone, PTL
========================================
