------------------------ MODULE Procurement_proofs ------------------------
(***************************************************************************)
(* Theorems about Procurement: any number of overlapping calls, orders,    *)
(* receipts, lines, products and balances, as long as no save is stale.    *)
(***************************************************************************)
EXTENDS Procurement, Sums, TLAPS

-----------------------------------------------------------------------------
(* Quantities of lines *)

LEMMA MaxOfZero == \A x \in Int : Max({0, x}) = IF x > 0 THEN x ELSE 0
<1> TAKE x \in Int
<1>1. CASE x > 0
  <2>1. \A m \in {0, x} : (\A y \in {0, x} : m >= y) <=> m = x
    BY <1>1
  <2>. QED
    BY <1>1, <2>1 DEF Max
<1>2. CASE ~(x > 0)
  <2>1. \A m \in {0, x} : (\A y \in {0, x} : m >= y) <=> m = 0
    BY <1>2
  <2>. QED
    BY <1>2, <2>1 DEF Max
<1>. QED
  BY <1>1, <1>2

LEMMA SequenceDomain ==
  ASSUME NEW S, NEW s \in Seq(S)
  PROVE  /\ DOMAIN s = 1..Len(s) /\ Len(s) \in Nat /\ IsFiniteSet(DOMAIN s)
         /\ \A n \in DOMAIN s : s[n] \in S
<1>1. DOMAIN s = 1..Len(s) /\ Len(s) \in Nat /\ \A n \in DOMAIN s : s[n] \in S
  OBVIOUS
<1>2. IsFiniteSet(1..Len(s))
  BY <1>1, FS_Interval
<1>. QED
  BY <1>1, <1>2

LEMMA LineTotals ==
  ASSUME NEW lines \in Seq(ReceiptLine)
  PROVE  /\ \A b : Accepted(lines, b) \in Nat
         /\ \A p : OfProduct(lines, p) \in Nat
<1>1. IsFiniteSet(DOMAIN lines) /\ \A n \in DOMAIN lines : lines[n].accepted \in Nat
  <2>1. IsFiniteSet(DOMAIN lines) /\ \A n \in DOMAIN lines : lines[n] \in ReceiptLine
    BY SequenceDomain
  <2>. QED
    BY <2>1 DEF ReceiptLine
<1>2. ASSUME NEW b
      PROVE  Accepted(lines, b) \in Nat
  <2> DEFINE f == [n \in DOMAIN lines |-> IF lines[n].key = b THEN lines[n].accepted ELSE 0]
  <2>1. DOMAIN f = DOMAIN lines /\ \A n \in DOMAIN f : f[n] \in Nat
    BY <1>1
  <2>2. Accepted(lines, b) = SumFunction(f)
    BY DEF Accepted
  <2>. HIDE DEF f
  <2>. QED
    BY <1>1, <2>1, <2>2, TotalNat
<1>3. ASSUME NEW p
      PROVE  OfProduct(lines, p) \in Nat
  <2> DEFINE f == [n \in DOMAIN lines |->
                      IF KeyProduct[lines[n].key] = p THEN lines[n].accepted ELSE 0]
  <2>1. DOMAIN f = DOMAIN lines /\ \A n \in DOMAIN f : f[n] \in Nat
    BY <1>1
  <2>2. OfProduct(lines, p) = SumFunction(f)
    BY DEF OfProduct
  <2>. HIDE DEF f
  <2>. QED
    BY <1>1, <2>1, <2>2, TotalNat
<1>. QED
  BY <1>2, <1>3

LEMMA OrderLinesFinite == IsFiniteSet(OrderLines)
BY FS_Interval, ProcurementAssumption DEF OrderLines

LEMMA OrderTotals ==
  ASSUME NEW lines \in [OrderLines -> OrderLine]
  PROVE  OrderedIn(lines) \in Nat /\ ReceivedIn(lines) \in Nat
<1> DEFINE f == [l \in OrderLines |-> lines[l].ordered]
           g == [l \in OrderLines |-> lines[l].received]
<1>1. /\ DOMAIN f = OrderLines /\ \A l \in DOMAIN f : f[l] \in Nat
      /\ DOMAIN g = OrderLines /\ \A l \in DOMAIN g : g[l] \in Nat
  BY DEF OrderLine
<1>2. OrderedIn(lines) = SumFunction(f) /\ ReceivedIn(lines) = SumFunction(g)
  BY DEF OrderedIn, ReceivedIn
<1>. HIDE DEF f, g
<1>. QED
  BY <1>1, <1>2, OrderLinesFinite, TotalNat

-----------------------------------------------------------------------------
(* What receipts add up to, for any list of receipts *)

Receipts(rs) ==
    /\ rs \in Seq(Receipt)
    /\ \A r \in DOMAIN rs :
          rs[r].reversalOf # 0 => /\ rs[r].reversalOf \in 1..(r - 1)
                                  /\ rs[r].status = "posted"
                                  /\ rs[rs[r].reversalOf].status = "posted"

PostedIn(rs) == {r \in DOMAIN rs : rs[r].status = "posted" /\ rs[r].reversalOf = 0}
TakenIn(rs)  == {r \in DOMAIN rs : rs[r].reversalOf # 0}

BroughtIn(rs, b)   == SumFunction([r \in PostedIn(rs) |-> Accepted(rs[r].lines, b)])
TakenBackIn(rs, b) == SumFunction([r \in TakenIn(rs) |-> Accepted(rs[r].lines, b)])

OnceIn(rs) ==
    \A r, q \in TakenIn(rs) :
        /\ rs[rs[r].reversalOf].reversalOf = 0
        /\ rs[r].reversalOf = rs[q].reversalOf => r = q

KeptIn(rs, o) ==
    {r \in PostedIn(rs) \ {rs[r].reversalOf : r \in TakenIn(rs)} : rs[r].po = o}

CameIn(rs, o, p) == SumFunction([r \in KeptIn(rs, o) |-> OfProduct(rs[r].lines, p)])

LEMMA ReceiptFacts ==
  ASSUME NEW rs, Receipts(rs)
  PROVE  /\ DOMAIN rs = 1..Len(rs) /\ Len(rs) \in Nat /\ IsFiniteSet(DOMAIN rs)
         /\ IsFiniteSet(PostedIn(rs)) /\ IsFiniteSet(TakenIn(rs))
         /\ \A o : IsFiniteSet(KeptIn(rs, o))
         /\ \A r \in DOMAIN rs : /\ rs[r] \in Receipt
                                 /\ \A b : Accepted(rs[r].lines, b) \in Nat
                                 /\ \A p : OfProduct(rs[r].lines, p) \in Nat
<1>1. /\ DOMAIN rs = 1..Len(rs) /\ Len(rs) \in Nat /\ IsFiniteSet(DOMAIN rs)
      /\ \A r \in DOMAIN rs : rs[r] \in Receipt
  BY SequenceDomain DEF Receipts
<1>2. /\ PostedIn(rs) \subseteq DOMAIN rs /\ TakenIn(rs) \subseteq DOMAIN rs
      /\ \A o : KeptIn(rs, o) \subseteq DOMAIN rs
  BY DEF PostedIn, TakenIn, KeptIn
<1>3. \A r \in DOMAIN rs : rs[r].lines \in Seq(ReceiptLine)
  BY <1>1 DEF Receipt
<1>. QED
  BY <1>1, <1>2, <1>3, FS_Subset, LineTotals

(* Sums are natural numbers. *)
LEMMA ReceiptTotals ==
  ASSUME NEW rs, Receipts(rs)
  PROVE  \A b : BroughtIn(rs, b) \in Nat /\ TakenBackIn(rs, b) \in Nat
<1> TAKE b
<1> DEFINE f == [r \in PostedIn(rs) |-> Accepted(rs[r].lines, b)]
           g == [r \in TakenIn(rs) |-> Accepted(rs[r].lines, b)]
<1>1. /\ DOMAIN f = PostedIn(rs) /\ \A r \in DOMAIN f : f[r] \in Nat
      /\ DOMAIN g = TakenIn(rs) /\ \A r \in DOMAIN g : g[r] \in Nat
  BY ReceiptFacts DEF PostedIn, TakenIn
<1>2. BroughtIn(rs, b) = SumFunction(f) /\ TakenBackIn(rs, b) = SumFunction(g)
  BY DEF BroughtIn, TakenBackIn
<1>3. IsFiniteSet(PostedIn(rs)) /\ IsFiniteSet(TakenIn(rs))
  BY ReceiptFacts
<1>. HIDE DEF f, g
<1>. QED
  BY <1>1, <1>2, <1>3, TotalNat

LEMMA CameTotals ==
  ASSUME NEW rs, Receipts(rs), NEW o, NEW p
  PROVE  /\ CameIn(rs, o, p) \in Nat
         /\ \A r \in KeptIn(rs, o) : OfProduct(rs[r].lines, p) <= CameIn(rs, o, p)
<1> DEFINE f == [r \in KeptIn(rs, o) |-> OfProduct(rs[r].lines, p)]
<1>1. DOMAIN f = KeptIn(rs, o) /\ \A r \in DOMAIN f : f[r] \in Nat
  BY ReceiptFacts DEF KeptIn, PostedIn
<1>2. CameIn(rs, o, p) = SumFunction(f)
  BY DEF CameIn
<1>3. IsFiniteSet(KeptIn(rs, o))
  BY ReceiptFacts
<1>4. \A r \in KeptIn(rs, o) : f[r] = OfProduct(rs[r].lines, p)
  OBVIOUS
<1>. HIDE DEF f
<1>5. SumFunction(f) \in Nat /\ \A r \in DOMAIN f : f[r] <= SumFunction(f)
  BY <1>1, <1>3, TotalNat, TotalBounds
<1>. QED
  BY <1>1, <1>2, <1>4, <1>5

(* Receipts that are not posted count for nothing. *)
LEMMA NothingPosted ==
  ASSUME NEW rs, NEW new,
         PostedIn(new) = PostedIn(rs), TakenIn(new) = TakenIn(rs),
         \A r \in PostedIn(rs) \cup TakenIn(rs) : new[r] = rs[r],
         \A r \in TakenIn(rs) : new[rs[r].reversalOf] = rs[rs[r].reversalOf]
  PROVE  /\ \A b : BroughtIn(new, b) = BroughtIn(rs, b) /\ TakenBackIn(new, b) = TakenBackIn(rs, b)
         /\ OnceIn(new) <=> OnceIn(rs)
         /\ \A o : KeptIn(new, o) = KeptIn(rs, o)
         /\ \A o, p : CameIn(new, o, p) = CameIn(rs, o, p)
<1>1. \A b : BroughtIn(new, b) = BroughtIn(rs, b) /\ TakenBackIn(new, b) = TakenBackIn(rs, b)
  <2> TAKE b
  <2>1. [r \in PostedIn(new) |-> Accepted(new[r].lines, b)]
            = [r \in PostedIn(rs) |-> Accepted(rs[r].lines, b)]
    OBVIOUS
  <2>2. [r \in TakenIn(new) |-> Accepted(new[r].lines, b)]
            = [r \in TakenIn(rs) |-> Accepted(rs[r].lines, b)]
    OBVIOUS
  <2>. QED
    BY <2>1, <2>2 DEF BroughtIn, TakenBackIn
<1>2. OnceIn(new) <=> OnceIn(rs)
  BY DEF OnceIn
<1>3. \A o : KeptIn(new, o) = KeptIn(rs, o)
  <2> TAKE o
  <2>1. {new[r].reversalOf : r \in TakenIn(new)} = {rs[r].reversalOf : r \in TakenIn(rs)}
    OBVIOUS
  <2>2. \A r \in PostedIn(rs) : new[r].po = rs[r].po
    OBVIOUS
  <2>. QED
    BY <2>1, <2>2 DEF KeptIn
<1>4. \A o, p : CameIn(new, o, p) = CameIn(rs, o, p)
  <2> TAKE o, p
  <2>1. \A r \in KeptIn(rs, o) : r \in PostedIn(rs)
    BY DEF KeptIn
  <2>2. [r \in KeptIn(new, o) |-> OfProduct(new[r].lines, p)]
            = [r \in KeptIn(rs, o) |-> OfProduct(rs[r].lines, p)]
    BY <1>3, <2>1
  <2>. QED
    BY <2>2 DEF CameIn
<1>. QED
  BY <1>1, <1>2, <1>3, <1>4

(* A receipt is posted. *)
Posting(rs, r, new) ==
    /\ Receipts(rs) /\ r \in DOMAIN rs /\ rs[r].status # "posted"
    /\ new = [rs EXCEPT ![r].status = "posted"]

LEMMA OnePosted ==
  ASSUME NEW rs, NEW r, NEW new, Posting(rs, r, new)
  PROVE  /\ Receipts(new)
         /\ \A b : /\ BroughtIn(new, b) = BroughtIn(rs, b) + Accepted(rs[r].lines, b)
                   /\ TakenBackIn(new, b) = TakenBackIn(rs, b)
         /\ OnceIn(new) <=> OnceIn(rs)
         /\ \A o, p : CameIn(new, o, p) = CameIn(rs, o, p)
                          + IF rs[r].po = o THEN OfProduct(rs[r].lines, p) ELSE 0
<1>. /\ Receipts(rs) /\ r \in DOMAIN rs /\ rs[r].status # "posted"
     /\ new = [rs EXCEPT ![r].status = "posted"]
  BY DEF Posting
<1>. PICK posted : posted = [rs[r] EXCEPT !.status = "posted"]
  OBVIOUS
<1>1. /\ DOMAIN rs = 1..Len(rs) /\ Len(rs) \in Nat
      /\ IsFiniteSet(PostedIn(rs)) /\ IsFiniteSet(TakenIn(rs))
      /\ \A o : IsFiniteSet(KeptIn(rs, o))
      /\ \A q \in DOMAIN rs : /\ rs[q] \in Receipt
                              /\ \A b : Accepted(rs[q].lines, b) \in Nat
                              /\ \A p : OfProduct(rs[q].lines, p) \in Nat
  BY ReceiptFacts
<1>2. rs[r] \in Receipt /\ rs[r].reversalOf = 0
  BY <1>1 DEF Receipts
<1>3. rs \in Seq(Receipt)
  BY DEF Receipts
<1>4. /\ posted \in Receipt /\ posted.status = "posted" /\ posted.reversalOf = 0
      /\ posted.po = rs[r].po /\ posted.lines = rs[r].lines
  BY <1>2 DEF Receipt, ReceiptStatus
<1>5. /\ DOMAIN new = DOMAIN rs /\ new \in Seq(Receipt)
      /\ new[r] = posted /\ \A q \in DOMAIN rs \ {r} : new[q] = rs[q]
  BY <1>3, <1>4
<1>6. \A q \in DOMAIN rs : /\ new[q].reversalOf = rs[q].reversalOf /\ new[q].po = rs[q].po
                           /\ new[q].lines = rs[q].lines
                           /\ rs[q].status = "posted" => new[q].status = "posted"
  BY <1>2, <1>4, <1>5
<1>7. Receipts(new)
  <2>1. ASSUME NEW q \in DOMAIN rs, rs[q].reversalOf # 0
        PROVE  /\ rs[q].reversalOf \in 1..(q - 1) /\ rs[q].reversalOf \in DOMAIN rs
               /\ rs[q].status = "posted" /\ rs[rs[q].reversalOf].status = "posted"
    BY <1>1, <2>1 DEF Receipts
  <2>. QED
    BY <1>5, <1>6, <2>1 DEF Receipts
<1>8. PostedIn(new) = PostedIn(rs) \cup {r} /\ r \notin PostedIn(rs)
  BY <1>2, <1>4, <1>5 DEF PostedIn
<1>9. TakenIn(new) = TakenIn(rs)
  BY <1>5, <1>6 DEF TakenIn
<1>10. \A q \in TakenIn(rs) : rs[q].reversalOf \in DOMAIN rs /\ rs[q].reversalOf # r
  BY <1>1 DEF Receipts, TakenIn
<1>11. ASSUME NEW b
       PROVE  /\ BroughtIn(new, b) = BroughtIn(rs, b) + Accepted(rs[r].lines, b)
              /\ TakenBackIn(new, b) = TakenBackIn(rs, b)
  <2> DEFINE f == [q \in PostedIn(rs) |-> Accepted(rs[q].lines, b)]
             g == [q \in PostedIn(new) |-> Accepted(new[q].lines, b)]
  <2>1. PostedIn(rs) \subseteq DOMAIN rs
    BY DEF PostedIn
  <2>2. /\ DOMAIN f = PostedIn(rs) /\ DOMAIN g = DOMAIN f \cup {r}
        /\ g[r] = Accepted(rs[r].lines, b) /\ g[r] \in Int
        /\ \A q \in DOMAIN f : f[q] \in Int /\ g[q] = f[q]
    <3>1. DOMAIN f = PostedIn(rs) /\ DOMAIN g = DOMAIN f \cup {r}
      BY <1>8
    <3>2. g[r] = Accepted(new[r].lines, b)
      BY <1>8
    <3>3. g[r] = Accepted(rs[r].lines, b) /\ g[r] \in Int
      BY <1>1, <1>6, <3>2
    <3>4. \A q \in PostedIn(rs) : /\ f[q] = Accepted(rs[q].lines, b)
                                  /\ g[q] = Accepted(new[q].lines, b)
      BY <1>8
    <3>. HIDE DEF f, g
    <3>5. \A q \in PostedIn(rs) : f[q] \in Int /\ g[q] = f[q]
      BY <1>1, <1>6, <2>1, <3>4
    <3>. QED
      BY <3>1, <3>3, <3>5
  <2>3. BroughtIn(rs, b) = SumFunction(f) /\ BroughtIn(new, b) = SumFunction(g)
    BY DEF BroughtIn
  <2>. HIDE DEF f, g
  <2>4. SumFunction(g) = SumFunction(f) + g[r]
    BY <1>1, <1>8, <2>2, TotalAdd
  <2>5. [q \in TakenIn(new) |-> Accepted(new[q].lines, b)]
            = [q \in TakenIn(rs) |-> Accepted(rs[q].lines, b)]
    BY <1>6, <1>9 DEF TakenIn
  <2>. QED
    BY <2>2, <2>3, <2>4, <2>5 DEF TakenBackIn
<1>12. OnceIn(new) <=> OnceIn(rs)
  <2>1. TakenIn(rs) \subseteq DOMAIN rs
    BY DEF TakenIn
  <2>2. \A q \in TakenIn(rs) : /\ new[q].reversalOf = rs[q].reversalOf
                               /\ new[rs[q].reversalOf].reversalOf
                                      = rs[rs[q].reversalOf].reversalOf
    BY <1>6, <1>10, <2>1
  <2>3. \A q \in TakenIn(rs) : new[new[q].reversalOf].reversalOf
                                  = rs[rs[q].reversalOf].reversalOf
    BY <2>2
  <2>4. \A q, s \in TakenIn(rs) :
            new[q].reversalOf = new[s].reversalOf <=> rs[q].reversalOf = rs[s].reversalOf
    BY <2>2
  <2>5. ASSUME OnceIn(rs)
        PROVE  OnceIn(new)
    <3>1. \A q, s \in TakenIn(rs) : /\ rs[rs[q].reversalOf].reversalOf = 0
                                    /\ rs[q].reversalOf = rs[s].reversalOf => q = s
      BY <2>5 DEF OnceIn
    <3>2. \A q, s \in TakenIn(rs) : /\ new[new[q].reversalOf].reversalOf = 0
                                    /\ new[q].reversalOf = new[s].reversalOf => q = s
      BY <2>3, <2>4, <3>1
    <3>. QED
      BY <1>9, <3>2 DEF OnceIn
  <2>6. ASSUME OnceIn(new)
        PROVE  OnceIn(rs)
    <3>1. \A q, s \in TakenIn(rs) : /\ new[new[q].reversalOf].reversalOf = 0
                                    /\ new[q].reversalOf = new[s].reversalOf => q = s
      BY <1>9, <2>6 DEF OnceIn
    <3>2. \A q, s \in TakenIn(rs) : /\ rs[rs[q].reversalOf].reversalOf = 0
                                    /\ rs[q].reversalOf = rs[s].reversalOf => q = s
      BY <2>3, <2>4, <3>1
    <3>. QED
      BY <3>2 DEF OnceIn
  <2>. QED
    BY <2>5, <2>6
<1>13. ASSUME NEW o, NEW p
       PROVE  CameIn(new, o, p) = CameIn(rs, o, p)
                  + IF rs[r].po = o THEN OfProduct(rs[r].lines, p) ELSE 0
  <2>1. {new[q].reversalOf : q \in TakenIn(new)} = {rs[q].reversalOf : q \in TakenIn(rs)}
    BY <1>6, <1>9 DEF TakenIn
  <2>2. r \notin {rs[q].reversalOf : q \in TakenIn(rs)}
    BY <1>10
  <2>3. PostedIn(rs) \subseteq DOMAIN rs
    BY DEF PostedIn
  <2> DEFINE f == [q \in KeptIn(rs, o) |-> OfProduct(rs[q].lines, p)]
             g == [q \in KeptIn(new, o) |-> OfProduct(new[q].lines, p)]
  <2>4. CameIn(rs, o, p) = SumFunction(f) /\ CameIn(new, o, p) = SumFunction(g)
    BY DEF CameIn
  <2>5. /\ KeptIn(rs, o) \subseteq DOMAIN rs /\ r \notin KeptIn(rs, o)
        /\ KeptIn(new, o) = IF rs[r].po = o THEN KeptIn(rs, o) \cup {r} ELSE KeptIn(rs, o)
    <3>1. KeptIn(rs, o) \subseteq DOMAIN rs /\ r \notin KeptIn(rs, o)
      BY <1>8, <2>3 DEF KeptIn
    <3>2. ASSUME NEW q
          PROVE  q \in KeptIn(new, o)
                     <=> q \in KeptIn(rs, o) \/ (q = r /\ rs[r].po = o)
      BY <1>6, <1>8, <2>1, <2>2, <2>3 DEF KeptIn
    <3>. QED
      BY <3>1, <3>2
  <2>6. \A q \in KeptIn(rs, o) : f[q] \in Int
    BY <1>1, <2>5
  <2>7. CASE rs[r].po = o
    <3>1. /\ DOMAIN f = KeptIn(rs, o) /\ DOMAIN g = DOMAIN f \cup {r}
          /\ g[r] = OfProduct(rs[r].lines, p) /\ g[r] \in Int
          /\ \A q \in DOMAIN f : f[q] \in Int /\ g[q] = f[q]
      <4>1. DOMAIN f = KeptIn(rs, o) /\ DOMAIN g = DOMAIN f \cup {r}
        BY <2>5, <2>7
      <4>2. g[r] = OfProduct(new[r].lines, p)
        BY <2>5, <2>7
      <4>3. g[r] = OfProduct(rs[r].lines, p) /\ g[r] \in Int
        BY <1>1, <1>6, <4>2
      <4>4. \A q \in KeptIn(rs, o) : /\ f[q] = OfProduct(rs[q].lines, p)
                                     /\ g[q] = OfProduct(new[q].lines, p)
        BY <2>5, <2>7
      <4>5. \A q \in KeptIn(rs, o) : g[q] = f[q]
        BY <1>6, <2>5, <4>4
      <4>. QED
        BY <2>6, <4>1, <4>3, <4>5
    <3>. HIDE DEF f, g
    <3>2. SumFunction(g) = SumFunction(f) + g[r]
      BY <1>1, <2>5, <3>1, TotalAdd
    <3>. QED
      BY <2>4, <2>7, <3>1, <3>2
  <2>8. CASE rs[r].po # o
    <3>1. f = g
      BY <1>6, <2>5, <2>8
    <3>2. /\ DOMAIN f = KeptIn(rs, o)
          /\ \A q \in DOMAIN f : f[q] \in Int
      BY <2>6
    <3>. HIDE DEF f, g
    <3>3. SumFunction(f) \in Int
      BY <1>1, <3>2, TotalInt
    <3>. QED
      BY <2>4, <2>8, <3>1, <3>3
  <2>. QED
    BY <2>7, <2>8
<1>. QED
  BY <1>7, <1>11, <1>12, <1>13

(* Receipts that are new, or were not posted, are not posted now. *)
LEMMA NonePosted ==
  ASSUME NEW rs, Receipts(rs), NEW new \in Seq(Receipt), DOMAIN rs \subseteq DOMAIN new,
         \A q \in DOMAIN new :
             \/ q \in DOMAIN rs /\ new[q] = rs[q]
             \/ /\ new[q].status # "posted" /\ new[q].reversalOf = 0
                /\ q \in DOMAIN rs => rs[q].status # "posted"
  PROVE  /\ Receipts(new)
         /\ \A b : BroughtIn(new, b) = BroughtIn(rs, b) /\ TakenBackIn(new, b) = TakenBackIn(rs, b)
         /\ OnceIn(new) <=> OnceIn(rs)
         /\ \A o, p : CameIn(new, o, p) = CameIn(rs, o, p)
<1>1. DOMAIN rs = 1..Len(rs)
  BY ReceiptFacts
<1>2. ASSUME NEW q \in DOMAIN rs, rs[q].status = "posted" \/ rs[q].reversalOf # 0
      PROVE  new[q] = rs[q]
  BY <1>2 DEF Receipts
<1>3. ASSUME NEW q \in DOMAIN new, new[q].status = "posted" \/ new[q].reversalOf # 0
      PROVE  q \in DOMAIN rs /\ new[q] = rs[q]
  BY <1>3
<1>4. PostedIn(new) = PostedIn(rs)
  BY <1>2, <1>3 DEF PostedIn
<1>5. TakenIn(new) = TakenIn(rs)
  BY <1>2, <1>3 DEF TakenIn
<1>6. \A q \in PostedIn(rs) \cup TakenIn(rs) : new[q] = rs[q]
  BY <1>2 DEF PostedIn, TakenIn
<1>7. ASSUME NEW q \in DOMAIN rs, rs[q].reversalOf # 0
      PROVE  /\ rs[q].reversalOf \in 1..(q - 1) /\ rs[q].reversalOf \in DOMAIN rs
             /\ rs[q].status = "posted" /\ rs[rs[q].reversalOf].status = "posted"
             /\ new[rs[q].reversalOf] = rs[rs[q].reversalOf]
  <2>1. /\ rs[q].reversalOf \in 1..(q - 1)
        /\ rs[q].status = "posted" /\ rs[rs[q].reversalOf].status = "posted"
    BY <1>7 DEF Receipts
  <2>2. q \in 1..Len(rs) /\ Len(rs) \in Nat
    BY <1>1, ReceiptFacts
  <2>3. rs[q].reversalOf \in DOMAIN rs
    BY <1>1, <2>1, <2>2
  <2>. QED
    BY <1>2, <2>1, <2>3
<1>8. \A q \in TakenIn(rs) : new[rs[q].reversalOf] = rs[rs[q].reversalOf]
  BY <1>7 DEF TakenIn
<1>9. ASSUME NEW q \in DOMAIN new, new[q].reversalOf # 0
      PROVE  /\ new[q].reversalOf \in 1..(q - 1)
             /\ new[q].status = "posted" /\ new[new[q].reversalOf].status = "posted"
  BY <1>3, <1>7, <1>9
<1>10. Receipts(new)
  BY <1>9 DEF Receipts
<1>11. /\ \A b : BroughtIn(new, b) = BroughtIn(rs, b) /\ TakenBackIn(new, b) = TakenBackIn(rs, b)
       /\ OnceIn(new) <=> OnceIn(rs)
       /\ \A o, p : CameIn(new, o, p) = CameIn(rs, o, p)
  BY <1>4, <1>5, <1>6, <1>8, NothingPosted
<1>. QED
  BY <1>10, <1>11

(* A receipt is reversed. *)
Reversing(rs, r, new) ==
    /\ Receipts(rs) /\ r \in DOMAIN rs /\ rs[r].status = "posted"
    /\ \E reversal \in Receipt :
          /\ reversal.status = "posted" /\ reversal.reversalOf = r
          /\ reversal.po = rs[r].po /\ reversal.lines = rs[r].lines
          /\ new = Append(rs, reversal)

LEMMA OneReversed ==
  ASSUME NEW rs, NEW r, NEW new, Reversing(rs, r, new)
  PROVE  /\ Receipts(new)
         /\ \A b : /\ BroughtIn(new, b) = BroughtIn(rs, b)
                   /\ TakenBackIn(new, b) = TakenBackIn(rs, b) + Accepted(rs[r].lines, b)
         /\ OnceIn(new) =>
               /\ OnceIn(rs)
               /\ \A o, p : /\ CameIn(new, o, p) = CameIn(rs, o, p)
                                  - IF rs[r].po = o THEN OfProduct(rs[r].lines, p) ELSE 0
                            /\ rs[r].po = o => OfProduct(rs[r].lines, p) <= CameIn(rs, o, p)
<1>. Receipts(rs) /\ r \in DOMAIN rs /\ rs[r].status = "posted"
  BY DEF Reversing
<1>. PICK reversal \in Receipt :
          /\ reversal.status = "posted" /\ reversal.reversalOf = r
          /\ reversal.po = rs[r].po /\ reversal.lines = rs[r].lines
          /\ new = Append(rs, reversal)
  BY DEF Reversing
<1> DEFINE n == Len(rs) + 1
<1>1. /\ DOMAIN rs = 1..Len(rs) /\ Len(rs) \in Nat
      /\ IsFiniteSet(PostedIn(rs)) /\ IsFiniteSet(TakenIn(rs))
      /\ \A o : IsFiniteSet(KeptIn(rs, o))
      /\ \A q \in DOMAIN rs : /\ rs[q] \in Receipt
                              /\ \A b : Accepted(rs[q].lines, b) \in Nat
                              /\ \A p : OfProduct(rs[q].lines, p) \in Nat
  BY ReceiptFacts
<1>2. rs \in Seq(Receipt) /\ r \in 1..Len(rs)
  BY <1>1 DEF Receipts
<1>3. /\ new \in Seq(Receipt) /\ DOMAIN new = DOMAIN rs \cup {n} /\ n \notin DOMAIN rs
      /\ new[n] = reversal /\ \A q \in DOMAIN rs : new[q] = rs[q]
  BY <1>1, <1>2
<1>4. n = Len(rs) + 1
  OBVIOUS
<1>. HIDE DEF n
<1>5. ASSUME NEW q \in DOMAIN rs, rs[q].reversalOf # 0
      PROVE  /\ rs[q].reversalOf \in 1..(q - 1) /\ rs[q].reversalOf \in DOMAIN rs
             /\ rs[q].status = "posted" /\ rs[rs[q].reversalOf].status = "posted"
  BY <1>1, <1>5 DEF Receipts
<1>6. Receipts(new)
  <2>1. ASSUME NEW q \in DOMAIN new, new[q].reversalOf # 0
        PROVE  /\ new[q].reversalOf \in 1..(q - 1)
               /\ new[q].status = "posted" /\ new[new[q].reversalOf].status = "posted"
    <3>1. CASE q = n
      BY <1>1, <1>2, <1>3, <1>4, <3>1
    <3>2. CASE q \in DOMAIN rs
      BY <1>3, <1>5, <2>1, <3>2
    <3>. QED
      BY <1>3, <3>1, <3>2
  <2>. QED
    BY <1>3, <2>1 DEF Receipts
<1>7. r # 0
  BY <1>2
<1>8. PostedIn(new) = PostedIn(rs) /\ PostedIn(rs) \subseteq DOMAIN rs
  BY <1>3, <1>7 DEF PostedIn
<1>9. TakenIn(new) = TakenIn(rs) \cup {n} /\ n \notin TakenIn(rs) /\ TakenIn(rs) \subseteq DOMAIN rs
  BY <1>3, <1>7 DEF TakenIn
<1>10. ASSUME NEW b
       PROVE  /\ BroughtIn(new, b) = BroughtIn(rs, b)
              /\ TakenBackIn(new, b) = TakenBackIn(rs, b) + Accepted(rs[r].lines, b)
  <2>1. [q \in PostedIn(new) |-> Accepted(new[q].lines, b)]
            = [q \in PostedIn(rs) |-> Accepted(rs[q].lines, b)]
    BY <1>3, <1>8
  <2> DEFINE f == [q \in TakenIn(rs) |-> Accepted(rs[q].lines, b)]
             g == [q \in TakenIn(new) |-> Accepted(new[q].lines, b)]
  <2>2. DOMAIN f = TakenIn(rs) /\ DOMAIN g = DOMAIN f \cup {n}
    BY <1>9
  <2>3. g[n] = Accepted(new[n].lines, b)
    BY <1>9
  <2>4. \A q \in TakenIn(rs) : /\ f[q] = Accepted(rs[q].lines, b)
                               /\ g[q] = Accepted(new[q].lines, b)
    BY <1>9
  <2>5. TakenBackIn(rs, b) = SumFunction(f) /\ TakenBackIn(new, b) = SumFunction(g)
    BY DEF TakenBackIn
  <2>. HIDE DEF f, g
  <2>6. g[n] = Accepted(rs[r].lines, b) /\ g[n] \in Int
    BY <1>1, <1>3, <2>3
  <2>7. \A q \in DOMAIN f : f[q] \in Int /\ g[q] = f[q]
    BY <1>1, <1>3, <1>9, <2>2, <2>4
  <2>8. SumFunction(g) = SumFunction(f) + g[n]
    BY <1>1, <1>9, <2>2, <2>6, <2>7, TotalAdd
  <2>. QED
    BY <2>1, <2>5, <2>6, <2>8 DEF BroughtIn
<1>11. ASSUME OnceIn(new)
       PROVE  /\ OnceIn(rs) /\ rs[r].reversalOf = 0
              /\ \A q \in TakenIn(rs) : rs[q].reversalOf # r
  <2>1. \A q, s \in TakenIn(rs) \cup {n} : /\ new[new[q].reversalOf].reversalOf = 0
                                           /\ new[q].reversalOf = new[s].reversalOf => q = s
    BY <1>9, <1>11 DEF OnceIn
  <2>2. \A q \in TakenIn(rs) : /\ new[q].reversalOf = rs[q].reversalOf
                               /\ new[rs[q].reversalOf].reversalOf
                                      = rs[rs[q].reversalOf].reversalOf
    BY <1>3, <1>5, <1>9 DEF TakenIn
  <2>3. new[n].reversalOf = r /\ new[r].reversalOf = rs[r].reversalOf
    BY <1>3
  <2>4. OnceIn(rs)
    <3>1. ASSUME NEW q \in TakenIn(rs), NEW s \in TakenIn(rs)
          PROVE  /\ rs[rs[q].reversalOf].reversalOf = 0
                 /\ rs[q].reversalOf = rs[s].reversalOf => q = s
      <4>1. /\ new[new[q].reversalOf].reversalOf = 0
            /\ new[q].reversalOf = new[s].reversalOf => q = s
        BY <2>1
      <4>2. /\ new[q].reversalOf = rs[q].reversalOf /\ new[s].reversalOf = rs[s].reversalOf
            /\ new[rs[q].reversalOf].reversalOf = rs[rs[q].reversalOf].reversalOf
        BY <2>2
      <4>. QED
        BY <4>1, <4>2
    <3>. QED
      BY <3>1 DEF OnceIn
  <2>5. rs[r].reversalOf = 0
    BY <2>1, <2>3
  <2>6. ASSUME NEW q \in TakenIn(rs)
        PROVE  rs[q].reversalOf # r
    <3>1. new[q].reversalOf = new[n].reversalOf => q = n
      BY <2>1
    <3>2. new[q].reversalOf = rs[q].reversalOf /\ q # n
      BY <1>9, <2>2
    <3>. QED
      BY <2>3, <3>1, <3>2
  <2>. QED
    BY <2>4, <2>5, <2>6
<1>12. ASSUME OnceIn(new), NEW o, NEW p
       PROVE  /\ CameIn(new, o, p) = CameIn(rs, o, p)
                    - IF rs[r].po = o THEN OfProduct(rs[r].lines, p) ELSE 0
              /\ rs[r].po = o => OfProduct(rs[r].lines, p) <= CameIn(rs, o, p)
  <2>1. {new[q].reversalOf : q \in TakenIn(new)}
            = {rs[q].reversalOf : q \in TakenIn(rs)} \cup {r}
    BY <1>3, <1>9
  <2>2. r \in PostedIn(rs) /\ r \notin {rs[q].reversalOf : q \in TakenIn(rs)}
    BY <1>11, <1>12 DEF PostedIn
  <2>3. KeptIn(rs, o) \subseteq DOMAIN rs
    BY <1>8 DEF KeptIn
  <2>4. rs[r].po = o <=> r \in KeptIn(rs, o)
    BY <2>2 DEF KeptIn
  <2>5. KeptIn(new, o) = KeptIn(rs, o) \ {r}
    <3>1. ASSUME NEW q
          PROVE  q \in KeptIn(new, o) <=> q \in KeptIn(rs, o) /\ q # r
      BY <1>3, <1>8, <2>1 DEF KeptIn
    <3>. QED
      BY <3>1
  <2> DEFINE f == [q \in KeptIn(new, o) |-> OfProduct(new[q].lines, p)]
             g == [q \in KeptIn(rs, o) |-> OfProduct(rs[q].lines, p)]
  <2>6. \A q \in KeptIn(new, o) : /\ f[q] = OfProduct(new[q].lines, p)
                                  /\ g[q] = OfProduct(rs[q].lines, p)
    BY <2>5
  <2>7. DOMAIN f = KeptIn(rs, o) \ {r} /\ DOMAIN g = KeptIn(rs, o)
    BY <2>5
  <2>8. r \in KeptIn(rs, o) => g[r] = OfProduct(rs[r].lines, p)
    OBVIOUS
  <2>9. CameIn(new, o, p) = SumFunction(f) /\ CameIn(rs, o, p) = SumFunction(g)
    BY DEF CameIn
  <2>. HIDE DEF f, g
  <2>10. \A q \in DOMAIN f : f[q] \in Int /\ g[q] = f[q]
    <3>1. ASSUME NEW q \in DOMAIN f
          PROVE  f[q] \in Int /\ g[q] = f[q]
      <4>1. q \in KeptIn(new, o) /\ q \in DOMAIN rs
        BY <2>3, <2>5, <2>7
      <4>2. f[q] = OfProduct(new[q].lines, p) /\ g[q] = OfProduct(rs[q].lines, p)
        BY <2>6, <4>1
      <4>3. new[q] = rs[q] /\ OfProduct(rs[q].lines, p) \in Int
        BY <1>1, <1>3, <4>1
      <4>. QED
        BY <4>2, <4>3
    <3>. QED
      BY <3>1
  <2>11. IsFiniteSet(DOMAIN f)
    BY <1>1, <2>7, FS_Subset
  <2>12. SumFunction(f) \in Int
    BY <2>10, <2>11, TotalInt
  <2>13. CASE rs[r].po = o
    <3>1. DOMAIN g = DOMAIN f \cup {r} /\ r \notin DOMAIN f
      BY <2>4, <2>7, <2>13
    <3>2. g[r] = OfProduct(rs[r].lines, p) /\ g[r] \in Int
      BY <1>1, <2>4, <2>8, <2>13
    <3>3. SumFunction(g) = SumFunction(f) + g[r]
      BY <2>10, <2>11, <3>1, <3>2, TotalAdd
    <3>4. OfProduct(rs[r].lines, p) <= CameIn(rs, o, p)
      BY <2>4, <2>13, CameTotals
    <3>. QED
      BY <2>9, <2>12, <2>13, <3>2, <3>3, <3>4
  <2>14. CASE rs[r].po # o
    <3>1. DOMAIN g = DOMAIN f
      BY <2>4, <2>7, <2>14
    <3>2. SumFunction(g) = SumFunction(f)
      BY <2>10, <2>11, <3>1, TotalSame
    <3>. QED
      BY <2>9, <2>12, <2>14, <3>2
  <2>. QED
    BY <2>13, <2>14
<1>. QED
  BY <1>6, <1>10, <1>11, <1>12

-----------------------------------------------------------------------------
(* Orders *)

StatusFits(order) ==
    LET received == ReceivedIn(order.lines)
        ordered  == OrderedIn(order.lines)
    IN  /\ order.status = "partially_received" => 0 < received /\ received < ordered
        /\ order.status = "fully_received" => received >= ordered

StockFits(on, gone, rs) ==
    \A b \in Keys : on[b] >= 0 /\ on[b] = BroughtIn(rs, b) - TakenBackIn(rs, b) - gone[b]

OrdersFit(os, rs) ==
    OnceIn(rs) =>
        \A o \in DOMAIN os : os[o].ver = 0 =>
            \A l \in OrderLines : os[o].lines[l].received = CameIn(rs, o, ProductOf[l])

(* The invariant, in terms of the sums above. *)
LEMMA InTerms ==
  /\ IInv <=> /\ DocumentsInv /\ CallsInv
              /\ StockFits(onHand, used, receipts)
              /\ \A o \in DOMAIN orders : StatusFits(orders[o])
              /\ OrdersFit(orders, receipts)
  /\ IInv' <=> /\ DocumentsInv' /\ CallsInv'
               /\ StockFits(onHand', used', receipts')
               /\ \A o \in DOMAIN orders' : StatusFits(orders'[o])
               /\ OrdersFit(orders', receipts')
<1>1. /\ StockMatchesReceipts <=> StockFits(onHand, used, receipts)
      /\ StockMatchesReceipts' <=> StockFits(onHand', used', receipts')
  BY DEF StockMatchesReceipts, StockFits, BroughtIn, TakenBackIn, Posted, Taken, PostedIn, TakenIn
<1>2. /\ StatusMatchesReceived <=> \A o \in DOMAIN orders : StatusFits(orders[o])
      /\ StatusMatchesReceived' <=> \A o \in DOMAIN orders' : StatusFits(orders'[o])
  BY DEF StatusMatchesReceived, StatusFits
<1>3. /\ OrderMatchesReceipts <=> OrdersFit(orders, receipts)
      /\ OrderMatchesReceipts' <=> OrdersFit(orders', receipts')
  BY DEF OrderMatchesReceipts, OrdersFit, CameIn, KeptIn, OnceIn, ReversedAtMostOnce,
         Posted, Taken, PostedIn, TakenIn
<1>. QED
  BY <1>1, <1>2, <1>3 DEF IInv

(* The receiving status is derived from the lines. *)
LEMMA DerivedStatus ==
  ASSUME NEW lines \in [OrderLines -> OrderLine], NEW status \in OrderStatus,
         NEW order, order.lines = lines, order.status = ReceivingStatus(status, lines)
  PROVE  StatusFits(order) /\ order.status \in OrderStatus
<1>1. OrderedIn(lines) \in Nat /\ ReceivedIn(lines) \in Nat
  BY OrderTotals
<1>2. PICK ordered \in Nat, received \in Nat :
          ordered = OrderedIn(lines) /\ received = ReceivedIn(lines)
  BY <1>1
<1>3. \/ order.status = status
           /\ status \notin {"approved", "partially_received", "fully_received"}
      \/ order.status = "approved"
      \/ order.status = "partially_received" /\ received > 0 /\ received < ordered
      \/ order.status = "fully_received" /\ received >= ordered
  BY <1>2 DEF ReceivingStatus
<1>. QED
  BY <1>2, <1>3 DEF StatusFits, OrderStatus

LEMMA LinesReceived ==
  ASSUME NEW lines \in [OrderLines -> OrderLine], NEW delta,
         \A l \in OrderLines : delta[ProductOf[l]] \in Int,
         NEW new, new = ReceivedLines(lines, delta)
  PROVE  /\ new \in [OrderLines -> OrderLine]
         /\ \A l \in OrderLines :
                new[l].received = IF lines[l].received + delta[ProductOf[l]] > 0
                                  THEN lines[l].received + delta[ProductOf[l]] ELSE 0
<1>1. ASSUME NEW l \in OrderLines
      PROVE  /\ new[l] \in OrderLine
             /\ new[l].received = IF lines[l].received + delta[ProductOf[l]] > 0
                                  THEN lines[l].received + delta[ProductOf[l]] ELSE 0
  <2>1. lines[l] \in OrderLine
    OBVIOUS
  <2>2. PICK sum : sum = lines[l].received + delta[ProductOf[l]]
    OBVIOUS
  <2>3. sum \in Int
    BY <2>1, <2>2 DEF OrderLine
  <2>4. PICK more : more = Max({0, sum})
    OBVIOUS
  <2>5. more = (IF sum > 0 THEN sum ELSE 0) /\ more \in Nat
    BY <2>3, <2>4, MaxOfZero
  <2>6. new[l] = [lines[l] EXCEPT !.received = more]
    BY <2>2, <2>4 DEF ReceivedLines
  <2>7. new[l] \in OrderLine /\ new[l].received = more
    BY <2>1, <2>5, <2>6 DEF OrderLine
  <2>. QED
    BY <2>2, <2>5, <2>7
<1>2. new = [l \in OrderLines |-> new[l]]
  BY DEF ReceivedLines
<1>. QED
  BY <1>1, <1>2

LEMMA OrdersReceived ==
  ASSUME DocumentsInv, \A o \in DOMAIN orders : StatusFits(orders[o]),
         NEW po \in SomeOrder, NEW delta, \A l \in OrderLines : delta[ProductOf[l]] \in Int,
         ApplyReceived(po, delta)
  PROVE  /\ orders' \in Seq(Order) /\ DOMAIN orders' = DOMAIN orders
         /\ \A o \in DOMAIN orders' : StatusFits(orders'[o])
         /\ \A o \in DOMAIN orders :
               /\ orders'[o].ver = orders[o].ver
               /\ \A l \in OrderLines :
                     LET received == orders[o].lines[l].received
                         sum      == received + delta[ProductOf[l]]
                     IN  orders'[o].lines[l].received =
                             IF o # po THEN received ELSE IF sum > 0 THEN sum ELSE 0
<1>1. PICK os : os = orders
  OBVIOUS
<1>2. os \in Seq(Order) /\ DOMAIN os = 1..Len(os) /\ \A o \in DOMAIN os : os[o] \in Order
  BY <1>1, SequenceDomain DEF DocumentsInv
<1>3. CASE po = 0
  <2>1. orders' = os
    BY <1>1, <1>3 DEF ApplyReceived
  <2>2. \A o \in DOMAIN os : o # 0
    BY <1>2
  <2>. QED
    BY <1>1, <1>2, <1>3, <2>1, <2>2
<1>4. CASE po # 0
  <2>1. po \in DOMAIN os
    BY <1>1, <1>4 DEF SomeOrder
  <2>2. os[po].lines \in [OrderLines -> OrderLine] /\ os[po].status \in OrderStatus
    BY <1>2, <2>1 DEF Order
  <2>3. PICK lines : lines = ReceivedLines(os[po].lines, delta)
    OBVIOUS
  <2>4. /\ lines \in [OrderLines -> OrderLine]
        /\ \A l \in OrderLines :
               lines[l].received = IF os[po].lines[l].received + delta[ProductOf[l]] > 0
                                   THEN os[po].lines[l].received + delta[ProductOf[l]] ELSE 0
    BY <2>2, <2>3, LinesReceived
  <2>5. PICK status : status = ReceivingStatus(os[po].status, lines)
    OBVIOUS
  <2>6. PICK order : order = [os[po] EXCEPT !.lines = lines, !.status = status]
    OBVIOUS
  <2>7. os[po] \in Order
    BY <1>2, <2>1
  <2>8. order.lines = lines /\ order.status = status /\ order.ver = os[po].ver
    BY <2>6, <2>7 DEF Order
  <2>9. StatusFits(order) /\ status \in OrderStatus
    BY <2>2, <2>4, <2>5, <2>8, DerivedStatus
  <2>10. order \in Order
    BY <2>4, <2>6, <2>7, <2>9 DEF Order
  <2>11. orders' = [os EXCEPT ![po] = order]
    BY <1>1, <1>4, <2>1, <2>3, <2>5, <2>6 DEF ApplyReceived
  <2>12. /\ orders' \in Seq(Order) /\ DOMAIN orders' = DOMAIN os
         /\ orders'[po] = order /\ \A o \in DOMAIN os \ {po} : orders'[o] = os[o]
    BY <1>2, <2>1, <2>10, <2>11
  <2>13. ASSUME NEW o \in DOMAIN os
         PROVE  /\ StatusFits(orders'[o]) /\ orders'[o].ver = os[o].ver
                /\ \A l \in OrderLines :
                      orders'[o].lines[l].received =
                          IF o # po THEN os[o].lines[l].received
                          ELSE IF os[o].lines[l].received + delta[ProductOf[l]] > 0
                               THEN os[o].lines[l].received + delta[ProductOf[l]] ELSE 0
    <3>1. CASE o = po
      BY <2>4, <2>8, <2>9, <2>12, <3>1
    <3>2. CASE o # po
      BY <1>1, <2>12, <3>2
    <3>. QED
      BY <3>1, <3>2
  <2>. QED
    BY <1>1, <2>12, <2>13
<1>. QED
  BY <1>3, <1>4

-----------------------------------------------------------------------------
(* Reading *)

LEMMA InputLines ==
  ASSUME NEW lines \in ReceiptInputs \cup {<<>>}
  PROVE  lines \in Seq(ReceiptLine)
<1>1. CASE lines = <<>>
  BY <1>1
<1>2. CASE lines \in ReceiptInputs
  <2>1. PICK n \in 1..MaxReceiptLines : lines \in [1..n -> [key : Keys, accepted : Quantities]]
    BY <1>2 DEF ReceiptInputs
  <2>2. n \in Nat
    BY <2>1, ProcurementAssumption
  <2>3. [key : Keys, accepted : Quantities] \subseteq ReceiptLine
    BY ProcurementAssumption DEF ReceiptLine
  <2>4. lines \in [1..n -> ReceiptLine]
    BY <2>1, <2>3
  <2>. QED
    BY <2>2, <2>4
<1>. QED
  BY <1>1, <1>2

(* A call keeps its inputs while documents are only added. *)
LEMMA CallsStay ==
  ASSUME CallsInv, NEW c,
         client' = client \/ client' = [client EXCEPT ![c] = Idle],
         DOMAIN orders \subseteq DOMAIN orders', DOMAIN receipts \subseteq DOMAIN receipts'
  PROVE  CallsInv'
<1>1. SomeOrder \subseteq SomeOrder'
  BY DEF SomeOrder
<1>2. ASSUME NEW call, CallInv(call)
      PROVE  CallInv(call)'
  BY <1>1, <1>2 DEF CallInv
<1>3. CallInv(Idle)' /\ DOMAIN Idle = {"op", "doc", "data"}
  BY DEF CallInv, Idle
<1>4. DOMAIN client = Clients
  BY DEF CallsInv
<1>5. DOMAIN client' = Clients /\ \A d \in Clients : client'[d] \in {client[d], Idle}
  BY <1>4
<1>6. ASSUME NEW d \in Clients, NEW call, call = client'[d]
      PROVE  DOMAIN call = {"op", "doc", "data"} /\ CallInv(call)'
  <2>1. PICK was : was = client[d]
    OBVIOUS
  <2>2. DOMAIN was = {"op", "doc", "data"} /\ CallInv(was)
    BY <2>1 DEF CallsInv
  <2>3. CallInv(was)'
    BY <1>2, <2>2
  <2>4. call \in {was, Idle}
    BY <1>5, <1>6, <2>1
  <2>. QED
    BY <1>3, <2>2, <2>3, <2>4
<1>. QED
  BY <1>5, <1>6 DEF CallsInv

LEMMA CallRead ==
  ASSUME IInv, NEW c \in Clients, NEW op, NEW doc, NEW data, Read(c, op, doc, data),
         CallInv([op |-> op, doc |-> doc, data |-> data])
  PROVE  IInv'
<1>1. PICK call : call = [op |-> op, doc |-> doc, data |-> data]
  OBVIOUS
<1>2. /\ client' = [client EXCEPT ![c] = call]
      /\ onHand' = onHand /\ used' = used /\ orders' = orders /\ receipts' = receipts
  BY <1>1 DEF Read, stock
<1>3. CallInv(call) /\ DOMAIN call = {"op", "doc", "data"}
  BY <1>1
<1>4. CallsInv
  BY DEF IInv
<1>5. /\ DOMAIN client' = Clients
      /\ \A d \in Clients : client'[d] = IF d = c THEN call ELSE client[d]
  BY <1>2, <1>4 DEF CallsInv
<1>6. \A d \in Clients : DOMAIN client'[d] = {"op", "doc", "data"} /\ CallInv(client'[d])
  BY <1>3, <1>4, <1>5 DEF CallsInv
<1>7. CallsInv'
  BY <1>2, <1>5, <1>6 DEF CallsInv, CallInv, SomeOrder
<1>8. DocumentsInv'
  BY <1>2 DEF IInv, DocumentsInv, SomeOrder
<1>. QED
  BY <1>2, <1>7, <1>8, InTerms

LEMMA Reads ==
  ASSUME IInv, NEW c \in Clients,
         \/ \E o \in DOMAIN orders :
               \/ \E ordered \in [OrderLines -> Ordered] : ReadUpdateOrder(c, o, ordered)
               \/ \E to \in OrderStatus : ReadOrderStatus(c, o, to)
         \/ \E po \in SomeOrder, lines \in ReceiptInputs : ReadCreateReceipt(c, po, lines)
         \/ \E r \in DOMAIN receipts :
               \/ \E po \in SomeOrder, lines \in ReceiptInputs \cup {<<>>} :
                     ReadUpdateReceipt(c, r, po, lines)
               \/ ReadVerifyReceipt(c, r)
  PROVE  IInv'
<1>1. ASSUME NEW o \in DOMAIN orders, NEW ordered \in [OrderLines -> Ordered],
             ReadUpdateOrder(c, o, ordered)
      PROVE  IInv'
  <2>1. orders[o] \in Order
    BY SequenceDomain DEF IInv, DocumentsInv
  <2>2. PICK data : data = [ver |-> orders[o].ver, ordered |-> ordered]
    OBVIOUS
  <2>3. data.ver \in Nat /\ data.ordered \in [OrderLines -> Ordered]
    BY <2>1, <2>2 DEF Order
  <2>4. CallInv([op |-> "updateOrder", doc |-> o, data |-> data])
    BY <2>3 DEF CallInv
  <2>5. Read(c, "updateOrder", o, data)
    BY <1>1, <2>2 DEF ReadUpdateOrder
  <2>. QED
    BY <2>4, <2>5, CallRead
<1>2. ASSUME NEW o \in DOMAIN orders, NEW to, ReadOrderStatus(c, o, to)
      PROVE  IInv'
  <2>1. /\ to \in {"submitted", "approved", "rejected", "cancelled", "closed"}
        /\ Read(c, "orderStatus", o, to)
    BY <1>2 DEF ReadOrderStatus
  <2>2. CallInv([op |-> "orderStatus", doc |-> o, data |-> to])
    BY <2>1 DEF CallInv
  <2>. QED
    BY <2>1, <2>2, CallRead
<1>3. ASSUME NEW po \in SomeOrder, NEW lines \in ReceiptInputs, ReadCreateReceipt(c, po, lines)
      PROVE  IInv'
  <2>1. PICK data : data = [po |-> po, lines |-> lines]
    OBVIOUS
  <2>2. data.po \in SomeOrder /\ data.lines \in Seq(ReceiptLine)
    BY <2>1, InputLines
  <2>3. CallInv([op |-> "createReceipt", doc |-> 0, data |-> data])
    BY <2>2 DEF CallInv
  <2>4. Read(c, "createReceipt", 0, data)
    BY <1>3, <2>1 DEF ReadCreateReceipt
  <2>. QED
    BY <2>3, <2>4, CallRead
<1>4. ASSUME NEW r \in DOMAIN receipts, NEW po \in SomeOrder,
             NEW lines \in ReceiptInputs \cup {<<>>}, ReadUpdateReceipt(c, r, po, lines)
      PROVE  IInv'
  <2>1. PICK data : data = [ver |-> receipts[r].ver, po |-> po, lines |-> lines]
    OBVIOUS
  <2>2. data.po \in SomeOrder /\ data.lines \in Seq(ReceiptLine)
    BY <2>1, InputLines
  <2>3. CallInv([op |-> "updateReceipt", doc |-> r, data |-> data])
    BY <2>2 DEF CallInv
  <2>4. Read(c, "updateReceipt", r, data)
    BY <1>4, <2>1 DEF ReadUpdateReceipt
  <2>. QED
    BY <2>3, <2>4, CallRead
<1>5. ASSUME NEW r \in DOMAIN receipts, ReadVerifyReceipt(c, r)
      PROVE  IInv'
  <2>1. CallInv([op |-> "verifyReceipt", doc |-> r, data |-> <<>>])
    BY DEF CallInv
  <2>2. Read(c, "verifyReceipt", r, <<>>)
    BY <1>5 DEF ReadVerifyReceipt
  <2>. QED
    BY <2>1, <2>2, CallRead
<1>. QED
  BY <1>1, <1>2, <1>3, <1>4, <1>5

-----------------------------------------------------------------------------
(* Storing and saving orders *)

LEMMA OrdersChanged ==
  ASSUME IInv, orders' \in Seq(Order), DOMAIN orders \subseteq DOMAIN orders', CallsInv',
         onHand' = onHand, used' = used, receipts' = receipts,
         \A o \in DOMAIN orders' : StatusFits(orders'[o]),
         OrdersFit(orders', receipts)
  PROVE  IInv'
<1>1. DocumentsInv'
  BY DEF IInv, DocumentsInv, SomeOrder
<1>2. StockFits(onHand', used', receipts') /\ OrdersFit(orders', receipts')
  BY InTerms
<1>. QED
  BY <1>1, <1>2, InTerms

(* One order is replaced. *)
LEMMA OrderReplaced ==
  ASSUME IInv, NEW o \in DOMAIN orders, NEW order \in Order,
         orders' = [orders EXCEPT ![o] = order],
         onHand' = onHand, used' = used, receipts' = receipts, CallsInv',
         StatusFits(order),
         order.ver = 0 => order.ver = orders[o].ver /\ order.lines = orders[o].lines
  PROVE  IInv'
<1>1. PICK os : os = orders
  OBVIOUS
<1>2. os \in Seq(Order) /\ o \in DOMAIN os
  BY <1>1 DEF IInv, DocumentsInv
<1>3. /\ orders' \in Seq(Order) /\ DOMAIN orders' = DOMAIN os
      /\ orders'[o] = order /\ \A q \in DOMAIN os \ {o} : orders'[q] = os[q]
  BY <1>1, <1>2
<1>4. (\A q \in DOMAIN os : StatusFits(os[q])) /\ OrdersFit(os, receipts)
  BY <1>1, InTerms
<1>5. \A q \in DOMAIN orders' : StatusFits(orders'[q])
  BY <1>3, <1>4
<1>6. ASSUME OnceIn(receipts), NEW q \in DOMAIN orders', orders'[q].ver = 0,
             NEW l \in OrderLines
      PROVE  orders'[q].lines[l].received = CameIn(receipts, q, ProductOf[l])
  <2>1. q \in DOMAIN os /\ os[q].ver = 0 /\ orders'[q].lines = os[q].lines
    BY <1>1, <1>3, <1>6
  <2>2. os[q].lines[l].received = CameIn(receipts, q, ProductOf[l])
    BY <1>4, <1>6, <2>1 DEF OrdersFit
  <2>. QED
    BY <2>1, <2>2
<1>7. OrdersFit(orders', receipts)
  BY <1>6 DEF OrdersFit
<1>. QED
  BY <1>1, <1>3, <1>5, <1>7, OrdersChanged

LEMMA FreshLines ==
  ASSUME NEW ordered \in [OrderLines -> Ordered]
  PROVE  /\ Fresh(ordered) \in [OrderLines -> OrderLine]
         /\ \A l \in OrderLines : Fresh(ordered)[l].received = 0
BY ProcurementAssumption DEF Fresh, OrderLine

LEMMA OrderCreated ==
  ASSUME IInv, NEW c \in Clients, NEW ordered \in [OrderLines -> Ordered],
         CreateOrder(c, ordered)
  PROVE  IInv'
<1>1. PICK os : os = orders
  OBVIOUS
<1>2. PICK order : order = [status |-> "draft", ver |-> 0, lines |-> Fresh(ordered)]
  OBVIOUS
<1>3. /\ orders' = Append(os, order)
      /\ onHand' = onHand /\ used' = used /\ receipts' = receipts /\ client' = client
  BY <1>1, <1>2 DEF CreateOrder, InOneTransaction, stock
<1>4. /\ order \in Order /\ order.ver = 0 /\ order.status = "draft"
      /\ \A l \in OrderLines : order.lines[l].received = 0
  BY <1>2, FreshLines DEF Order, OrderStatus
<1>5. os \in Seq(Order) /\ DOMAIN os = 1..Len(os) /\ Len(os) \in Nat
  BY <1>1, SequenceDomain DEF IInv, DocumentsInv
<1>6. PICK n : n = Len(os) + 1
  OBVIOUS
<1>7. /\ orders' \in Seq(Order) /\ DOMAIN orders' = DOMAIN os \cup {n} /\ n \notin DOMAIN os
      /\ orders'[n] = order /\ \A o \in DOMAIN os : orders'[o] = os[o]
  BY <1>3, <1>4, <1>5, <1>6
<1>8. (\A o \in DOMAIN os : StatusFits(os[o])) /\ OrdersFit(os, receipts)
  BY <1>1, InTerms
<1>9. StatusFits(order)
  BY <1>4 DEF StatusFits
<1>10. \A o \in DOMAIN orders' : StatusFits(orders'[o])
  BY <1>7, <1>8, <1>9
<1>11. ASSUME NEW p
       PROVE  CameIn(receipts, n, p) = 0
  <2>1. n # 0 /\ n \notin SomeOrder
    BY <1>1, <1>5, <1>6, <1>7 DEF SomeOrder
  <2>2. \A r \in DOMAIN receipts : receipts[r].po # n
    BY <2>1 DEF IInv, DocumentsInv
  <2>3. KeptIn(receipts, n) = {}
    BY <2>2 DEF KeptIn, PostedIn
  <2> DEFINE f == [r \in KeptIn(receipts, n) |-> OfProduct(receipts[r].lines, p)]
  <2>4. DOMAIN f = {} /\ CameIn(receipts, n, p) = SumFunction(f)
    BY <2>3 DEF CameIn
  <2>. HIDE DEF f
  <2>. QED
    BY <2>4, TotalEmpty
<1>12. ASSUME OnceIn(receipts), NEW o \in DOMAIN orders', orders'[o].ver = 0,
              NEW l \in OrderLines
       PROVE  orders'[o].lines[l].received = CameIn(receipts, o, ProductOf[l])
  <2>1. CASE o = n
    BY <1>4, <1>7, <1>11, <2>1
  <2>2. CASE o \in DOMAIN os
    BY <1>7, <1>8, <1>12, <2>2 DEF OrdersFit
  <2>. QED
    BY <1>7, <2>1, <2>2
<1>13. OrdersFit(orders', receipts)
  BY <1>12 DEF OrdersFit
<1>14. CallsInv'
  BY <1>1, <1>3, <1>7, CallsStay DEF IInv
<1>. QED
  BY <1>1, <1>3, <1>7, <1>10, <1>13, <1>14, OrdersChanged

LEMMA OrderEdited ==
  ASSUME IInv, NEW c \in Clients, SaveUpdateOrder(c), StillAllowed(c)
  PROVE  IInv'
<1>1. PICK o, data : o = client[c].doc /\ data = client[c].data
  OBVIOUS
<1>2. /\ client[c].op = "updateOrder" /\ client' = [client EXCEPT ![c] = Idle]
      /\ onHand' = onHand /\ used' = used /\ receipts' = receipts
      /\ orders' = IF orders[o].ver # data.ver THEN orders
                   ELSE [orders EXCEPT ![o].ver = @ + 1, ![o].lines = Fresh(data.ordered)]
  BY <1>1 DEF SaveUpdateOrder, Saving, stock
<1>3. CallInv(client[c])
  BY DEF IInv, CallsInv
<1>4. /\ o \in DOMAIN orders /\ orders[o].status = "draft"
      /\ data.ordered \in [OrderLines -> Ordered]
  BY <1>1, <1>2, <1>3 DEF CallInv, StillAllowed
<1>5. PICK was : was = orders[o]
  OBVIOUS
<1>6. was \in Order /\ was.status = "draft" /\ orders \in Seq(Order)
  BY <1>4, <1>5, SequenceDomain DEF IInv, DocumentsInv
<1>7. CASE was.ver # data.ver
  <2>1. orders' = orders
    BY <1>2, <1>5, <1>7
  <2>2. CallsInv'
    BY <1>2, <2>1, CallsStay DEF IInv
  <2>. QED
    BY <1>2, <1>6, <2>1, <2>2, InTerms, OrdersChanged
<1>8. CASE was.ver = data.ver
  <2>1. PICK lines, ver : lines = Fresh(data.ordered) /\ ver = was.ver + 1
    OBVIOUS
  <2>2. PICK order : order = [was EXCEPT !.ver = ver, !.lines = lines]
    OBVIOUS
  <2>3. lines \in [OrderLines -> OrderLine]
    BY <1>4, <2>1, FreshLines
  <2>4. was.ver \in Nat /\ ver \in Nat /\ ver # 0
    BY <1>6, <2>1 DEF Order
  <2>5. order \in Order /\ order.status = "draft" /\ order.ver = ver
    BY <1>6, <2>2, <2>3, <2>4 DEF Order
  <2>6. orders' = [orders EXCEPT ![o] = order]
    BY <1>2, <1>4, <1>5, <1>8, <2>1, <2>2
  <2>7. StatusFits(order) /\ order.ver # 0
    BY <2>4, <2>5 DEF StatusFits
  <2>8. DOMAIN orders' = DOMAIN orders
    BY <2>6
  <2>9. CallsInv'
    BY <1>2, <2>8, CallsStay DEF IInv
  <2>. QED
    BY <1>2, <1>4, <2>5, <2>6, <2>7, <2>9, OrderReplaced
<1>. QED
  BY <1>7, <1>8

LEMMA OrderMoved ==
  ASSUME IInv, NEW c \in Clients, SaveOrderStatus(c)
  PROVE  IInv'
<1>1. PICK o, to : o = client[c].doc /\ to = client[c].data
  OBVIOUS
<1>2. /\ client[c].op = "orderStatus" /\ client' = [client EXCEPT ![c] = Idle]
      /\ onHand' = onHand /\ used' = used /\ receipts' = receipts
      /\ orders' = [orders EXCEPT ![o].status = to]
  BY <1>1 DEF SaveOrderStatus, Saving, stock
<1>3. CallInv(client[c])
  BY DEF IInv, CallsInv
<1>4. o \in DOMAIN orders /\ to \in {"submitted", "approved", "rejected", "cancelled", "closed"}
  BY <1>1, <1>2, <1>3 DEF CallInv
<1>5. PICK was : was = orders[o]
  OBVIOUS
<1>6. was \in Order
  BY <1>4, <1>5, SequenceDomain DEF IInv, DocumentsInv
<1>7. PICK order : order = [was EXCEPT !.status = to]
  OBVIOUS
<1>8. /\ order \in Order /\ order.status = to /\ order.ver = was.ver /\ order.lines = was.lines
  BY <1>4, <1>6, <1>7 DEF Order, OrderStatus
<1>9. orders' = [orders EXCEPT ![o] = order]
  BY <1>2, <1>4, <1>5, <1>7
<1>10. StatusFits(order)
  BY <1>4, <1>8 DEF StatusFits
<1>11. CallsInv'
  BY <1>2, <1>9, CallsStay DEF IInv
<1>. QED
  BY <1>2, <1>4, <1>5, <1>8, <1>9, <1>10, <1>11, OrderReplaced

-----------------------------------------------------------------------------
(* Storing and saving receipts *)

LEMMA ReceiptsChanged ==
  ASSUME IInv, NEW new \in Seq(Receipt), receipts' = new, DOMAIN receipts \subseteq DOMAIN new,
         orders' = orders, onHand' = onHand, used' = used, CallsInv',
         \A q \in DOMAIN new :
             \/ q \in DOMAIN receipts /\ new[q] = receipts[q]
             \/ /\ new[q].status # "posted" /\ new[q].reversalOf = 0 /\ new[q].po \in SomeOrder
                /\ q \in DOMAIN receipts => receipts[q].status # "posted"
  PROVE  IInv'
<1>1. PICK rs : rs = receipts
  OBVIOUS
<1>2. Receipts(rs)
  BY <1>1 DEF IInv, DocumentsInv, Receipts
<1>3. /\ Receipts(new)
      /\ \A b : BroughtIn(new, b) = BroughtIn(rs, b) /\ TakenBackIn(new, b) = TakenBackIn(rs, b)
      /\ OnceIn(new) <=> OnceIn(rs)
      /\ \A o, p : CameIn(new, o, p) = CameIn(rs, o, p)
  BY <1>1, <1>2, NonePosted
<1>4. /\ StockFits(onHand, used, rs) /\ OrdersFit(orders, rs)
      /\ \A o \in DOMAIN orders : StatusFits(orders[o])
  BY <1>1, InTerms
<1>5. StockFits(onHand, used, new)
  BY <1>3, <1>4 DEF StockFits
<1>6. OrdersFit(orders, new)
  BY <1>3, <1>4 DEF OrdersFit
<1>7. \A q \in DOMAIN new : new[q].po \in SomeOrder
  BY DEF IInv, DocumentsInv
<1>8. DocumentsInv'
  BY <1>3, <1>7 DEF IInv, DocumentsInv, Receipts, SomeOrder
<1>. QED
  BY <1>4, <1>5, <1>6, <1>8, InTerms

(* One receipt that is not posted is replaced by one that is not. *)
LEMMA ReceiptReplaced ==
  ASSUME IInv, NEW c, client' = [client EXCEPT ![c] = Idle],
         NEW r \in DOMAIN receipts, receipts[r].status # "posted",
         NEW receipt \in Receipt, receipt.status # "posted",
         receipt.reversalOf = 0, receipt.po \in SomeOrder,
         receipts' = [receipts EXCEPT ![r] = receipt],
         orders' = orders, onHand' = onHand, used' = used
  PROVE  IInv'
<1>1. receipts \in Seq(Receipt)
  BY DEF IInv, DocumentsInv
<1>2. PICK new : new = [receipts EXCEPT ![r] = receipt]
  OBVIOUS
<1>3. /\ new \in Seq(Receipt) /\ DOMAIN new = DOMAIN receipts /\ new[r] = receipt
      /\ \A q \in DOMAIN receipts \ {r} : new[q] = receipts[q]
  BY <1>1, <1>2
<1>4. CallsInv'
  BY <1>2, <1>3, CallsStay DEF IInv
<1>. QED
  BY <1>2, <1>3, <1>4, ReceiptsChanged

LEMMA ReceiptCreated ==
  ASSUME IInv, NEW c \in Clients, SaveCreateReceipt(c)
  PROVE  IInv'
<1>1. PICK data, rs : data = client[c].data /\ rs = receipts
  OBVIOUS
<1>2. PICK receipt : receipt = [status |-> "draft", ver |-> 0, po |-> data.po,
                                lines |-> data.lines, reversalOf |-> 0]
  OBVIOUS
<1>3. /\ client[c].op = "createReceipt" /\ client' = [client EXCEPT ![c] = Idle]
      /\ onHand' = onHand /\ used' = used /\ orders' = orders
      /\ receipts' = Append(rs, receipt)
  BY <1>1, <1>2 DEF SaveCreateReceipt, Saving, stock
<1>4. CallInv(client[c])
  BY DEF IInv, CallsInv
<1>5. data.po \in SomeOrder /\ data.lines \in Seq(ReceiptLine)
  BY <1>1, <1>3, <1>4 DEF CallInv
<1>6. DOMAIN orders \subseteq Nat
  BY SequenceDomain DEF IInv, DocumentsInv
<1>7. /\ receipt \in Receipt /\ receipt.status = "draft" /\ receipt.reversalOf = 0
      /\ receipt.po \in SomeOrder
  BY <1>2, <1>5, <1>6 DEF Receipt, ReceiptStatus, SomeOrder
<1>8. rs \in Seq(Receipt) /\ DOMAIN rs = 1..Len(rs) /\ Len(rs) \in Nat
  BY <1>1, SequenceDomain DEF IInv, DocumentsInv
<1>9. PICK new : new = Append(rs, receipt)
  OBVIOUS
<1>10. /\ new \in Seq(Receipt) /\ DOMAIN rs \subseteq DOMAIN new
       /\ \A q \in DOMAIN new :
             \/ q \in DOMAIN rs /\ new[q] = rs[q]
             \/ q \notin DOMAIN rs /\ new[q] = receipt
  <2>1. PICK n : n = Len(rs) + 1
    OBVIOUS
  <2>2. /\ new \in Seq(Receipt) /\ DOMAIN new = DOMAIN rs \cup {n} /\ n \notin DOMAIN rs
        /\ new[n] = receipt /\ \A q \in DOMAIN rs : new[q] = rs[q]
    BY <1>7, <1>8, <1>9, <2>1
  <2>. QED
    BY <2>2
<1>11. CallsInv'
  BY <1>1, <1>3, <1>9, <1>10, CallsStay DEF IInv
<1>. QED
  BY <1>1, <1>3, <1>7, <1>9, <1>10, <1>11, ReceiptsChanged

LEMMA ReceiptEdited ==
  ASSUME IInv, NEW c \in Clients, SaveUpdateReceipt(c), StillAllowed(c)
  PROVE  IInv'
<1>1. PICK r, data : r = client[c].doc /\ data = client[c].data
  OBVIOUS
<1>2. PICK was : was = receipts[r]
  OBVIOUS
<1>3. /\ client[c].op = "updateReceipt" /\ client' = [client EXCEPT ![c] = Idle]
      /\ onHand' = onHand /\ used' = used /\ orders' = orders
      /\ \/ receipts' = [receipts EXCEPT ![r].po = data.po]
         \/ receipts' = receipts
         \/ receipts' = [receipts EXCEPT ![r].ver = @ + 1, ![r].po = data.po,
                                         ![r].lines = data.lines]
  BY <1>1, Zenon DEF SaveUpdateReceipt, Saving, stock
<1>4. CallInv(client[c])
  BY DEF IInv, CallsInv
<1>5. /\ r \in DOMAIN receipts /\ was.status = "draft"
      /\ data.po \in SomeOrder /\ data.lines \in Seq(ReceiptLine)
  BY <1>1, <1>2, <1>3, <1>4 DEF CallInv, StillAllowed
<1>6. was \in Receipt /\ was.reversalOf = 0 /\ was.ver \in Nat
  <2>1. was \in Receipt
    BY <1>2, <1>5, SequenceDomain DEF IInv, DocumentsInv
  <2>2. was.reversalOf # 0 => was.status = "posted"
    BY <1>2, <1>5 DEF IInv, DocumentsInv
  <2>. QED
    BY <1>5, <2>1, <2>2 DEF Receipt
<1>7. data.po \in Nat
  <2>1. DOMAIN orders \subseteq Nat
    BY SequenceDomain DEF IInv, DocumentsInv
  <2>. QED
    BY <1>5, <2>1 DEF SomeOrder
<1>8. CASE receipts' = [receipts EXCEPT ![r].po = data.po]
  <2>1. PICK receipt : receipt = [was EXCEPT !.po = data.po]
    OBVIOUS
  <2>2. /\ receipt \in Receipt /\ receipt.status = "draft" /\ receipt.reversalOf = 0
        /\ receipt.po = data.po
    BY <1>5, <1>6, <1>7, <2>1 DEF Receipt
  <2>3. receipts' = [receipts EXCEPT ![r] = receipt]
    BY <1>2, <1>5, <1>8, <2>1
  <2>. QED
    BY <1>2, <1>3, <1>5, <2>2, <2>3, ReceiptReplaced
<1>9. CASE receipts' = receipts
  <2>1. receipts \in Seq(Receipt)
    BY DEF IInv, DocumentsInv
  <2>2. CallsInv'
    BY <1>3, <1>9, CallsStay DEF IInv
  <2>. QED
    BY <1>3, <1>9, <2>1, <2>2, ReceiptsChanged
<1>10. CASE receipts' = [receipts EXCEPT ![r].ver = @ + 1, ![r].po = data.po,
                                         ![r].lines = data.lines]
  <2>1. PICK ver : ver = was.ver + 1
    OBVIOUS
  <2>2. ver \in Nat
    BY <1>6, <2>1
  <2>3. PICK receipt : receipt = [was EXCEPT !.ver = ver, !.po = data.po, !.lines = data.lines]
    OBVIOUS
  <2>4. /\ receipt \in Receipt /\ receipt.status = "draft" /\ receipt.reversalOf = 0
        /\ receipt.po = data.po
    BY <1>5, <1>6, <1>7, <2>2, <2>3 DEF Receipt
  <2>5. receipts' = [receipts EXCEPT ![r] = receipt]
    BY <1>2, <1>5, <1>10, <2>1, <2>3
  <2>. QED
    BY <1>2, <1>3, <1>5, <2>4, <2>5, ReceiptReplaced
<1>. QED
  BY <1>3, <1>8, <1>9, <1>10

LEMMA ReceiptVerified ==
  ASSUME IInv, NEW c \in Clients, SaveVerifyReceipt(c), StillAllowed(c)
  PROVE  IInv'
<1>1. PICK r : r = client[c].doc
  OBVIOUS
<1>2. PICK was : was = receipts[r]
  OBVIOUS
<1>3. /\ client[c].op = "verifyReceipt" /\ client' = [client EXCEPT ![c] = Idle]
      /\ onHand' = onHand /\ used' = used /\ orders' = orders
      /\ receipts' = [receipts EXCEPT ![r].status = "verified"]
  BY <1>1 DEF SaveVerifyReceipt, Saving, stock
<1>4. CallInv(client[c])
  BY DEF IInv, CallsInv
<1>5. r \in DOMAIN receipts /\ ReceiptMay(was.status, "verified")
  BY <1>1, <1>2, <1>3, <1>4 DEF CallInv, StillAllowed
<1>6. was.status = "draft"
  BY <1>5 DEF ReceiptMay
<1>7. was \in Receipt /\ was.reversalOf = 0 /\ was.po \in SomeOrder
  <2>1. was \in Receipt /\ was.po \in SomeOrder
    BY <1>2, <1>5, SequenceDomain DEF IInv, DocumentsInv
  <2>2. was.reversalOf # 0 => was.status = "posted"
    BY <1>2, <1>5 DEF IInv, DocumentsInv
  <2>. QED
    BY <1>6, <2>1, <2>2
<1>8. PICK receipt : receipt = [was EXCEPT !.status = "verified"]
  OBVIOUS
<1>9. /\ receipt \in Receipt /\ receipt.status = "verified" /\ receipt.reversalOf = 0
      /\ receipt.po = was.po
  BY <1>7, <1>8 DEF Receipt, ReceiptStatus
<1>10. receipts' = [receipts EXCEPT ![r] = receipt]
  BY <1>2, <1>3, <1>5, <1>8
<1>. QED
  BY <1>2, <1>3, <1>5, <1>6, <1>7, <1>9, <1>10, ReceiptReplaced

-----------------------------------------------------------------------------
(* Posting, reversing and using what arrived *)

(* A posted or reversed receipt changes stock, receipts and its order.     *)
LEMMA ReceiptMoved ==
  ASSUME IInv, client' = client, used' = used, Receipts(receipts'),
         DOMAIN receipts \subseteq DOMAIN receipts',
         \A q \in DOMAIN receipts' : receipts'[q].po \in SomeOrder,
         onHand' \in [Keys -> Nat], StockFits(onHand', used, receipts'),
         orders' \in Seq(Order), DOMAIN orders' = DOMAIN orders,
         \A o \in DOMAIN orders' : StatusFits(orders'[o]), OrdersFit(orders', receipts')
  PROVE  IInv'
<1>1. DocumentsInv'
  BY DEF IInv, DocumentsInv, Receipts, SomeOrder
<1>2. CallsInv'
  BY CallsStay DEF IInv
<1>3. StockFits(onHand', used', receipts')
  OBVIOUS
<1>. QED
  BY <1>1, <1>2, <1>3, InTerms

LEMMA ReceiptPosted ==
  ASSUME IInv, NEW c \in Clients, NEW r \in DOMAIN receipts, PostReceipt(c, r)
  PROVE  IInv'
<1>1. PICK rs, was : rs = receipts /\ was = receipts[r]
  OBVIOUS
<1>2. PICK delta : delta = [p \in Products |-> OfProduct(was.lines, p)]
  OBVIOUS
<1>3. /\ ReceiptMay(was.status, "posted") /\ client' = client /\ used' = used
      /\ onHand' = [b \in Keys |-> onHand[b] + Accepted(was.lines, b)]
      /\ ApplyReceived(was.po, delta)
      /\ receipts' = [rs EXCEPT ![r].status = "posted"]
  BY <1>1, <1>2, Zenon DEF PostReceipt, InOneTransaction
<1>4. Receipts(rs) /\ r \in DOMAIN rs /\ was.status # "posted"
  BY <1>1, <1>3 DEF IInv, DocumentsInv, Receipts, ReceiptMay
<1>5. was.lines \in Seq(ReceiptLine) /\ was.po \in SomeOrder
  <2>1. was \in Receipt /\ was.po \in SomeOrder
    BY <1>1, SequenceDomain DEF IInv, DocumentsInv
  <2>. QED
    BY <2>1 DEF Receipt
<1>6. /\ \A b : Accepted(was.lines, b) \in Nat
      /\ \A p : OfProduct(was.lines, p) \in Nat
  BY <1>5, LineTotals
<1>7. PICK new : new = [rs EXCEPT ![r].status = "posted"]
  OBVIOUS
<1>8. /\ Receipts(new)
      /\ \A b : /\ BroughtIn(new, b) = BroughtIn(rs, b) + Accepted(was.lines, b)
                /\ TakenBackIn(new, b) = TakenBackIn(rs, b)
      /\ OnceIn(new) <=> OnceIn(rs)
      /\ \A o, p : CameIn(new, o, p) = CameIn(rs, o, p)
                          + IF was.po = o THEN OfProduct(was.lines, p) ELSE 0
  <2>1. rs[r] = was /\ Posting(rs, r, new)
    BY <1>1, <1>4, <1>7 DEF Posting
  <2>2. /\ Receipts(new)
        /\ \A b : /\ BroughtIn(new, b) = BroughtIn(rs, b) + Accepted(rs[r].lines, b)
                  /\ TakenBackIn(new, b) = TakenBackIn(rs, b)
        /\ OnceIn(new) <=> OnceIn(rs)
        /\ \A o, p : CameIn(new, o, p) = CameIn(rs, o, p)
                            + IF rs[r].po = o THEN OfProduct(rs[r].lines, p) ELSE 0
    BY <2>1, OnePosted
  <2>. QED
    BY <2>1, <2>2
<1>9. \A l \in OrderLines : ProductOf[l] \in Products
  BY DEF Products
<1>10. \A l \in OrderLines : /\ delta[ProductOf[l]] = OfProduct(was.lines, ProductOf[l])
                             /\ delta[ProductOf[l]] \in Nat
  BY <1>2, <1>6, <1>9
<1>11. /\ DocumentsInv /\ StockFits(onHand, used, rs) /\ OrdersFit(orders, rs)
       /\ \A o \in DOMAIN orders : StatusFits(orders[o])
  BY <1>1, InTerms
<1>12. /\ orders' \in Seq(Order) /\ DOMAIN orders' = DOMAIN orders
       /\ \A o \in DOMAIN orders' : StatusFits(orders'[o])
       /\ \A o \in DOMAIN orders :
             /\ orders'[o].ver = orders[o].ver
             /\ \A l \in OrderLines :
                   LET received == orders[o].lines[l].received
                       sum      == received + delta[ProductOf[l]]
                   IN  orders'[o].lines[l].received =
                           IF o # was.po THEN received ELSE IF sum > 0 THEN sum ELSE 0
  BY <1>3, <1>5, <1>10, <1>11, OrdersReceived
<1>13. OrdersFit(orders', new)
  <2>1. ASSUME OnceIn(new), NEW o \in DOMAIN orders, orders[o].ver = 0, NEW l \in OrderLines
        PROVE  orders'[o].lines[l].received = CameIn(new, o, ProductOf[l])
    <3>1. PICK came, more : /\ came = CameIn(rs, o, ProductOf[l])
                            /\ more = OfProduct(was.lines, ProductOf[l])
      OBVIOUS
    <3>2. came \in Nat /\ more \in Nat
      BY <1>4, <1>6, <3>1, CameTotals
    <3>3. orders[o].lines[l].received = came
      BY <1>8, <1>11, <2>1, <3>1 DEF OrdersFit
    <3>4. orders'[o].lines[l].received =
              IF o # was.po THEN came ELSE IF came + more > 0 THEN came + more ELSE 0
      BY <1>10, <1>12, <3>1, <3>3
    <3>5. CameIn(new, o, ProductOf[l]) = came + IF was.po = o THEN more ELSE 0
      BY <1>8, <3>1
    <3>. QED
      BY <3>2, <3>4, <3>5
  <2>. QED
    BY <1>12, <2>1 DEF OrdersFit
<1>14. onHand' \in [Keys -> Nat] /\ StockFits(onHand', used, new)
  <2>1. onHand \in [Keys -> Nat] /\ used \in [Keys -> Nat]
    BY DEF IInv, DocumentsInv
  <2>2. ASSUME NEW b \in Keys
        PROVE  /\ onHand'[b] \in Nat
               /\ onHand'[b] = BroughtIn(new, b) - TakenBackIn(new, b) - used[b]
    <3>1. PICK more, in, out : /\ more = Accepted(was.lines, b)
                               /\ in = BroughtIn(rs, b) /\ out = TakenBackIn(rs, b)
      OBVIOUS
    <3>2. more \in Nat /\ in \in Nat /\ out \in Nat
      BY <1>4, <1>6, <3>1, ReceiptTotals
    <3>3. onHand[b] \in Nat /\ used[b] \in Nat /\ onHand[b] = in - out - used[b]
      BY <1>11, <2>1, <3>1 DEF StockFits
    <3>4. onHand'[b] = onHand[b] + more
      BY <1>3, <3>1
    <3>5. BroughtIn(new, b) = in + more /\ TakenBackIn(new, b) = out
      BY <1>8, <3>1
    <3>. QED
      BY <3>2, <3>3, <3>4, <3>5
  <2>3. \A b \in Keys : onHand'[b] >= 0
    BY <2>2
  <2>4. onHand' = [b \in Keys |-> onHand'[b]]
    BY <1>3
  <2>. QED
    BY <2>2, <2>3, <2>4 DEF StockFits
<1>15. DOMAIN new = DOMAIN rs /\ \A q \in DOMAIN new : new[q].po = rs[q].po
  BY <1>4, <1>7 DEF Receipts
<1>16. \A q \in DOMAIN new : new[q].po \in SomeOrder
  BY <1>1, <1>15 DEF IInv, DocumentsInv
<1>17. receipts' = new
  BY <1>3, <1>7
<1>. QED
  BY <1>1, <1>3, <1>8, <1>12, <1>13, <1>14, <1>15, <1>16, <1>17, ReceiptMoved

LEMMA ReceiptReversed ==
  ASSUME IInv, NEW c \in Clients, NEW r \in DOMAIN receipts, ReverseReceipt(c, r)
  PROVE  IInv'
<1>1. PICK rs, was : rs = receipts /\ was = receipts[r]
  OBVIOUS
<1>2. PICK delta, reversal :
          /\ delta = [p \in Products |-> -OfProduct(was.lines, p)]
          /\ reversal = [status |-> "posted", ver |-> 0, po |-> was.po,
                         lines |-> was.lines, reversalOf |-> r]
  OBVIOUS
<1>3. /\ was.status = "posted" /\ StillThere(was.lines) /\ client' = client /\ used' = used
      /\ onHand' = [b \in Keys |-> onHand[b] - Accepted(was.lines, b)]
      /\ ApplyReceived(was.po, delta)
      /\ receipts' = Append(rs, reversal)
  BY <1>1, <1>2, Zenon DEF ReverseReceipt, InOneTransaction
<1>4. Receipts(rs) /\ r \in DOMAIN rs /\ r \in Nat
  BY <1>1, SequenceDomain DEF IInv, DocumentsInv, Receipts
<1>5. was.lines \in Seq(ReceiptLine) /\ was.po \in SomeOrder /\ was.po \in Nat
  <2>1. was \in Receipt /\ was.po \in SomeOrder
    BY <1>1, SequenceDomain DEF IInv, DocumentsInv
  <2>. QED
    BY <2>1 DEF Receipt
<1>6. /\ \A b : Accepted(was.lines, b) \in Nat
      /\ \A p : OfProduct(was.lines, p) \in Nat
  BY <1>5, LineTotals
<1>7. PICK new : new = Append(rs, reversal)
  OBVIOUS
<1>8. /\ reversal \in Receipt /\ reversal.status = "posted" /\ reversal.reversalOf = r
      /\ reversal.po = was.po /\ reversal.lines = was.lines
  BY <1>2, <1>4, <1>5 DEF Receipt, ReceiptStatus
<1>9. rs[r] = was /\ Reversing(rs, r, new)
  BY <1>1, <1>3, <1>4, <1>7, <1>8 DEF Reversing
<1>10. /\ Receipts(new)
       /\ \A b : /\ BroughtIn(new, b) = BroughtIn(rs, b)
                 /\ TakenBackIn(new, b) = TakenBackIn(rs, b) + Accepted(was.lines, b)
       /\ OnceIn(new) =>
             /\ OnceIn(rs)
             /\ \A o, p : /\ CameIn(new, o, p) = CameIn(rs, o, p)
                                - IF was.po = o THEN OfProduct(was.lines, p) ELSE 0
                          /\ was.po = o => OfProduct(was.lines, p) <= CameIn(rs, o, p)
  BY <1>9, OneReversed
<1>11. \A l \in OrderLines : ProductOf[l] \in Products
  BY DEF Products
<1>12. \A l \in OrderLines : /\ delta[ProductOf[l]] = -OfProduct(was.lines, ProductOf[l])
                             /\ delta[ProductOf[l]] \in Int
  BY <1>2, <1>6, <1>11
<1>13. /\ DocumentsInv /\ StockFits(onHand, used, rs) /\ OrdersFit(orders, rs)
       /\ \A o \in DOMAIN orders : StatusFits(orders[o])
  BY <1>1, InTerms
<1>14. /\ orders' \in Seq(Order) /\ DOMAIN orders' = DOMAIN orders
       /\ \A o \in DOMAIN orders' : StatusFits(orders'[o])
       /\ \A o \in DOMAIN orders :
             /\ orders'[o].ver = orders[o].ver
             /\ \A l \in OrderLines :
                   LET received == orders[o].lines[l].received
                       sum      == received + delta[ProductOf[l]]
                   IN  orders'[o].lines[l].received =
                           IF o # was.po THEN received ELSE IF sum > 0 THEN sum ELSE 0
  BY <1>3, <1>5, <1>12, <1>13, OrdersReceived
<1>15. OrdersFit(orders', new)
  <2>1. ASSUME OnceIn(new), NEW o \in DOMAIN orders, orders[o].ver = 0, NEW l \in OrderLines
        PROVE  orders'[o].lines[l].received = CameIn(new, o, ProductOf[l])
    <3>1. PICK came, less : /\ came = CameIn(rs, o, ProductOf[l])
                            /\ less = OfProduct(was.lines, ProductOf[l])
      OBVIOUS
    <3>2. came \in Nat /\ less \in Nat
      BY <1>4, <1>6, <3>1, CameTotals
    <3>3. orders[o].lines[l].received = came
      BY <1>10, <1>13, <2>1, <3>1 DEF OrdersFit
    <3>4. orders'[o].lines[l].received =
              IF o # was.po THEN came ELSE IF came - less > 0 THEN came - less ELSE 0
      BY <1>12, <1>14, <3>1, <3>2, <3>3
    <3>5. /\ CameIn(new, o, ProductOf[l]) = came - IF was.po = o THEN less ELSE 0
          /\ was.po = o => less <= came
      BY <1>10, <2>1, <3>1
    <3>. QED
      BY <3>2, <3>4, <3>5
  <2>. QED
    BY <1>14, <2>1 DEF OrdersFit
<1>16. onHand' \in [Keys -> Nat] /\ StockFits(onHand', used, new)
  <2>1. onHand \in [Keys -> Nat] /\ used \in [Keys -> Nat]
    BY DEF IInv, DocumentsInv
  <2>2. ASSUME NEW b \in Keys
        PROVE  /\ onHand'[b] \in Nat
               /\ onHand'[b] = BroughtIn(new, b) - TakenBackIn(new, b) - used[b]
    <3>1. PICK less, in, out : /\ less = Accepted(was.lines, b)
                               /\ in = BroughtIn(rs, b) /\ out = TakenBackIn(rs, b)
      OBVIOUS
    <3>2. less \in Nat /\ in \in Nat /\ out \in Nat
      BY <1>4, <1>6, <3>1, ReceiptTotals
    <3>3. /\ onHand[b] \in Nat /\ used[b] \in Nat /\ onHand[b] = in - out - used[b]
          /\ onHand[b] >= less
      BY <1>3, <1>13, <2>1, <3>1 DEF StockFits, StillThere
    <3>4. onHand'[b] = onHand[b] - less
      BY <1>3, <3>1
    <3>5. BroughtIn(new, b) = in /\ TakenBackIn(new, b) = out + less
      BY <1>10, <3>1
    <3>. QED
      BY <3>2, <3>3, <3>4, <3>5
  <2>3. \A b \in Keys : onHand'[b] >= 0
    BY <2>2
  <2>4. onHand' = [b \in Keys |-> onHand'[b]]
    BY <1>3
  <2>. QED
    BY <2>2, <2>3, <2>4 DEF StockFits
<1>17. PICK n : n = Len(rs) + 1
  OBVIOUS
<1>18. /\ DOMAIN new = DOMAIN rs \cup {n} /\ new[n] = reversal
       /\ \A q \in DOMAIN rs : new[q] = rs[q]
  BY <1>4, <1>7, <1>17, SequenceDomain DEF Receipts
<1>19. \A q \in DOMAIN new : new[q].po \in SomeOrder
  <2>1. \A q \in DOMAIN rs : rs[q].po \in SomeOrder
    BY <1>1 DEF IInv, DocumentsInv
  <2>. QED
    BY <1>5, <1>8, <1>18, <2>1
<1>20. receipts' = new
  BY <1>3, <1>7
<1>. QED
  BY <1>1, <1>3, <1>10, <1>14, <1>15, <1>16, <1>18, <1>19, <1>20, ReceiptMoved

LEMMA Used ==
  ASSUME IInv, NEW b \in Keys, Use(b)
  PROVE  IInv'
<1>1. /\ onHand[b] > 0 /\ onHand' = [onHand EXCEPT ![b] = @ - 1]
      /\ used' = [used EXCEPT ![b] = @ + 1]
      /\ orders' = orders /\ receipts' = receipts /\ client' = client
  BY DEF Use
<1>2. onHand \in [Keys -> Nat] /\ used \in [Keys -> Nat] /\ StockFits(onHand, used, receipts)
  BY InTerms DEF IInv, DocumentsInv
<1>3. /\ onHand' \in [Keys -> Nat] /\ used' \in [Keys -> Nat]
      /\ onHand'[b] = onHand[b] - 1 /\ used'[b] = used[b] + 1
      /\ \A k \in Keys \ {b} : onHand'[k] = onHand[k] /\ used'[k] = used[k]
  BY <1>1, <1>2
<1>4. Receipts(receipts)
  BY DEF IInv, DocumentsInv, Receipts
<1>5. StockFits(onHand', used', receipts)
  <2>1. ASSUME NEW k \in Keys
        PROVE  /\ onHand'[k] >= 0
               /\ onHand'[k] = BroughtIn(receipts, k) - TakenBackIn(receipts, k) - used'[k]
    <3>1. PICK in, out : in = BroughtIn(receipts, k) /\ out = TakenBackIn(receipts, k)
      OBVIOUS
    <3>2. in \in Nat /\ out \in Nat
      BY <1>4, <3>1, ReceiptTotals
    <3>3. onHand[k] \in Nat /\ used[k] \in Nat /\ onHand[k] = in - out - used[k]
      BY <1>2, <3>1 DEF StockFits
    <3>4. \/ onHand'[k] = onHand[k] - 1 /\ used'[k] = used[k] + 1
          \/ onHand'[k] = onHand[k] /\ used'[k] = used[k]
      BY <1>3
    <3>5. onHand'[k] \in Nat
      BY <1>3
    <3>. QED
      BY <3>1, <3>2, <3>3, <3>4, <3>5
  <2>. QED
    BY <2>1 DEF StockFits
<1>6. DocumentsInv'
  BY <1>1, <1>3 DEF IInv, DocumentsInv, SomeOrder
<1>7. CallsInv'
  BY <1>1, CallsStay DEF IInv
<1>. QED
  BY <1>1, <1>5, <1>6, <1>7, InTerms

-----------------------------------------------------------------------------
(* The invariant is inductive *)

LEMMA Start == Init => IInv
<1> SUFFICES ASSUME Init
             PROVE  IInv
  OBVIOUS
<1>1. /\ onHand = [b \in Keys |-> 0] /\ used = [b \in Keys |-> 0]
      /\ orders = <<>> /\ receipts = <<>> /\ client = [c \in Clients |-> Idle]
  BY DEF Init
<1>2. DocumentsInv
  BY <1>1 DEF DocumentsInv, SomeOrder
<1>3. CallsInv
  BY <1>1 DEF CallsInv, CallInv, Idle
<1>4. PostedIn(receipts) = {} /\ TakenIn(receipts) = {}
  BY <1>1 DEF PostedIn, TakenIn
<1>5. ASSUME NEW b
      PROVE  BroughtIn(receipts, b) = 0 /\ TakenBackIn(receipts, b) = 0
  <2> DEFINE f == [r \in PostedIn(receipts) |-> Accepted(receipts[r].lines, b)]
             g == [r \in TakenIn(receipts) |-> Accepted(receipts[r].lines, b)]
  <2>1. /\ DOMAIN f = {} /\ BroughtIn(receipts, b) = SumFunction(f)
        /\ DOMAIN g = {} /\ TakenBackIn(receipts, b) = SumFunction(g)
    BY <1>4 DEF BroughtIn, TakenBackIn
  <2>. HIDE DEF f, g
  <2>. QED
    BY <2>1, TotalEmpty
<1>6. StockFits(onHand, used, receipts)
  BY <1>1, <1>5 DEF StockFits
<1>7. /\ \A o \in DOMAIN orders : StatusFits(orders[o])
      /\ OrdersFit(orders, receipts)
  BY <1>1 DEF OrdersFit
<1>. QED
  BY <1>2, <1>3, <1>6, <1>7, InTerms

LEMMA Step ==
  ASSUME IInv, [Next]_vars, [\A c \in Clients : Saves(c) => StillAllowed(c)]_vars
  PROVE  IInv'
<1>1. ASSUME Next, \A c \in Clients : Saves(c) => StillAllowed(c)
      PROVE  IInv'
  <2>1. ASSUME NEW c \in Clients,
               \/ SaveUpdateOrder(c) \/ SaveUpdateReceipt(c) \/ SaveVerifyReceipt(c)
        PROVE  StillAllowed(c)
    <3>1. client[c].op # "none" /\ client' = [client EXCEPT ![c] = Idle]
      BY <2>1, Zenon DEF SaveUpdateOrder, SaveUpdateReceipt, SaveVerifyReceipt, Saving
    <3>2. DOMAIN client = Clients
      BY DEF IInv, CallsInv
    <3>3. Saves(c)
      BY <3>1, <3>2 DEF Saves, Idle
    <3>. QED
      BY <1>1, <3>3
  <2>2. ASSUME NEW c \in Clients, OrderStep(c)
        PROVE  IInv'
    <3>1. CASE \E ordered \in [OrderLines -> Ordered] : CreateOrder(c, ordered)
      BY <3>1, OrderCreated
    <3>2. CASE \E o \in DOMAIN orders :
                  \/ \E ordered \in [OrderLines -> Ordered] : ReadUpdateOrder(c, o, ordered)
                  \/ \E to \in OrderStatus : ReadOrderStatus(c, o, to)
      BY <3>2, Reads
    <3>3. CASE SaveUpdateOrder(c)
      BY <2>1, <3>3, OrderEdited
    <3>4. CASE SaveOrderStatus(c)
      BY <3>4, OrderMoved
    <3>. QED
      BY <2>2, <3>1, <3>2, <3>3, <3>4 DEF OrderStep
  <2>3. ASSUME NEW c \in Clients, ReceiptStep(c)
        PROVE  IInv'
    <3>1. CASE \E po \in SomeOrder, lines \in ReceiptInputs : ReadCreateReceipt(c, po, lines)
      BY <3>1, Reads
    <3>2. ASSUME NEW r \in DOMAIN receipts,
                 \/ \E po \in SomeOrder, lines \in ReceiptInputs \cup {<<>>} :
                       ReadUpdateReceipt(c, r, po, lines)
                 \/ ReadVerifyReceipt(c, r)
          PROVE  IInv'
      BY <3>2, Reads
    <3>3. ASSUME NEW r \in DOMAIN receipts, PostReceipt(c, r)
          PROVE  IInv'
      BY <3>3, ReceiptPosted
    <3>4. ASSUME NEW r \in DOMAIN receipts, ReverseReceipt(c, r)
          PROVE  IInv'
      BY <3>4, ReceiptReversed
    <3>5. CASE SaveCreateReceipt(c)
      BY <3>5, ReceiptCreated
    <3>6. CASE SaveUpdateReceipt(c)
      BY <2>1, <3>6, ReceiptEdited
    <3>7. CASE SaveVerifyReceipt(c)
      BY <2>1, <3>7, ReceiptVerified
    <3>. QED
      BY <2>3, <3>1, <3>2, <3>3, <3>4, <3>5, <3>6, <3>7 DEF ReceiptStep
  <2>. QED
    BY <1>1, <2>2, <2>3, Used DEF Next
<1>2. CASE UNCHANGED vars
  <2>1. DocumentsInv'
    BY <1>2 DEF IInv, DocumentsInv, SomeOrder, vars
  <2>2. CallsInv'
    BY <1>2 DEF IInv, CallsInv, CallInv, SomeOrder, vars
  <2>. QED
    BY <1>2, <2>1, <2>2, InTerms DEF vars
<1>. QED
  BY <1>1, <1>2

LEMMA TypesFromInvariant == IInv => TypeOK
<1> SUFFICES ASSUME IInv
             PROVE  TypeOK
  OBVIOUS
<1>1. /\ onHand \in [Keys -> Nat] /\ used \in [Keys -> Nat]
      /\ \A o \in DOMAIN orders : orders[o] \in Order
      /\ \A r \in DOMAIN receipts : /\ receipts[r] \in Receipt /\ receipts[r].po \in SomeOrder
                                    /\ r \in Nat \ {0}
  BY SequenceDomain DEF IInv, DocumentsInv
<1>2. ASSUME NEW r \in DOMAIN receipts
      PROVE  receipts[r].reversalOf \in 0..(r - 1)
  BY <1>1 DEF IInv, DocumentsInv
<1>3. \A r \in DOMAIN receipts : /\ receipts[r].status \in ReceiptStatus
                                 /\ receipts[r].ver \in Nat
                                 /\ receipts[r].lines \in Seq(ReceiptLine)
  BY <1>1 DEF Receipt
<1>4. \A o \in DOMAIN orders : /\ orders[o].status \in OrderStatus /\ orders[o].ver \in Nat
                               /\ orders[o].lines \in [OrderLines -> OrderLine]
  BY <1>1 DEF Order
<1>. QED
  BY <1>1, <1>2, <1>3, <1>4 DEF TypeOK, OrderLine, ReceiptLine

-----------------------------------------------------------------------------
(* Theorems: calls overlap, but no save is stale *)

(* The inductive invariant holds in every reachable state.                 *)
THEOREM ProcurementInvariant == Spec /\ NoStaleSave => []IInv
<1>1. Init => IInv
  BY Start
<1>2. IInv /\ [Next]_vars /\ [\A c \in Clients : Saves(c) => StillAllowed(c)]_vars => IInv'
  BY Step
<1>. QED
  BY <1>1, <1>2, PTL DEF Spec, NoStaleSave

(* No balance goes below zero, and documents have the fields of their      *)
(* schemas.                                                                *)
THEOREM ProcurementTypes == Spec /\ NoStaleSave => []TypeOK
BY ProcurementInvariant, TypesFromInvariant, PTL

(* Every balance is what posted receipts brought less what reversals took  *)
(* back and what was used (GoodsReceiptService.post, reverse).             *)
THEOREM BalancesMatchReceipts == Spec /\ NoStaleSave => []StockMatchesReceipts
<1>1. IInv => StockMatchesReceipts
  BY DEF IInv
<1>. QED
  BY <1>1, ProcurementInvariant, PTL

(* The receiving status of an order says how much of it has arrived, also  *)
(* after reversals (deriveReceivingStatus).                                *)
THEOREM StatusSaysWhatCame == Spec /\ NoStaleSave => []StatusMatchesReceived
<1>1. IInv => StatusMatchesReceived
  BY DEF IInv
<1>. QED
  BY <1>1, ProcurementInvariant, PTL

(* An order counts as received what its receipts accepted                  *)
(* (applyReceivedQuantities).                                              *)
THEOREM OrdersMatchReceipts == Spec /\ NoStaleSave => []OrderMatchesReceipts
<1>1. IInv => OrderMatchesReceipts
  BY DEF IInv
<1>. QED
  BY <1>1, ProcurementInvariant, PTL

-----------------------------------------------------------------------------
(* Calls one at a time *)

LEMMA StartAlone == Init => OneAtATimeInv
<1> SUFFICES ASSUME Init
             PROVE  OneAtATimeInv
  OBVIOUS
<1>1. \A c \in Clients : client[c].op = "none"
  BY DEF Init, Idle
<1>. QED
  BY <1>1, Start DEF OneAtATimeInv, StillAllowed

LEMMA StepAlone ==
  ASSUME OneAtATime, OneAtATimeInv, [Next]_vars
  PROVE  OneAtATimeInv'
<1>1. DOMAIN client = Clients
  BY DEF OneAtATimeInv, IInv, CallsInv
<1>2. IInv'
  <2>1. [\A c \in Clients : Saves(c) => StillAllowed(c)]_vars
    BY DEF OneAtATimeInv
  <2>. QED
    BY <2>1, Step DEF OneAtATimeInv
<1>3. ASSUME NEW c \in Clients, NEW d \in Clients, OrderStep(d) \/ ReceiptStep(d)
      PROVE  StillAllowed(c)'
  <2>1. c = d
    BY DEF OneAtATime
  <2>2. CASE client'[c].op = "none"
    BY <2>2 DEF StillAllowed
  <2>3. ASSUME NEW o \in DOMAIN orders, NEW ordered, ReadUpdateOrder(c, o, ordered)
        PROVE  StillAllowed(c)'
    <3>1. PICK data : data = [ver |-> orders[o].ver, ordered |-> ordered]
      OBVIOUS
    <3>2. /\ orders[o].status = "draft" /\ orders' = orders
          /\ client' = [client EXCEPT ![c] = [op |-> "updateOrder", doc |-> o, data |-> data]]
      BY <2>3, <3>1 DEF ReadUpdateOrder, Read
    <3>3. client'[c].op = "updateOrder" /\ client'[c].doc = o
      BY <1>1, <3>2
    <3>. QED
      BY <3>2, <3>3 DEF StillAllowed
  <2>4. ASSUME NEW o \in DOMAIN orders, NEW to, ReadOrderStatus(c, o, to)
        PROVE  StillAllowed(c)'
    <3>1. /\ OrderMay(orders[o].status, to) /\ orders' = orders
          /\ client' = [client EXCEPT ![c] = [op |-> "orderStatus", doc |-> o, data |-> to]]
      BY <2>4 DEF ReadOrderStatus, Read
    <3>2. client'[c].op = "orderStatus" /\ client'[c].doc = o /\ client'[c].data = to
      BY <1>1, <3>1
    <3>. QED
      BY <3>1, <3>2 DEF StillAllowed
  <2>5. ASSUME NEW po, NEW lines, ReadCreateReceipt(c, po, lines)
        PROVE  StillAllowed(c)'
    <3>1. PICK data : data = [po |-> po, lines |-> lines]
      OBVIOUS
    <3>2. client' = [client EXCEPT ![c] = [op |-> "createReceipt", doc |-> 0, data |-> data]]
      BY <2>5, <3>1 DEF ReadCreateReceipt, Read
    <3>3. client'[c].op = "createReceipt"
      BY <1>1, <3>2
    <3>. QED
      BY <3>3 DEF StillAllowed
  <2>6. ASSUME NEW r \in DOMAIN receipts, NEW po, NEW lines, ReadUpdateReceipt(c, r, po, lines)
        PROVE  StillAllowed(c)'
    <3>1. PICK data : data = [ver |-> receipts[r].ver, po |-> po, lines |-> lines]
      OBVIOUS
    <3>2. /\ receipts[r].status = "draft" /\ receipts' = receipts
          /\ client' = [client EXCEPT ![c] = [op |-> "updateReceipt", doc |-> r, data |-> data]]
      BY <2>6, <3>1 DEF ReadUpdateReceipt, Read
    <3>3. client'[c].op = "updateReceipt" /\ client'[c].doc = r
      BY <1>1, <3>2
    <3>. QED
      BY <3>2, <3>3 DEF StillAllowed
  <2>7. ASSUME NEW r \in DOMAIN receipts, ReadVerifyReceipt(c, r)
        PROVE  StillAllowed(c)'
    <3>1. /\ ReceiptMay(receipts[r].status, "verified") /\ receipts' = receipts
          /\ client' = [client EXCEPT ![c] = [op |-> "verifyReceipt", doc |-> r, data |-> <<>>]]
      BY <2>7 DEF ReadVerifyReceipt, Read
    <3>2. client'[c].op = "verifyReceipt" /\ client'[c].doc = r
      BY <1>1, <3>1
    <3>. QED
      BY <3>1, <3>2 DEF StillAllowed
  <2>8. ASSUME \/ SaveUpdateOrder(c) \/ SaveOrderStatus(c) \/ SaveCreateReceipt(c)
               \/ SaveUpdateReceipt(c) \/ SaveVerifyReceipt(c)
        PROVE  client'[c].op = "none"
    <3>1. client' = [client EXCEPT ![c] = Idle]
      BY <2>8, Zenon DEF SaveUpdateOrder, SaveOrderStatus, SaveCreateReceipt,
                         SaveUpdateReceipt, SaveVerifyReceipt, Saving
    <3>. QED
      BY <1>1, <3>1 DEF Idle
  <2>9. ASSUME InOneTransaction(c)
        PROVE  client'[c].op = "none"
    BY <2>9 DEF InOneTransaction
  <2>10. CASE OrderStep(c)
    <3>1. ASSUME NEW ordered, CreateOrder(c, ordered)
          PROVE  client'[c].op = "none"
      BY <2>9, <3>1 DEF CreateOrder
    <3>. QED
      BY <2>2, <2>3, <2>4, <2>8, <2>10, <3>1 DEF OrderStep
  <2>11. CASE ReceiptStep(c)
    <3>1. ASSUME NEW r, PostReceipt(c, r) \/ ReverseReceipt(c, r)
          PROVE  client'[c].op = "none"
      <4>1. InOneTransaction(c)
        BY <3>1, Zenon DEF PostReceipt, ReverseReceipt
      <4>. QED
        BY <2>9, <4>1
    <3>. QED
      BY <2>2, <2>5, <2>6, <2>7, <2>8, <2>11, <3>1 DEF ReceiptStep
  <2>. QED
    BY <1>3, <2>1, <2>10, <2>11
<1>4. ASSUME NEW c \in Clients, (\E b \in Keys : Use(b)) \/ UNCHANGED vars
      PROVE  StillAllowed(c)'
  <2>1. orders' = orders /\ receipts' = receipts /\ client' = client
    BY <1>4 DEF Use, vars
  <2>. QED
    BY <2>1 DEF OneAtATimeInv, StillAllowed
<1>. QED
  BY <1>2, <1>3, <1>4 DEF OneAtATimeInv, Next

(* When calls come one at a time no save is stale: the theorems above hold *)
(* of every behaviour.                                                     *)
THEOREM NoneIsStaleAlone == ASSUME OneAtATime PROVE Spec => NoStaleSave
<1>1. Init => OneAtATimeInv
  BY StartAlone
<1>2. OneAtATimeInv /\ [Next]_vars => OneAtATimeInv'
  BY StepAlone
<1>3. OneAtATimeInv => [\A c \in Clients : Saves(c) => StillAllowed(c)]_vars
  BY DEF OneAtATimeInv
<1>. QED
  BY <1>1, <1>2, <1>3, PTL DEF Spec, NoStaleSave
=============================================================================
