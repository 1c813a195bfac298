------------------------- MODULE Corrections_proofs -------------------------
(***************************************************************************)
(* Theorems about Corrections: any number of overlapping calls, documents, *)
(* lines and balances, and other postings in between.                      *)
(***************************************************************************)
EXTENDS Corrections, Sums, TLAPS

-----------------------------------------------------------------------------
(* Lists of lines *)

LEMMA SequenceDomain ==
  ASSUME NEW S, NEW s \in Seq(S)
  PROVE  /\ DOMAIN s = 1..Len(s) /\ Len(s) \in Nat /\ IsFiniteSet(DOMAIN s)
         /\ \A n \in DOMAIN s : s[n] \in S
<1>1. DOMAIN s = 1..Len(s) /\ Len(s) \in Nat /\ \A n \in DOMAIN s : s[n] \in S
  OBVIOUS
<1>2. IsFiniteSet(1..Len(s))
  BY <1>1, FS_Interval
<1>. QED
  BY <1>1, <1>2

(* A function on the places of a list is a list. *)
LEMMA ListOf ==
  ASSUME NEW S, NEW s \in Seq(S), NEW T, NEW t, DOMAIN t = DOMAIN s,
         t = [n \in DOMAIN t |-> t[n]], \A n \in DOMAIN s : t[n] \in T
  PROVE  t \in Seq(T)
<1>1. DOMAIN s = 1..Len(s) /\ Len(s) \in Nat
  BY SequenceDomain
<1>2. t \in [1..Len(s) -> T]
  BY <1>1
<1>. QED
  BY <1>1, <1>2

LEMMA NoneOrOne ==
  ASSUME NEW S, AtMostOne(S)
  PROVE  S = {} \/ \E x \in S : S = {x}
BY DEF AtMostOne

(* A finite set of places that is not empty has a last one. *)
LEMMA LastPlace ==
  ASSUME NEW S, IsFiniteSet(S), S \subseteq Nat, S # {}
  PROVE  \E n \in S : \A m \in S : m <= n
<1> DEFINE Bad == {T \in SUBSET S : \E n \in S : T = {m \in S : m > n}}
<1>1. PICK T \in Bad : \A U \in Bad : ~(U \subseteq T /\ U # T)
  <2>1. Bad \in SUBSET SUBSET S
    OBVIOUS
  <2>2. Bad # {}
    <3>1. PICK n \in S : TRUE
      OBVIOUS
    <3>2. {m \in S : m > n} \in Bad
      OBVIOUS
    <3>. QED
      BY <3>2
  <2>3. IsFiniteSet(S)
    OBVIOUS
  <2>. HIDE DEF Bad
  <2>. QED
    BY ONLY <2>1, <2>2, <2>3, MinimalSubset
<1>2. PICK n \in S : T = {m \in S : m > n}
  BY <1>1
<1>3. ASSUME NEW k \in S, k > n
      PROVE  FALSE
  <2>1. {m \in S : m > k} \subseteq T
    <3>1. \A m \in S : m \in Int /\ k \in Int /\ n \in Int
      OBVIOUS
    <3>2. \A m \in S : m > k => m > n
      BY <1>3, <3>1
    <3>. QED
      BY <1>2, <3>2
  <2>2. k \in T /\ k \notin {m \in S : m > k}
    BY <1>2, <1>3
  <2>3. {m \in S : m > k} \in Bad
    OBVIOUS
  <2>. QED
    BY <1>1, <2>1, <2>2, <2>3
<1>4. \A m \in S : m \in Nat /\ n \in Nat /\ ~(m > n)
  BY <1>3
<1>. QED
  BY <1>4

-----------------------------------------------------------------------------
(* Movements *)

(* A list of movements, whatever else its lines say. *)
Moves(moves) ==
  /\ DOMAIN moves = 1..Len(moves) /\ Len(moves) \in Nat
  /\ \A n \in DOMAIN moves : moves[n].row \in Rows /\ moves[n].delta \in Int

LEMMA MovesFinite ==
  ASSUME NEW moves, Moves(moves), NEW b
  PROVE  /\ IsFiniteSet(DOMAIN moves) /\ IsFiniteSet(OnRow(moves, b))
         /\ OnRow(moves, b) \subseteq DOMAIN moves /\ OnRow(moves, b) \subseteq Nat
<1>1. IsFiniteSet(DOMAIN moves) /\ DOMAIN moves \subseteq Nat
  <2>1. DOMAIN moves = 1..Len(moves) /\ Len(moves) \in Nat
    BY DEF Moves
  <2>2. IsFiniteSet(1..Len(moves))
    BY <2>1, FS_Interval
  <2>. QED
    BY <2>1, <2>2
<1>2. OnRow(moves, b) \subseteq DOMAIN moves
  BY DEF OnRow
<1>. QED
  BY <1>1, <1>2, FS_Subset

LEMMA NetType ==
  ASSUME NEW moves, Moves(moves), NEW b
  PROVE  Net(moves, b) \in Int
<1> DEFINE f == [n \in OnRow(moves, b) |-> moves[n].delta]
<1>1. IsFiniteSet(DOMAIN f) /\ \A n \in DOMAIN f : f[n] \in Int
  BY MovesFinite DEF OnRow, Moves
<1>. HIDE DEF f
<1>2. SumFunction(f) \in Int
  BY <1>1, TotalInt
<1>. QED
  BY <1>2 DEF Net, f

(* The places that count, and what they add up to, depend on rows and      *)
(* quantities only.                                                        *)
SameMoves(others, moves) ==
  /\ DOMAIN others = DOMAIN moves
  /\ \A n \in DOMAIN moves : others[n].row = moves[n].row /\ others[n].delta = moves[n].delta

LEMMA SameNet ==
  ASSUME NEW moves, NEW others, NEW b, SameMoves(others, moves)
  PROVE  OnRow(others, b) = OnRow(moves, b) /\ Net(others, b) = Net(moves, b)
<1>1. OnRow(others, b) = OnRow(moves, b)
  BY DEF OnRow, SameMoves
<1>2. [n \in OnRow(others, b) |-> others[n].delta] = [n \in OnRow(moves, b) |-> moves[n].delta]
  BY <1>1 DEF OnRow, SameMoves
<1>. QED
  BY <1>1, <1>2 DEF Net

(* The movements back come to the opposite.                                *)
LEMMA OppositeNet ==
  ASSUME NEW moves, Moves(moves), NEW back, Moves(back), NEW b, DOMAIN back = DOMAIN moves,
         \A n \in DOMAIN moves : back[n].row = moves[n].row /\ back[n].delta = -moves[n].delta
  PROVE  Net(back, b) = -Net(moves, b)
<1> DEFINE S == OnRow(moves, b)
           f == [n \in S |-> moves[n].delta]
           g == [n \in S |-> back[n].delta]
           z == [n \in S |-> 0]
<1>1. OnRow(back, b) = S
  BY DEF OnRow, Moves
<1>2. IsFiniteSet(S) /\ S \subseteq DOMAIN moves
  BY MovesFinite
<1>3. \A n \in S : f[n] \in Int /\ g[n] \in Int /\ z[n] = f[n] + g[n] /\ z[n] = 0
  BY <1>2 DEF Moves
<1>4. Net(moves, b) = SumFunctionOnSet(f, S) /\ Net(back, b) = SumFunctionOnSet(g, S)
  BY <1>1 DEF Net, SumFunction
<1>5. Net(moves, b) \in Int /\ Net(back, b) \in Int
  BY NetType
<1>. HIDE DEF f, g, z, S
<1>6. SumFunctionOnSet(z, S) = SumFunctionOnSet(f, S) + SumFunctionOnSet(g, S)
  BY <1>2, <1>3, SumPlus
<1>7. SumFunctionOnSet(z, S) = 0
  BY <1>2, <1>3, SumZero
<1>. QED
  BY <1>4, <1>5, <1>6, <1>7

(* A row with one movement moves by it, a row without one stays.           *)
LEMMA SingleNet ==
  ASSUME NEW moves, Moves(moves), NEW b, NEW n, OnRow(moves, b) = {n}
  PROVE  Net(moves, b) = moves[n].delta
<1> DEFINE f == [m \in {n} |-> moves[m].delta]
           e == [m \in {} |-> moves[m].delta]
<1>1. /\ DOMAIN e = {} /\ IsFiniteSet(DOMAIN e) /\ n \notin DOMAIN e
      /\ DOMAIN f = DOMAIN e \cup {n} /\ f[n] \in Int /\ f[n] = moves[n].delta
  BY FS_EmptySet DEF OnRow, Moves
<1>. HIDE DEF e, f
<1>2. SumFunction(f) = SumFunction(e) + f[n]
  BY <1>1, TotalAdd
<1>3. SumFunction(e) = 0
  BY <1>1, TotalEmpty
<1>4. Net(moves, b) = SumFunction(f)
  BY DEF Net, f
<1>. QED
  BY <1>1, <1>2, <1>3, <1>4

LEMMA NoNet ==
  ASSUME NEW moves, NEW b, OnRow(moves, b) = {}
  PROVE  Net(moves, b) = 0
<1> DEFINE f == [n \in OnRow(moves, b) |-> moves[n].delta]
<1>1. DOMAIN f = {}
  OBVIOUS
<1>. HIDE DEF f
<1>2. SumFunction(f) = 0
  BY <1>1, TotalEmpty
<1>. QED
  BY <1>2 DEF Net, f

(* Up to the last movement of a row, all of them have happened.            *)
LEMMA PrefixNet ==
  ASSUME NEW T, NEW moves \in Seq(T), NEW b, NEW n \in DOMAIN moves,
         \A m \in OnRow(moves, b) : m <= n
  PROVE  Net(SubSeq(moves, 1, n), b) = Net(moves, b)
<1> DEFINE before == SubSeq(moves, 1, n)
<1>1. /\ DOMAIN moves = 1..Len(moves) /\ Len(moves) \in Nat /\ n \in 1..Len(moves)
  BY SequenceDomain
<1>2. DOMAIN before = 1..n /\ \A m \in 1..n : before[m] = moves[m]
  BY <1>1
<1>. HIDE DEF before
<1>3. OnRow(before, b) = OnRow(moves, b)
  <2>1. \A m \in OnRow(moves, b) : m \in 1..n
    BY <1>1 DEF OnRow
  <2>. QED
    BY <1>1, <1>2, <2>1 DEF OnRow
<1>4. \A m \in OnRow(moves, b) : before[m].delta = moves[m].delta
  BY <1>2, <1>3 DEF OnRow
<1>5. [m \in OnRow(before, b) |-> before[m].delta] = [m \in OnRow(moves, b) |-> moves[m].delta]
  BY <1>3, <1>4
<1>6. Net(before, b) = Net(moves, b)
  BY <1>5 DEF Net
<1>. QED
  BY <1>6 DEF before

(* Movements that pass the test, line by line, leave no balance below      *)
(* zero.                                                                   *)
LEMMA BorneIsCovered ==
  ASSUME onHand \in [Rows -> Nat], NEW T, NEW moves \in Seq(T), Moves(moves), Borne(moves),
         NEW b \in Rows
  PROVE  onHand[b] + Net(moves, b) \in Nat
<1>1. onHand[b] \in Nat /\ Net(moves, b) \in Int
  BY NetType
<1>2. CASE OnRow(moves, b) = {}
  BY <1>1, <1>2, NoNet
<1>3. CASE OnRow(moves, b) # {}
  <2>1. PICK n \in OnRow(moves, b) : \A m \in OnRow(moves, b) : m <= n
    BY <1>3, MovesFinite, LastPlace
  <2>2. n \in DOMAIN moves /\ moves[n].row = b
    BY DEF OnRow
  <2>3. Net(SubSeq(moves, 1, n), b) = Net(moves, b)
    BY <2>1, <2>2, PrefixNet
  <2>4. onHand[b] + Net(SubSeq(moves, 1, n), b) >= 0
    BY <2>2 DEF Borne
  <2>. QED
    BY <1>1, <2>3, <2>4
<1>. QED
  BY <1>2, <1>3

(* What posting does to balances and versions.                             *)
LEMMA Moved ==
  ASSUME Balances, NEW T, NEW moves \in Seq(T), Moves(moves), PostMovements(moves)
  PROVE  /\ Balances' /\ UNCHANGED other
         /\ \A b \in Rows :
               /\ onHand'[b] = onHand[b] + Net(moves, b)
               /\ version'[b] >= version[b]
               /\ version'[b] = version[b] => onHand'[b] = onHand[b]
<1>1. /\ Borne(moves) /\ UNCHANGED other
      /\ onHand' = [b \in Rows |-> onHand[b] + Net(moves, b)]
      /\ version' = [b \in Rows |-> version[b] + Cardinality(OnRow(moves, b))]
  BY DEF PostMovements
<1>2. ASSUME NEW b \in Rows
      PROVE  /\ onHand'[b] = onHand[b] + Net(moves, b) /\ onHand'[b] \in Nat
             /\ version'[b] \in Nat /\ version'[b] >= version[b]
             /\ version'[b] = version[b] => onHand'[b] = onHand[b]
  <2>1. onHand'[b] = onHand[b] + Net(moves, b) /\ onHand'[b] \in Nat
    BY <1>1, BorneIsCovered DEF Balances
  <2>2. version'[b] = version[b] + Cardinality(OnRow(moves, b)) /\ version[b] \in Nat
    BY <1>1 DEF Balances
  <2>3. Cardinality(OnRow(moves, b)) \in Nat /\ IsFiniteSet(OnRow(moves, b))
    BY MovesFinite, FS_CardinalityType
  <2>4. ASSUME Cardinality(OnRow(moves, b)) = 0
        PROVE  onHand'[b] = onHand[b]
    <3>1. Net(moves, b) = 0
      BY <2>3, <2>4, FS_EmptySet, NoNet
    <3>2. onHand[b] \in Nat
      BY DEF Balances
    <3>. QED
      BY <2>1, <3>1, <3>2
  <2>. QED
    BY <2>1, <2>2, <2>3, <2>4
<1>3. Balances'
  BY <1>1, <1>2 DEF Balances
<1>. QED
  BY <1>1, <1>2, <1>3

-----------------------------------------------------------------------------
(* Lines *)

LEMMA AdjustmentFields ==
  ASSUME AdjustmentsInv, NEW a \in DOMAIN adjustments
  PROVE  LET adjustment == adjustments[a] IN
         /\ adjustment \in Adjustment /\ adjustment.lines \in Seq(AdjustmentLine)
         /\ a \in 1..Len(adjustments) /\ a \in Nat /\ Len(adjustments) \in Nat
         /\ \A n \in DOMAIN adjustment.lines : adjustment.lines[n] \in AdjustmentLine
<1>1. adjustments[a] \in Adjustment /\ a \in 1..Len(adjustments) /\ Len(adjustments) \in Nat
  BY SequenceDomain DEF AdjustmentsInv
<1>2. adjustments[a].lines \in Seq(AdjustmentLine)
  BY <1>1 DEF Adjustment
<1>. QED
  BY <1>1, <1>2, SequenceDomain

LEMMA CountFields ==
  ASSUME CountsInv, NEW k \in DOMAIN counts
  PROVE  LET count == counts[k] IN
         /\ count \in StockCount /\ count.lines \in Seq(CountLine)
         /\ k \in 1..Len(counts) /\ k \in Nat /\ Len(counts) \in Nat
         /\ \A n \in DOMAIN count.lines : count.lines[n] \in CountLine /\ Snapshot(count.lines[n])
<1>1. counts[k] \in StockCount /\ k \in 1..Len(counts) /\ Len(counts) \in Nat
  BY SequenceDomain DEF CountsInv
<1>2. counts[k].lines \in Seq(CountLine)
  BY <1>1 DEF StockCount
<1>3. \A n \in DOMAIN counts[k].lines : Snapshot(counts[k].lines[n])
  BY DEF CountsInv
<1>. QED
  BY <1>1, <1>2, <1>3, SequenceDomain

LEMMA LinesMove ==
  ASSUME NEW lines \in Seq(AdjustmentLine)
  PROVE  Moves(lines)
<1>1. DOMAIN lines = 1..Len(lines) /\ Len(lines) \in Nat
  BY SequenceDomain
<1>2. ASSUME NEW n \in DOMAIN lines
      PROVE  lines[n].row \in Rows /\ lines[n].delta \in Int
  <2>1. lines[n] \in AdjustmentLine
    BY SequenceDomain
  <2>. QED
    BY <2>1 DEF AdjustmentLine
<1>. QED
  BY <1>1, <1>2 DEF Moves

(* The lines a user asks for. *)
LEMMA AskedLines ==
  ASSUME NEW input \in Inputs
  PROVE  /\ Lines(input) \in Seq(AdjustmentLine)
         /\ Material(Lines(input)) <=> Material(input)
         /\ \A n \in DOMAIN Lines(input) : /\ AtMostOne(Lines(input)[n].prior)
                                           /\ AtMostOne(Lines(input)[n].resulting)
<1> DEFINE lines == Lines(input)
<1>1. input \in Seq([row : Rows, delta : Int \ {0}])
  BY CorrectionsAssumption
<1>2. DOMAIN lines = DOMAIN input /\ lines = [n \in DOMAIN lines |-> lines[n]]
  BY DEF Lines
<1>3. ASSUME NEW n \in DOMAIN input
      PROVE  /\ lines[n] \in AdjustmentLine /\ lines[n].delta = input[n].delta
             /\ AtMostOne(lines[n].prior) /\ AtMostOne(lines[n].resulting)
  <2>1. input[n] \in [row : Rows, delta : Int \ {0}]
    BY <1>1, SequenceDomain
  <2>2. lines[n] = [row |-> input[n].row, delta |-> input[n].delta,
                    prior |-> {}, resulting |-> {}]
    BY DEF Lines, Null
  <2>. QED
    BY <2>1, <2>2 DEF AdjustmentLine, AtMostOne
<1>. HIDE DEF lines
<1>4. lines \in Seq(AdjustmentLine)
  BY <1>1, <1>2, <1>3, ListOf
<1>5. Material(lines) <=> Material(input)
  <2>1. [n \in DOMAIN lines |-> Max({lines[n].delta, -lines[n].delta})]
            = [n \in DOMAIN input |-> Max({input[n].delta, -input[n].delta})]
    BY <1>2, <1>3
  <2>. QED
    BY <2>1 DEF Material
<1>. QED
  BY <1>2, <1>3, <1>4, <1>5 DEF lines

(* The lines of a posting, with the quantities before and after. *)
LEMMA RecordedLines ==
  ASSUME NEW lines \in Seq(AdjustmentLine), onHand \in [Rows -> Nat]
  PROVE  /\ Recorded(lines) \in Seq(AdjustmentLine) /\ DOMAIN Recorded(lines) = DOMAIN lines
         /\ Material(Recorded(lines)) <=> Material(lines)
         /\ \A b : /\ OnRow(Recorded(lines), b) = OnRow(lines, b)
                   /\ Net(Recorded(lines), b) = Net(lines, b)
         /\ \A n \in DOMAIN lines :
               /\ Recorded(lines)[n].row = lines[n].row
               /\ Recorded(lines)[n].delta = lines[n].delta
               /\ Recorded(lines)[n].prior = {onHand[lines[n].row]}
               /\ Recorded(lines)[n].resulting = {onHand[lines[n].row] + lines[n].delta}
<1> DEFINE done == Recorded(lines)
<1>1. DOMAIN done = DOMAIN lines /\ done = [n \in DOMAIN done |-> done[n]]
  BY DEF Recorded
<1>2. ASSUME NEW n \in DOMAIN lines
      PROVE  /\ done[n] \in AdjustmentLine
             /\ done[n].row = lines[n].row /\ done[n].delta = lines[n].delta
             /\ done[n].prior = {onHand[lines[n].row]}
             /\ done[n].resulting = {onHand[lines[n].row] + lines[n].delta}
  <2>1. lines[n] \in AdjustmentLine
    BY SequenceDomain
  <2>2. lines[n].row \in Rows /\ lines[n].delta \in Int /\ onHand[lines[n].row] \in Nat
    BY <2>1 DEF AdjustmentLine
  <2>3. onHand[lines[n].row] + lines[n].delta \in Int
    BY <2>2
  <2>4. done[n] = [lines[n] EXCEPT !.prior = {onHand[lines[n].row]},
                                   !.resulting = {onHand[lines[n].row] + lines[n].delta}]
    BY DEF Recorded
  <2>5. {onHand[lines[n].row]} \in SUBSET Nat
        /\ {onHand[lines[n].row] + lines[n].delta} \in SUBSET Int
    BY <2>2, <2>3
  <2>. HIDE DEF done
  <2>. QED
    BY <2>1, <2>4, <2>5 DEF AdjustmentLine
<1>. HIDE DEF done
<1>3. done \in Seq(AdjustmentLine)
  BY <1>1, <1>2, ListOf
<1>4. Material(done) <=> Material(lines)
  <2>1. [n \in DOMAIN done |-> Max({done[n].delta, -done[n].delta})]
            = [n \in DOMAIN lines |-> Max({lines[n].delta, -lines[n].delta})]
    BY <1>1, <1>2
  <2>. QED
    BY <2>1 DEF Material
<1>5. ASSUME NEW b
      PROVE  OnRow(done, b) = OnRow(lines, b) /\ Net(done, b) = Net(lines, b)
  <2>1. SameMoves(done, lines)
    BY <1>1, <1>2 DEF SameMoves
  <2>. QED
    BY <2>1, SameNet
<1>. QED
  BY <1>1, <1>2, <1>3, <1>4, <1>5 DEF done

(* The lines of a reversal. *)
Opposite(lines) == [n \in DOMAIN lines |-> [lines[n] EXCEPT !.delta = -@]]

LEMMA OppositeLines ==
  ASSUME NEW lines \in Seq(AdjustmentLine)
  PROVE  /\ Opposite(lines) \in Seq(AdjustmentLine)
         /\ Material(Opposite(lines)) <=> Material(lines)
<1> DEFINE back == Opposite(lines)
<1>1. DOMAIN back = DOMAIN lines /\ back = [n \in DOMAIN back |-> back[n]]
  BY DEF Opposite
<1>2. ASSUME NEW n \in DOMAIN lines
      PROVE  /\ back[n] \in AdjustmentLine
             /\ back[n].delta = -lines[n].delta /\ -back[n].delta = lines[n].delta
  <2>1. lines[n] \in AdjustmentLine
    BY SequenceDomain
  <2>2. lines[n].delta \in Int \ {0}
    BY <2>1 DEF AdjustmentLine
  <2>3. -lines[n].delta \in Int \ {0} /\ -(-lines[n].delta) = lines[n].delta
    BY <2>2
  <2>4. back[n] = [lines[n] EXCEPT !.delta = -lines[n].delta]
    BY DEF Opposite
  <2>. HIDE DEF back
  <2>. QED
    BY <2>1, <2>3, <2>4 DEF AdjustmentLine
<1>. HIDE DEF back
<1>3. back \in Seq(AdjustmentLine)
  BY <1>1, <1>2, ListOf
<1>4. Material(back) <=> Material(lines)
  <2>1. \A n \in DOMAIN lines : {back[n].delta, -back[n].delta} = {lines[n].delta, -lines[n].delta}
    BY <1>2
  <2>2. [n \in DOMAIN back |-> Max({back[n].delta, -back[n].delta})]
            = [n \in DOMAIN lines |-> Max({lines[n].delta, -lines[n].delta})]
    BY <1>1, <2>1
  <2>. QED
    BY <2>2 DEF Material
<1>. QED
  BY <1>3, <1>4 DEF back

(* The movements of a count. *)
LEMMA CountMoves ==
  ASSUME NEW lines \in Seq(CountLine)
  PROVE  /\ Movements(lines) \in Seq([row : Rows, delta : Int]) /\ Moves(Movements(lines))
         /\ DOMAIN Movements(lines) = DOMAIN lines
         /\ \A n \in DOMAIN lines :
               /\ Movements(lines)[n].row = lines[n].row
               /\ lines[n].variance = {} => Movements(lines)[n].delta = 0
               /\ \A v : lines[n].variance = {v} => Movements(lines)[n].delta = v
<1> DEFINE moves == Movements(lines)
<1>1. DOMAIN moves = DOMAIN lines /\ moves = [n \in DOMAIN moves |-> moves[n]]
  BY DEF Movements
<1>2. ASSUME NEW n \in DOMAIN lines
      PROVE  /\ moves[n] \in [row : Rows, delta : Int] /\ moves[n].row = lines[n].row
             /\ lines[n].variance = {} => moves[n].delta = 0
             /\ \A v : lines[n].variance = {v} => moves[n].delta = v
  <2>1. lines[n] \in CountLine
    BY SequenceDomain
  <2>2. lines[n].row \in Rows /\ lines[n].variance \subseteq Int
    BY <2>1 DEF CountLine
  <2>3. /\ moves[n].row = lines[n].row
        /\ moves[n] = [row |-> moves[n].row, delta |-> moves[n].delta]
        /\ moves[n].delta = IF lines[n].variance = {} THEN 0
                            ELSE CHOOSE v \in lines[n].variance : TRUE
    BY DEF Movements, Null
  <2>. HIDE DEF moves
  <2>4. lines[n].variance # {} => moves[n].delta \in lines[n].variance
    BY <2>3
  <2>5. moves[n].delta \in Int
    BY <2>2, <2>3, <2>4
  <2>. QED
    BY <2>2, <2>3, <2>4, <2>5
<1>. HIDE DEF moves
<1>3. moves \in Seq([row : Rows, delta : Int])
  BY <1>1, <1>2, ListOf
<1>4. Moves(moves)
  <2>1. DOMAIN moves = 1..Len(moves) /\ Len(moves) \in Nat
    BY <1>3, SequenceDomain
  <2>2. \A n \in DOMAIN moves : moves[n].row \in Rows /\ moves[n].delta \in Int
    BY <1>1, <1>2
  <2>. QED
    BY <2>1, <2>2 DEF Moves
<1>. QED
  BY <1>1, <1>2, <1>3, <1>4 DEF moves

-----------------------------------------------------------------------------
(* Documents and calls *)

LEMMA ReplacedIn ==
  ASSUME NEW S, NEW s \in Seq(S), NEW d \in DOMAIN s, NEW new \in S,
         NEW t, t = [s EXCEPT ![d] = new]
  PROVE  /\ t \in Seq(S) /\ DOMAIN t = DOMAIN s /\ t[d] = new
         /\ \A e \in DOMAIN s : e # d => t[e] = s[e]
<1>1. DOMAIN t = DOMAIN s /\ t = [e \in DOMAIN t |-> t[e]] /\ t[d] = new
      /\ \A e \in DOMAIN s : e # d => t[e] = s[e]
  OBVIOUS
<1>2. \A e \in DOMAIN s : t[e] \in S
  BY <1>1, SequenceDomain
<1>3. t \in Seq(S)
  BY <1>1, <1>2, ListOf
<1>. QED
  BY <1>1, <1>3

LEMMA AppendedTo ==
  ASSUME NEW S, NEW s \in Seq(S), NEW new \in S, NEW t, t = Append(s, new)
  PROVE  /\ t \in Seq(S) /\ DOMAIN t = DOMAIN s \cup {Len(s) + 1}
         /\ Len(s) + 1 \notin DOMAIN s /\ t[Len(s) + 1] = new
         /\ \A e \in DOMAIN s : t[e] = s[e]
<1>1. Len(s) \in Nat /\ DOMAIN s = 1..Len(s)
  BY SequenceDomain
<1>2. t \in Seq(S) /\ Len(t) = Len(s) + 1
  OBVIOUS
<1>3. DOMAIN t = 1..(Len(s) + 1)
  BY <1>2, SequenceDomain
<1>. QED
  BY <1>1, <1>2, <1>3

(* A document as the invariant wants it, for number a or k.                *)
SoundAdjustment(a, new) ==
  /\ new \in Adjustment /\ new.reversalOf \in 0..(a - 1)
  /\ new.material <=> Material(new.lines)
  /\ \A n \in DOMAIN new.lines :
        AtMostOne(new.lines[n].prior) /\ AtMostOne(new.lines[n].resulting)

SoundCount(k, new) ==
  /\ new \in StockCount /\ new.reversalOf \in 0..(k - 1)
  /\ \A n \in DOMAIN new.lines : Snapshot(new.lines[n])

LEMMA AdjustmentsAreSound ==
  AdjustmentsInv <=> /\ adjustments \in Seq(Adjustment)
                     /\ \A a \in DOMAIN adjustments : SoundAdjustment(a, adjustments[a])
BY SequenceDomain DEF AdjustmentsInv, SoundAdjustment

LEMMA CountsAreSound ==
  CountsInv <=> /\ counts \in Seq(StockCount)
                /\ \A k \in DOMAIN counts : SoundCount(k, counts[k])
BY SequenceDomain DEF CountsInv, SoundCount

LEMMA AdjustmentReplaced ==
  ASSUME AdjustmentsInv, NEW a \in DOMAIN adjustments, NEW new, SoundAdjustment(a, new),
         adjustments' = [adjustments EXCEPT ![a] = new]
  PROVE  /\ AdjustmentsInv' /\ DOMAIN adjustments' = DOMAIN adjustments
         /\ adjustments'[a] = new
         /\ \A d \in DOMAIN adjustments : d # a => adjustments'[d] = adjustments[d]
<1>1. adjustments \in Seq(Adjustment) /\ new \in Adjustment
  BY DEF AdjustmentsInv, SoundAdjustment
<1>2. /\ adjustments' \in Seq(Adjustment) /\ DOMAIN adjustments' = DOMAIN adjustments
      /\ adjustments'[a] = new
      /\ \A d \in DOMAIN adjustments : d # a => adjustments'[d] = adjustments[d]
  BY <1>1, ReplacedIn
<1>3. \A d \in DOMAIN adjustments' : SoundAdjustment(d, adjustments'[d])
  BY <1>2, AdjustmentsAreSound
<1>4. AdjustmentsInv'
  BY <1>2, <1>3 DEF AdjustmentsInv, SoundAdjustment
<1>. QED
  BY <1>2, <1>4

LEMMA AdjustmentAdded ==
  ASSUME AdjustmentsInv, NEW new, SoundAdjustment(Len(adjustments) + 1, new),
         adjustments' = Append(adjustments, new)
  PROVE  /\ AdjustmentsInv'
         /\ DOMAIN adjustments' = DOMAIN adjustments \cup {Len(adjustments) + 1}
         /\ Len(adjustments) + 1 \notin DOMAIN adjustments
         /\ adjustments'[Len(adjustments) + 1] = new
         /\ \A d \in DOMAIN adjustments : adjustments'[d] = adjustments[d]
<1>1. adjustments \in Seq(Adjustment) /\ new \in Adjustment
  BY DEF AdjustmentsInv, SoundAdjustment
<1>2. /\ adjustments' \in Seq(Adjustment)
      /\ DOMAIN adjustments' = DOMAIN adjustments \cup {Len(adjustments) + 1}
      /\ Len(adjustments) + 1 \notin DOMAIN adjustments
      /\ adjustments'[Len(adjustments) + 1] = new
      /\ \A d \in DOMAIN adjustments : adjustments'[d] = adjustments[d]
  BY <1>1, AppendedTo
<1>3. \A d \in DOMAIN adjustments' : SoundAdjustment(d, adjustments'[d])
  BY <1>2, AdjustmentsAreSound
<1>4. AdjustmentsInv'
  BY <1>2, <1>3 DEF AdjustmentsInv, SoundAdjustment
<1>. QED
  BY <1>2, <1>4

LEMMA AdjustmentsStay ==
  ASSUME AdjustmentsInv, UNCHANGED adjustments
  PROVE  AdjustmentsInv'
BY DEF AdjustmentsInv

(* Versions only grow, and a balance that keeps its version keeps its      *)
(* quantity.                                                               *)
Forward ==
  /\ Balances /\ Balances'
  /\ \A b \in Rows : /\ version'[b] >= version[b]
                     /\ version'[b] = version[b] => onHand'[b] = onHand[b]

LEMMA StillForward ==
  ASSUME Balances, UNCHANGED stock
  PROVE  Forward
<1>1. UNCHANGED <<onHand, version, other>>
  BY DEF stock
<1>2. \A b \in Rows : version[b] \in Nat
  BY DEF Balances
<1>. QED
  BY <1>1, <1>2 DEF Balances, Forward

(* The snapshot of a line after a step. *)
Later(line) ==
  /\ line.asOf <= version'[line.row]
  /\ line.asOf = version'[line.row] => line.system = onHand'[line.row]
  /\ AtMostOne(line.counted) /\ AtMostOne(line.variance)

LEMMA SnapshotStays ==
  ASSUME Forward, NEW line \in CountLine, Snapshot(line)
  PROVE  Later(line)
<1>1. /\ line.row \in Rows /\ line.asOf \in Nat
      /\ version[line.row] \in Nat /\ version'[line.row] \in Nat
  BY DEF CountLine, Forward, Balances
<1>. QED
  BY <1>1 DEF Forward, Snapshot, Later

LEMMA CountsLater ==
  ASSUME Forward, counts' \in Seq(StockCount), \A k \in DOMAIN counts' : SoundCount(k, counts'[k])
  PROVE  CountsInv'
<1>1. ASSUME NEW k \in DOMAIN counts'
      PROVE  /\ counts'[k].reversalOf \in 0..(k - 1)
             /\ \A n \in DOMAIN counts'[k].lines : Later(counts'[k].lines[n])
  <2>1. SoundCount(k, counts'[k])
    OBVIOUS
  <2>2. counts'[k].lines \in Seq(CountLine)
    BY <2>1 DEF SoundCount, StockCount
  <2>3. ASSUME NEW n \in DOMAIN counts'[k].lines
        PROVE  Later(counts'[k].lines[n])
    <3>1. counts'[k].lines[n] \in CountLine
      BY <2>2, SequenceDomain
    <3>2. Snapshot(counts'[k].lines[n])
      BY <2>1 DEF SoundCount
    <3>. QED
      BY <3>1, <3>2, SnapshotStays
  <2>. QED
    BY <2>1, <2>3 DEF SoundCount
<1>. QED
  BY <1>1 DEF CountsInv, Snapshot, Later

LEMMA CountReplaced ==
  ASSUME Forward, CountsInv, NEW k \in DOMAIN counts, NEW new, SoundCount(k, new),
         counts' = [counts EXCEPT ![k] = new]
  PROVE  /\ CountsInv' /\ DOMAIN counts' = DOMAIN counts /\ counts'[k] = new
         /\ \A d \in DOMAIN counts : d # k => counts'[d] = counts[d]
<1>1. counts \in Seq(StockCount) /\ new \in StockCount
  BY DEF CountsInv, SoundCount
<1>2. /\ counts' \in Seq(StockCount) /\ DOMAIN counts' = DOMAIN counts /\ counts'[k] = new
      /\ \A d \in DOMAIN counts : d # k => counts'[d] = counts[d]
  BY <1>1, ReplacedIn
<1>3. \A d \in DOMAIN counts' : SoundCount(d, counts'[d])
  BY <1>2, CountsAreSound
<1>4. CountsInv'
  BY <1>2, <1>3, CountsLater
<1>. QED
  BY <1>2, <1>4

LEMMA CountAdded ==
  ASSUME Forward, CountsInv, NEW new, SoundCount(Len(counts) + 1, new),
         counts' = Append(counts, new)
  PROVE  /\ CountsInv' /\ DOMAIN counts' = DOMAIN counts \cup {Len(counts) + 1}
         /\ Len(counts) + 1 \notin DOMAIN counts /\ counts'[Len(counts) + 1] = new
         /\ \A d \in DOMAIN counts : counts'[d] = counts[d]
<1>1. counts \in Seq(StockCount) /\ new \in StockCount
  BY DEF CountsInv, SoundCount
<1>2. /\ counts' \in Seq(StockCount) /\ DOMAIN counts' = DOMAIN counts \cup {Len(counts) + 1}
      /\ Len(counts) + 1 \notin DOMAIN counts /\ counts'[Len(counts) + 1] = new
      /\ \A d \in DOMAIN counts : counts'[d] = counts[d]
  BY <1>1, AppendedTo
<1>3. \A d \in DOMAIN counts' : SoundCount(d, counts'[d])
  BY <1>2, CountsAreSound
<1>4. CountsInv'
  BY <1>2, <1>3, CountsLater
<1>. QED
  BY <1>2, <1>4

LEMMA CountsStay ==
  ASSUME Forward, CountsInv, UNCHANGED counts
  PROVE  CountsInv'
<1>1. counts' \in Seq(StockCount) /\ \A k \in DOMAIN counts' : SoundCount(k, counts'[k])
  BY CountsAreSound
<1>. QED
  BY <1>1, CountsLater

(* Documents do not go away, nor lines of a count, nor what was counted.   *)
Onward ==
  /\ DOMAIN adjustments \subseteq DOMAIN adjustments'
  /\ DOMAIN counts \subseteq DOMAIN counts'
  /\ \A k \in DOMAIN counts :
        /\ DOMAIN counts'[k].lines = DOMAIN counts[k].lines
        /\ \A n \in DOMAIN counts[k].lines :
              counts[k].lines[n].counted # Null => counts'[k].lines[n].counted # Null

LEMMA CallStays ==
  ASSUME Forward, Onward, NEW c \in Clients, CallInv(c), client'[c] = client[c]
  PROVE  CallInv(c)'
<1> DEFINE call == client[c]
<1>1. ASSUME call.op = "createCount"
      PROVE  \A n \in DOMAIN call.data.lines : Later(call.data.lines[n])
  <2>1. call.data.lines \in Seq(CountLine)
    BY <1>1 DEF CallInv
  <2>2. ASSUME NEW n \in DOMAIN call.data.lines
        PROVE  Later(call.data.lines[n])
    <3>1. call.data.lines[n] \in CountLine
      BY <2>1, SequenceDomain
    <3>2. Snapshot(call.data.lines[n])
      BY <1>1 DEF CallInv
    <3>. QED
      BY <3>1, <3>2, SnapshotStays
  <2>. QED
    BY <2>2
<1>2. /\ call = [op |-> call.op, doc |-> call.doc, data |-> call.data]
      /\ call.op \in {"none", "updateAdjustment", "adjustmentStatus", "createCount",
                      "updateCount", "submitCount", "countStatus"}
      /\ call.op \in {"updateAdjustment", "adjustmentStatus"} => call.doc \in DOMAIN adjustments'
      /\ call.op \in {"updateCount", "submitCount", "countStatus"} => call.doc \in DOMAIN counts'
      /\ call.op = "updateAdjustment" => call.data.input \in Inputs
      /\ call.op = "adjustmentStatus" => call.data \in {"submitted", "approved", "rejected"}
      /\ call.op = "countStatus" => call.data \in {"approved", "rejected"}
  BY DEF CallInv, Onward
<1>3. call.op = "createCount" =>
          /\ call.data = [rows |-> call.data.rows, lines |-> call.data.lines]
          /\ call.data.rows \in Selections /\ call.data.lines \in Seq(CountLine)
  BY DEF CallInv
<1>4. ASSUME call.op = "updateCount"
      PROVE  call.data.line \in DOMAIN counts'[call.doc].lines /\ call.data.counted \in Counted
  BY <1>4 DEF CallInv, Onward
<1>5. ASSUME call.op = "submitCount"
      PROVE  /\ DOMAIN call.data = DOMAIN counts'[call.doc].lines
             /\ \A n \in DOMAIN counts'[call.doc].lines :
                   /\ counts'[call.doc].lines[n].counted # Null
                   /\ call.data[n] \subseteq Int /\ AtMostOne(call.data[n])
  <2>1. call.doc \in DOMAIN counts
    BY <1>5 DEF CallInv
  <2>2. DOMAIN counts'[call.doc].lines = DOMAIN counts[call.doc].lines
        /\ \A n \in DOMAIN counts[call.doc].lines :
              counts[call.doc].lines[n].counted # Null => counts'[call.doc].lines[n].counted # Null
    BY <2>1 DEF Onward
  <2>3. /\ DOMAIN call.data = DOMAIN counts[call.doc].lines
        /\ \A n \in DOMAIN counts[call.doc].lines :
              /\ counts[call.doc].lines[n].counted # Null
              /\ call.data[n] \subseteq Int /\ AtMostOne(call.data[n])
    BY <1>5 DEF CallInv
  <2>. QED
    BY <2>2, <2>3
<1>6. client'[c] = call
  OBVIOUS
<1>. HIDE DEF call
<1>. QED
  BY <1>1, <1>2, <1>3, <1>4, <1>5, <1>6 DEF CallInv, Snapshot, Later

LEMMA IdleCall ==
  ASSUME NEW c, client'[c] = Idle
  PROVE  CallInv(c)'
BY DEF CallInv, Idle

(* The invariant after a step, from its parts: of the calls only c's own   *)
(* has changed.                                                            *)
LEMMA Together ==
  ASSUME IInv, Forward, AdjustmentsInv', CountsInv', Onward,
         NEW c \in Clients, NEW new, client' = [client EXCEPT ![c] = new],
         client'[c] = new => CallInv(c)'
  PROVE  IInv'
<1>1. DOMAIN client' = Clients /\ client'[c] = new
      /\ \A d \in Clients : d # c => client'[d] = client[d]
  BY DEF IInv
<1>2. \A d \in Clients : CallInv(d)
  BY DEF IInv
<1>3. ASSUME NEW d \in Clients
      PROVE  CallInv(d)'
  <2>1. CASE d = c
    BY <1>1, <2>1
  <2>2. CASE d # c
    BY <1>1, <1>2, <2>2, CallStays
  <2>. QED
    BY <2>1, <2>2
<1>. QED
  BY <1>1, <1>3 DEF IInv, Forward

LEMMA TogetherStill ==
  ASSUME IInv, Forward, AdjustmentsInv', CountsInv', Onward, UNCHANGED client
  PROVE  IInv'
<1>1. DOMAIN client' = Clients /\ \A d \in Clients : CallInv(d) /\ client'[d] = client[d]
  BY DEF IInv
<1>2. \A d \in Clients : CallInv(d)'
  BY <1>1, CallStays
<1>. QED
  BY <1>1, <1>2 DEF IInv, Forward

-----------------------------------------------------------------------------
(* Steps of adjustments, however stale a save is *)

LEMMA OnwardStill ==
  ASSUME UNCHANGED counts, DOMAIN adjustments \subseteq DOMAIN adjustments'
  PROVE  Onward
BY DEF Onward

LEMMA InParts ==
  IInv => /\ Balances /\ AdjustmentsInv /\ CountsInv
          /\ DOMAIN client = Clients /\ \A c \in Clients : CallInv(c)
BY DEF IInv

DraftForm(input) ==
  [status |-> "draft", ver |-> 0, lines |-> Lines(input), material |-> Material(input),
   reversalOf |-> 0]

LEMMA AdjustmentCreated ==
  ASSUME IInv, NEW c \in Clients, NEW input \in Inputs, CreateAdjustment(c, input)
  PROVE  IInv' /\ adjustments' = Append(adjustments, DraftForm(input))
<1> DEFINE new == DraftForm(input)
<1>1. /\ adjustments' = Append(adjustments, new) /\ UNCHANGED <<stock, counts, client>>
  BY DEF CreateAdjustment, InOneTransaction, DraftForm
<1>2. Balances /\ AdjustmentsInv /\ CountsInv
  BY InParts
<1>3. /\ Lines(input) \in Seq(AdjustmentLine) /\ (Material(Lines(input)) <=> Material(input))
      /\ \A n \in DOMAIN Lines(input) : /\ AtMostOne(Lines(input)[n].prior)
                                        /\ AtMostOne(Lines(input)[n].resulting)
  BY AskedLines
<1>4. Len(adjustments) \in Nat
  BY <1>2, SequenceDomain DEF AdjustmentsInv
<1>5. SoundAdjustment(Len(adjustments) + 1, new)
  <2>1. Material(input) \in BOOLEAN
    BY DEF Material
  <2>2. new \in Adjustment
    BY <1>3, <2>1 DEF DraftForm, Adjustment, Status
  <2>3. new.reversalOf \in 0..((Len(adjustments) + 1) - 1)
    BY <1>4 DEF DraftForm
  <2>. QED
    BY <1>3, <2>2, <2>3 DEF SoundAdjustment, DraftForm
<1>. HIDE DEF new
<1>6. AdjustmentsInv' /\ DOMAIN adjustments \subseteq DOMAIN adjustments'
  BY <1>1, <1>2, <1>5, AdjustmentAdded
<1>7. Forward
  BY <1>1, <1>2, StillForward
<1>8. CountsInv' /\ Onward
  BY <1>1, <1>2, <1>6, <1>7, CountsStay, OnwardStill
<1>9. IInv'
  BY <1>1, <1>6, <1>7, <1>8, TogetherStill
<1>. QED
  BY <1>1, <1>9 DEF new

(* A step that only reads: the document it is about is there. *)
LEMMA OnlyRead ==
  ASSUME IInv, NEW c \in Clients, NEW op, NEW doc, NEW data, Read(c, op, doc, data),
         UNCHANGED <<stock, adjustments, counts>>,
         client'[c] = [op |-> op, doc |-> doc, data |-> data] => CallInv(c)'
  PROVE  IInv'
<1> DEFINE new == [op |-> op, doc |-> doc, data |-> data]
<1>1. client' = [client EXCEPT ![c] = new]
  BY DEF Read
<1>2. Balances /\ AdjustmentsInv /\ CountsInv
  BY InParts
<1>3. Forward
  BY <1>2, StillForward
<1>4. AdjustmentsInv' /\ CountsInv' /\ Onward
  BY <1>2, <1>3, AdjustmentsStay, CountsStay, OnwardStill
<1>5. client'[c] = new => CallInv(c)'
  OBVIOUS
<1>. HIDE DEF new
<1>. QED
  BY <1>1, <1>3, <1>4, <1>5, Together

LEMMA UpdateAdjustmentRead ==
  ASSUME IInv, NEW c \in Clients, NEW a \in DOMAIN adjustments, NEW input \in Inputs,
         ReadUpdateAdjustment(c, a, input)
  PROVE  IInv'
<1> DEFINE data == [ver |-> adjustments[a].ver, input |-> input]
<1>1. Read(c, "updateAdjustment", a, data) /\ UNCHANGED <<stock, adjustments, counts>>
  BY DEF ReadUpdateAdjustment
<1>2. ASSUME client'[c] = [op |-> "updateAdjustment", doc |-> a, data |-> data]
      PROVE  CallInv(c)'
  BY <1>1, <1>2 DEF CallInv
<1>. HIDE DEF data
<1>. QED
  BY <1>1, <1>2, OnlyRead

LEMMA AdjustmentStatusRead ==
  ASSUME IInv, NEW c \in Clients, NEW a \in DOMAIN adjustments, NEW to,
         ReadAdjustmentStatus(c, a, to)
  PROVE  IInv'
<1>1. /\ Read(c, "adjustmentStatus", a, to) /\ UNCHANGED <<stock, adjustments, counts>>
      /\ to \in {"submitted", "approved", "rejected"}
  BY DEF ReadAdjustmentStatus
<1>2. ASSUME client'[c] = [op |-> "adjustmentStatus", doc |-> a, data |-> to]
      PROVE  CallInv(c)'
  BY <1>1, <1>2 DEF CallInv
<1>. QED
  BY <1>1, <1>2, OnlyRead

(* A step that saves adjustment a, or leaves it as it is. *)
LEMMA AdjustmentSaved ==
  ASSUME IInv, NEW c \in Clients, NEW a \in DOMAIN adjustments, NEW new,
         SoundAdjustment(a, new), UNCHANGED <<stock, counts>>,
         client' = [client EXCEPT ![c] = Idle],
         adjustments' = [adjustments EXCEPT ![a] = new]
  PROVE  IInv'
<1>1. Balances /\ AdjustmentsInv /\ CountsInv
  BY InParts
<1>2. AdjustmentsInv' /\ DOMAIN adjustments' = DOMAIN adjustments
  BY <1>1, AdjustmentReplaced
<1>3. Forward
  BY <1>1, StillForward
<1>4. CountsInv' /\ Onward
  BY <1>1, <1>2, <1>3, CountsStay, OnwardStill
<1>. QED
  BY <1>2, <1>3, <1>4, IdleCall, Together

LEMMA UpdateFacts ==
  ASSUME IInv, NEW c \in Clients, SaveUpdateAdjustment(c)
  PROVE  LET a   == client[c].doc
             new == IF adjustments[a].ver # client[c].data.ver THEN adjustments[a]
                    ELSE Revised(adjustments[a], client[c].data.input)
         IN  /\ a \in DOMAIN adjustments /\ SoundAdjustment(a, new)
             /\ adjustments' = [adjustments EXCEPT ![a] = new]
             /\ new.status = adjustments[a].status
             /\ client[c].op = "updateAdjustment" /\ client' = [client EXCEPT ![c] = Idle]
             /\ UNCHANGED <<stock, counts>>
<1> DEFINE a == client[c].doc
           data == client[c].data
           old == adjustments[a]
<1>1. /\ client[c].op = "updateAdjustment" /\ client' = [client EXCEPT ![c] = Idle]
      /\ adjustments' = IF adjustments[a].ver # data.ver THEN adjustments
                        ELSE [adjustments EXCEPT ![a] = Revised(adjustments[a], data.input)]
      /\ UNCHANGED <<stock, counts>>
  BY DEF SaveUpdateAdjustment, Saving
<1>2. AdjustmentsInv /\ CallInv(c)
  BY InParts
<1>3. a \in DOMAIN adjustments /\ data.input \in Inputs
  BY <1>1, <1>2 DEF CallInv
<1>4. SoundAdjustment(a, old) /\ old \in Adjustment
  BY <1>2, <1>3, AdjustmentsAreSound DEF SoundAdjustment
<1>5. CASE adjustments[a].ver # data.ver
  <2>1. adjustments' = [adjustments EXCEPT ![a] = adjustments[a]]
    BY <1>1, <1>2, <1>3, <1>5 DEF AdjustmentsInv
  <2>. QED
    BY <1>1, <1>3, <1>4, <1>5, <2>1
<1>6. CASE adjustments[a].ver = data.ver
  <2> DEFINE new == Revised(old, data.input)
             input == data.input
  <2>1. /\ Lines(input) \in Seq(AdjustmentLine) /\ (Material(Lines(input)) <=> Material(input))
        /\ \A n \in DOMAIN Lines(input) : /\ AtMostOne(Lines(input)[n].prior)
                                          /\ AtMostOne(Lines(input)[n].resulting)
    BY <1>3, AskedLines
  <2>2. new = [old EXCEPT !.ver = old.ver + 1, !.lines = Lines(input),
                          !.material = Material(input)]
    BY DEF Revised
  <2>3. Material(input) \in BOOLEAN /\ old.ver + 1 \in Nat
    BY <1>4 DEF Material, Adjustment
  <2>. HIDE DEF new, old, input
  <2>4. /\ new \in Adjustment /\ new.status = old.status /\ new.reversalOf = old.reversalOf
        /\ new.lines = Lines(input) /\ (new.material <=> Material(input))
    BY <1>4, <2>1, <2>2, <2>3 DEF Adjustment
  <2>5. SoundAdjustment(a, new)
    BY <1>4, <2>1, <2>4 DEF SoundAdjustment
  <2>. QED
    BY <1>1, <1>3, <1>6, <2>4, <2>5 DEF new, old, input
<1>. QED
  BY <1>5, <1>6

LEMMA AdjustmentUpdated ==
  ASSUME IInv, NEW c \in Clients, SaveUpdateAdjustment(c)
  PROVE  IInv'
BY UpdateFacts, AdjustmentSaved

(* Another status for a document whose lines stay. *)
LEMMA MovesOn ==
  ASSUME AdjustmentsInv, NEW a \in DOMAIN adjustments, NEW to \in Status
  PROVE  LET new == [adjustments[a] EXCEPT !.status = to] IN
         /\ SoundAdjustment(a, new) /\ new.status = to /\ new.lines = adjustments[a].lines
<1>1. SoundAdjustment(a, adjustments[a]) /\ adjustments[a] \in Adjustment
  BY AdjustmentsAreSound DEF SoundAdjustment
<1>2. PICK new : new = [adjustments[a] EXCEPT !.status = to]
  OBVIOUS
<1>3. /\ new \in Adjustment /\ new.status = to /\ new.lines = adjustments[a].lines
      /\ new.reversalOf = adjustments[a].reversalOf
      /\ (new.material <=> adjustments[a].material)
  BY <1>1, <1>2 DEF Adjustment
<1>4. SoundAdjustment(a, new)
  BY <1>1, <1>3 DEF SoundAdjustment
<1>. QED
  BY <1>2, <1>3, <1>4

LEMMA StatusFacts ==
  ASSUME IInv, NEW c \in Clients, SaveAdjustmentStatus(c)
  PROVE  LET a   == client[c].doc
             to  == client[c].data
             new == [adjustments[a] EXCEPT !.status = to]
         IN  /\ a \in DOMAIN adjustments /\ to \in {"submitted", "approved", "rejected"}
             /\ SoundAdjustment(a, new) /\ adjustments' = [adjustments EXCEPT ![a] = new]
             /\ new.status = to /\ new.lines = adjustments[a].lines
             /\ client[c].op = "adjustmentStatus" /\ client' = [client EXCEPT ![c] = Idle]
             /\ UNCHANGED <<stock, counts>>
<1> DEFINE a == client[c].doc
           to == client[c].data
<1>1. /\ client[c].op = "adjustmentStatus" /\ client' = [client EXCEPT ![c] = Idle]
      /\ adjustments' = [adjustments EXCEPT ![a] = [adjustments[a] EXCEPT !.status = to]]
      /\ UNCHANGED <<stock, counts>>
  BY DEF SaveAdjustmentStatus, Saving
<1>2. AdjustmentsInv /\ CallInv(c)
  BY InParts
<1>3. a \in DOMAIN adjustments /\ to \in {"submitted", "approved", "rejected"}
  BY <1>1, <1>2 DEF CallInv
<1>4. to \in Status
  BY <1>3 DEF Status
<1>. HIDE DEF a, to
<1>5. LET new == [adjustments[a] EXCEPT !.status = to] IN
      SoundAdjustment(a, new) /\ new.status = to /\ new.lines = adjustments[a].lines
  BY <1>2, <1>3, <1>4, MovesOn
<1>. QED
  BY <1>1, <1>3, <1>5 DEF a, to

LEMMA AdjustmentStatusSaved ==
  ASSUME IInv, NEW c \in Clients, SaveAdjustmentStatus(c)
  PROVE  IInv'
BY StatusFacts, AdjustmentSaved

(* What posting movements does, in the terms of the steps. *)
Moving(moves) ==
  /\ Forward /\ UNCHANGED other
  /\ \A b \in Rows : onHand'[b] = onHand[b] + Net(moves, b)

LEMMA PostingMoves ==
  ASSUME Balances, NEW T, NEW moves \in Seq(T), Moves(moves), PostMovements(moves)
  PROVE  Moving(moves)
BY Moved DEF Moving, Forward

PostedForm(a) ==
  [adjustments[a] EXCEPT !.status = "posted", !.lines = Recorded(adjustments[a].lines)]

LEMMA AdjustmentPostFacts ==
  ASSUME IInv, NEW c \in Clients, NEW a \in DOMAIN adjustments, PostAdjustment(c, a)
  PROVE  LET lines == adjustments[a].lines IN
         /\ adjustments[a].status = "approved"
         /\ lines \in Seq(AdjustmentLine) /\ Moving(lines)
         /\ SoundAdjustment(a, PostedForm(a))
         /\ PostedForm(a).status = "posted" /\ PostedForm(a).lines = Recorded(lines)
         /\ adjustments' = [adjustments EXCEPT ![a] = PostedForm(a)]
         /\ UNCHANGED <<counts, client>>
<1> DEFINE lines == adjustments[a].lines
           old == adjustments[a]
           new == PostedForm(a)
<1>1. /\ May(old.status, "posted") /\ PostMovements(lines) /\ UNCHANGED <<counts, client>>
      /\ adjustments' = [adjustments EXCEPT ![a] = new]
  BY DEF PostAdjustment, InOneTransaction, PostedForm
<1>2. Balances /\ AdjustmentsInv
  BY InParts
<1>3. old.status = "approved"
  BY <1>1 DEF May
<1>4. old \in Adjustment /\ lines \in Seq(AdjustmentLine) /\ Moves(lines)
  BY <1>2, AdjustmentFields, LinesMove
<1>5. Moving(lines)
  BY <1>1, <1>2, <1>4, PostingMoves
<1>6. /\ Recorded(lines) \in Seq(AdjustmentLine) /\ DOMAIN Recorded(lines) = DOMAIN lines
      /\ (Material(Recorded(lines)) <=> Material(lines))
      /\ \A n \in DOMAIN lines :
            /\ Recorded(lines)[n].prior = {onHand[lines[n].row]}
            /\ Recorded(lines)[n].resulting = {onHand[lines[n].row] + lines[n].delta}
  BY <1>2, <1>4, RecordedLines DEF Balances
<1>7. \A n \in DOMAIN Recorded(lines) : /\ AtMostOne(Recorded(lines)[n].prior)
                                        /\ AtMostOne(Recorded(lines)[n].resulting)
  BY <1>6 DEF AtMostOne
<1>8. SoundAdjustment(a, old)
  BY <1>2, AdjustmentsAreSound
<1>9. new = [old EXCEPT !.status = "posted", !.lines = Recorded(lines)]
  BY DEF PostedForm
<1>10. /\ new \in Adjustment /\ new.status = "posted" /\ new.lines = Recorded(lines)
       /\ new.reversalOf = old.reversalOf /\ (new.material <=> old.material)
  <2>1. "posted" \in Status
    BY DEF Status
  <2>. HIDE DEF new, old, lines
  <2>. QED
    BY <1>4, <1>6, <1>9, <2>1 DEF Adjustment
<1>11. SoundAdjustment(a, new)
  <2>. HIDE DEF new
  <2>. QED
    BY <1>6, <1>7, <1>8, <1>10 DEF SoundAdjustment
<1>. QED
  BY <1>1, <1>3, <1>4, <1>5, <1>10, <1>11

LEMMA AdjustmentPosted ==
  ASSUME IInv, NEW c \in Clients, NEW a \in DOMAIN adjustments, PostAdjustment(c, a)
  PROVE  IInv'
<1>1. AdjustmentsInv /\ CountsInv
  BY InParts
<1>2. /\ Forward /\ SoundAdjustment(a, PostedForm(a)) /\ UNCHANGED <<counts, client>>
      /\ adjustments' = [adjustments EXCEPT ![a] = PostedForm(a)]
  BY AdjustmentPostFacts DEF Moving
<1>3. AdjustmentsInv' /\ DOMAIN adjustments' = DOMAIN adjustments
  BY <1>1, <1>2, AdjustmentReplaced
<1>4. CountsInv' /\ Onward
  BY <1>1, <1>2, <1>3, CountsStay, OnwardStill
<1>. QED
  BY <1>2, <1>3, <1>4, TogetherStill

ReversalForm(a) ==
  [status |-> "posted", ver |-> 0, lines |-> Recorded(Opposite(adjustments[a].lines)),
   material |-> adjustments[a].material, reversalOf |-> a]

LEMMA AdjustmentReverseFacts ==
  ASSUME IInv, NEW c \in Clients, NEW a \in DOMAIN adjustments, ReverseAdjustment(c, a)
  PROVE  LET lines == Opposite(adjustments[a].lines) IN
         /\ lines \in Seq(AdjustmentLine) /\ Moving(lines)
         /\ SoundAdjustment(Len(adjustments) + 1, ReversalForm(a))
         /\ ReversalForm(a).status = "posted" /\ ReversalForm(a).lines = Recorded(lines)
         /\ adjustments' = Append(adjustments, ReversalForm(a))
         /\ UNCHANGED <<counts, client>>
<1> DEFINE lines == Opposite(adjustments[a].lines)
           old == adjustments[a]
           new == ReversalForm(a)
<1>1. /\ PostMovements(lines) /\ adjustments' = Append(adjustments, new)
      /\ UNCHANGED <<counts, client>>
  BY DEF ReverseAdjustment, InOneTransaction, ReversalForm, Opposite
<1>2. Balances /\ AdjustmentsInv
  BY InParts
<1>3. /\ old \in Adjustment /\ old.lines \in Seq(AdjustmentLine)
      /\ a \in 1..Len(adjustments) /\ Len(adjustments) \in Nat
  BY <1>2, AdjustmentFields
<1>4. /\ lines \in Seq(AdjustmentLine) /\ (Material(lines) <=> Material(old.lines))
      /\ Moves(lines)
  BY <1>3, OppositeLines, LinesMove
<1>5. Moving(lines)
  BY <1>1, <1>2, <1>4, PostingMoves
<1>6. /\ Recorded(lines) \in Seq(AdjustmentLine) /\ DOMAIN Recorded(lines) = DOMAIN lines
      /\ (Material(Recorded(lines)) <=> Material(lines))
      /\ \A n \in DOMAIN lines :
            /\ Recorded(lines)[n].prior = {onHand[lines[n].row]}
            /\ Recorded(lines)[n].resulting = {onHand[lines[n].row] + lines[n].delta}
  BY <1>2, <1>4, RecordedLines DEF Balances
<1>7. \A n \in DOMAIN Recorded(lines) : /\ AtMostOne(Recorded(lines)[n].prior)
                                        /\ AtMostOne(Recorded(lines)[n].resulting)
  BY <1>6 DEF AtMostOne
<1>8. SoundAdjustment(a, old)
  BY <1>2, AdjustmentsAreSound
<1>9. /\ new = [status |-> "posted", ver |-> 0, lines |-> Recorded(lines),
                material |-> old.material, reversalOf |-> a]
      /\ a \in Nat /\ a \in 0..((Len(adjustments) + 1) - 1)
  BY <1>3 DEF ReversalForm
<1>10. new \in Adjustment /\ new.status = "posted" /\ new.lines = Recorded(lines)
       /\ new.reversalOf = a /\ (new.material <=> old.material)
  <2>1. "posted" \in Status /\ old.material \in BOOLEAN
    BY <1>3 DEF Status, Adjustment
  <2>. HIDE DEF new, old, lines
  <2>. QED
    BY <1>6, <1>9, <2>1 DEF Adjustment
<1>11. SoundAdjustment(Len(adjustments) + 1, new)
  <2>. HIDE DEF new
  <2>. QED
    BY <1>4, <1>6, <1>7, <1>8, <1>9, <1>10 DEF SoundAdjustment
<1>. QED
  BY <1>1, <1>4, <1>5, <1>10, <1>11

LEMMA AdjustmentReversed ==
  ASSUME IInv, NEW c \in Clients, NEW a \in DOMAIN adjustments, ReverseAdjustment(c, a)
  PROVE  IInv'
<1>1. AdjustmentsInv /\ CountsInv
  BY InParts
<1>2. /\ Forward /\ UNCHANGED <<counts, client>>
      /\ SoundAdjustment(Len(adjustments) + 1, ReversalForm(a))
      /\ adjustments' = Append(adjustments, ReversalForm(a))
  BY AdjustmentReverseFacts DEF Moving
<1>3. AdjustmentsInv' /\ DOMAIN adjustments \subseteq DOMAIN adjustments'
  BY <1>1, <1>2, AdjustmentAdded
<1>4. CountsInv' /\ Onward
  BY <1>1, <1>2, <1>3, CountsStay, OnwardStill
<1>. QED
  BY <1>2, <1>3, <1>4, TogetherStill

-----------------------------------------------------------------------------
(* Steps of counts, however stale a save is *)

LEMMA CreatingCall ==
  ASSUME NEW c, NEW doc, NEW rows \in Selections, NEW lines \in Seq(CountLine),
         \A n \in DOMAIN lines : Later(lines[n]),
         client'[c] = [op |-> "createCount", doc |-> doc, data |-> [rows |-> rows, lines |-> lines]]
  PROVE  CallInv(c)'
<1>1. PICK data : data = [rows |-> rows, lines |-> lines]
  OBVIOUS
<1>2. /\ data.rows = rows /\ data.lines = lines
      /\ data = [rows |-> data.rows, lines |-> data.lines]
  BY <1>1
<1>3. PICK call : call = client'[c]
  OBVIOUS
<1>4. /\ call.op = "createCount" /\ call.data = data
      /\ call = [op |-> call.op, doc |-> call.doc, data |-> call.data]
  BY <1>1, <1>3
<1>5. \A n \in DOMAIN call.data.lines : Later(call.data.lines[n])
  BY <1>2, <1>4
<1>. QED
  BY <1>2, <1>3, <1>4, <1>5 DEF CallInv, Snapshot, Later

LEMMA CountBegun ==
  ASSUME IInv, NEW c \in Clients, NEW rows \in Selections, BeginCount(c, rows)
  PROVE  IInv'
<1> DEFINE data == [rows |-> rows, lines |-> <<>>]
<1>1. Read(c, "createCount", 0, data) /\ UNCHANGED <<stock, adjustments, counts>>
  BY DEF BeginCount
<1>2. ASSUME client'[c] = [op |-> "createCount", doc |-> 0, data |-> data]
      PROVE  CallInv(c)'
  <2>1. <<>> \in Seq(CountLine) /\ \A n \in DOMAIN <<>> : Later((<<>>)[n])
    OBVIOUS
  <2>. QED
    BY <1>2, <2>1, CreatingCall
<1>. HIDE DEF data
<1>. QED
  BY <1>1, <1>2, OnlyRead

LEMMA RowSnapshot ==
  ASSUME IInv, NEW c \in Clients, SnapshotRow(c)
  PROVE  IInv'
<1> DEFINE call == client[c]
           data == client[c].data
           row == data.rows[Len(data.lines) + 1]
           line == [row |-> row, system |-> onHand[row], counted |-> Null,
                    variance |-> Null, asOf |-> version[row]]
           next == [rows |-> data.rows, lines |-> Append(data.lines, line)]
           new == [op |-> "createCount", doc |-> call.doc, data |-> next]
<1>1. /\ call.op = "createCount" /\ Len(data.lines) < Len(data.rows)
      /\ client' = [client EXCEPT ![c].data.lines = Append(@, line)]
      /\ UNCHANGED <<stock, adjustments, counts>>
  BY DEF SnapshotRow
<1>2. Balances /\ AdjustmentsInv /\ CountsInv /\ CallInv(c)
  BY InParts
<1>3. /\ call = [op |-> "createCount", doc |-> call.doc, data |-> data]
      /\ data = [rows |-> data.rows, lines |-> data.lines]
      /\ data.rows \in Selections /\ data.lines \in Seq(CountLine)
      /\ \A n \in DOMAIN data.lines : Snapshot(data.lines[n])
  BY <1>1, <1>2 DEF CallInv
<1>4. row \in Rows
  <2>1. data.rows \in Seq(Rows)
    BY <1>3, CorrectionsAssumption
  <2>2. Len(data.lines) \in Nat /\ Len(data.rows) \in Nat
    BY <1>3, <2>1, SequenceDomain
  <2>3. Len(data.lines) + 1 \in DOMAIN data.rows
    BY <1>1, <2>1, <2>2
  <2>. HIDE DEF data
  <2>. QED
    BY <2>1, <2>3, SequenceDomain
<1>5. line \in CountLine /\ Snapshot(line)
  <2>1. onHand[row] \in Nat /\ version[row] \in Nat
    BY <1>2, <1>4 DEF Balances
  <2>. HIDE DEF row
  <2>. QED
    BY <1>4, <2>1 DEF CountLine, Snapshot, AtMostOne, Null
<1>6. client' = [client EXCEPT ![c] = new]
  <2>1. client' = [client EXCEPT
                     ![c] = [call EXCEPT
                               !.data = [data EXCEPT !.lines = Append(data.lines, line)]]]
    BY <1>1
  <2>2. [data EXCEPT !.lines = Append(data.lines, line)] = next
    <3>1. PICK rows, lines, more :
             rows = data.rows /\ lines = data.lines /\ more = Append(data.lines, line)
      OBVIOUS
    <3>. HIDE DEF data, line
    <3>2. data = [rows |-> rows, lines |-> lines]
      BY <1>3, <3>1
    <3>3. [data EXCEPT !.lines = more] = [rows |-> rows, lines |-> more]
      BY <3>2
    <3>. QED
      BY <3>1, <3>3
  <2>3. [call EXCEPT !.data = next] = new
    <3>1. PICK doc : doc = call.doc
      OBVIOUS
    <3>. HIDE DEF call, data, next
    <3>2. call = [op |-> "createCount", doc |-> doc, data |-> data]
      BY <1>3, <3>1
    <3>. QED
      BY <3>1, <3>2
  <2>. HIDE DEF data, line, next, new, call
  <2>. QED
    BY <2>1, <2>2, <2>3
<1>. HIDE DEF line, row
<1>7. /\ Append(data.lines, line) \in Seq(CountLine)
      /\ \A n \in DOMAIN Append(data.lines, line) : Snapshot(Append(data.lines, line)[n])
  <2>1. PICK lines : lines = Append(data.lines, line)
    OBVIOUS
  <2>. HIDE DEF data
  <2>2. /\ lines \in Seq(CountLine) /\ DOMAIN lines = DOMAIN data.lines \cup {Len(data.lines) + 1}
        /\ lines[Len(data.lines) + 1] = line
        /\ \A n \in DOMAIN data.lines : lines[n] = data.lines[n]
    BY <1>3, <1>5, <2>1, AppendedTo
  <2>. QED
    BY <1>3, <1>5, <2>1, <2>2
<1>8. Forward /\ AdjustmentsInv' /\ CountsInv' /\ Onward
  BY <1>1, <1>2, StillForward, AdjustmentsStay, CountsStay, OnwardStill
<1>9. ASSUME client'[c] = new
      PROVE  CallInv(c)'
  <2>1. \A n \in DOMAIN next.lines : Later(next.lines[n])
    <3>1. UNCHANGED <<onHand, version>>
      BY <1>1 DEF stock
    <3>2. \A n \in DOMAIN next.lines : Snapshot(next.lines[n])
      BY <1>7
    <3>. HIDE DEF next
    <3>. QED
      BY <3>1, <3>2 DEF Snapshot, Later
  <2>2. /\ next.lines = Append(data.lines, line) /\ next.lines \in Seq(CountLine)
        /\ data.rows \in Selections /\ next = [rows |-> data.rows, lines |-> next.lines]
    BY <1>3, <1>7
  <2>3. client'[c] = [op |-> "createCount", doc |-> call.doc,
                      data |-> [rows |-> data.rows, lines |-> next.lines]]
    BY <1>9, <2>2
  <2>. HIDE DEF next, new, call, data
  <2>. QED
    BY <2>1, <2>2, <2>3, CreatingCall
<1>. HIDE DEF new
<1>. QED
  BY <1>6, <1>8, <1>9, Together

LEMMA CountCreateFacts ==
  ASSUME IInv, NEW c \in Clients, SaveCreateCount(c)
  PROVE  \E new : /\ SoundCount(Len(counts) + 1, new) /\ counts' = Append(counts, new)
                  /\ new.status = "draft"
                  /\ client' = [client EXCEPT ![c] = Idle] /\ UNCHANGED <<stock, adjustments>>
<1> DEFINE lines == client[c].data.lines
           new == [status |-> "draft", lines |-> lines, reversalOf |-> 0]
<1>1. /\ client[c].op = "createCount" /\ client' = [client EXCEPT ![c] = Idle]
      /\ counts' = Append(counts, new) /\ UNCHANGED <<stock, adjustments>>
  BY DEF SaveCreateCount, Saving
<1>2. CountsInv /\ CallInv(c)
  BY InParts
<1>3. lines \in Seq(CountLine) /\ \A n \in DOMAIN lines : Snapshot(lines[n])
  BY <1>1, <1>2 DEF CallInv
<1>4. Len(counts) \in Nat
  BY <1>2, SequenceDomain DEF CountsInv
<1>. HIDE DEF lines
<1>5. new \in StockCount /\ new.reversalOf \in 0..((Len(counts) + 1) - 1)
  BY <1>3, <1>4 DEF StockCount, Status
<1>6. SoundCount(Len(counts) + 1, new)
  BY <1>3, <1>5 DEF SoundCount
<1>. QED
  BY <1>1, <1>6

LEMMA CountCreated ==
  ASSUME IInv, NEW c \in Clients, SaveCreateCount(c)
  PROVE  IInv'
<1>1. PICK new : /\ SoundCount(Len(counts) + 1, new) /\ counts' = Append(counts, new)
                 /\ client' = [client EXCEPT ![c] = Idle] /\ UNCHANGED <<stock, adjustments>>
  BY CountCreateFacts
<1>2. Balances /\ AdjustmentsInv /\ CountsInv
  BY InParts
<1>3. Forward
  BY <1>1, <1>2, StillForward
<1>4. /\ CountsInv' /\ DOMAIN counts \subseteq DOMAIN counts'
      /\ \A d \in DOMAIN counts : counts'[d] = counts[d]
  BY <1>1, <1>2, <1>3, CountAdded
<1>5. AdjustmentsInv' /\ Onward
  BY <1>1, <1>2, <1>4, AdjustmentsStay DEF Onward
<1>. QED
  BY <1>1, <1>3, <1>4, <1>5, IdleCall, Together

(* What becomes of a count keeps its snapshots, and what was counted.      *)
Kept(k, new) ==
  /\ SoundCount(k, new)
  /\ DOMAIN new.lines = DOMAIN counts[k].lines
  /\ \A n \in DOMAIN new.lines :
        counts[k].lines[n].counted # Null => new.lines[n].counted # Null

LEMMA KeptOnward ==
  ASSUME Forward, CountsInv, NEW k \in DOMAIN counts, NEW new, Kept(k, new),
         counts' = [counts EXCEPT ![k] = new], UNCHANGED adjustments
  PROVE  CountsInv' /\ Onward
<1>1. /\ CountsInv' /\ DOMAIN counts' = DOMAIN counts /\ counts'[k] = new
      /\ \A d \in DOMAIN counts : d # k => counts'[d] = counts[d]
  BY CountReplaced DEF Kept
<1>. QED
  BY <1>1 DEF Onward, Kept

LEMMA CountSaved ==
  ASSUME IInv, NEW c \in Clients, NEW k \in DOMAIN counts, NEW new, Kept(k, new),
         counts' = [counts EXCEPT ![k] = new], UNCHANGED <<stock, adjustments>>,
         client' = [client EXCEPT ![c] = Idle]
  PROVE  IInv'
<1>1. Balances /\ AdjustmentsInv /\ CountsInv
  BY InParts
<1>2. Forward
  BY <1>1, StillForward
<1>3. CountsInv' /\ Onward /\ AdjustmentsInv'
  BY <1>1, <1>2, KeptOnward, AdjustmentsStay
<1>. QED
  BY <1>2, <1>3, IdleCall, Together

LEMMA UpdateCountRead ==
  ASSUME IInv, NEW c \in Clients, NEW k \in DOMAIN counts, NEW n \in DOMAIN counts[k].lines,
         NEW quantity \in Counted, ReadUpdateCount(c, k, n, quantity)
  PROVE  IInv'
<1> DEFINE data == [line |-> n, counted |-> quantity]
<1>1. Read(c, "updateCount", k, data) /\ UNCHANGED <<stock, adjustments, counts>>
  BY DEF ReadUpdateCount
<1>2. ASSUME client'[c] = [op |-> "updateCount", doc |-> k, data |-> data]
      PROVE  CallInv(c)'
  BY <1>1, <1>2 DEF CallInv
<1>. HIDE DEF data
<1>. QED
  BY <1>1, <1>2, OnlyRead

EnteredForm(k, n, quantity) ==
  [counts[k] EXCEPT !.lines = [counts[k].lines EXCEPT
                                 ![n] = [counts[k].lines[n] EXCEPT !.counted = {quantity}]]]

LEMMA EnteredFacts ==
  ASSUME IInv, NEW c \in Clients, SaveUpdateCount(c)
  PROVE  LET k == client[c].doc
             n == client[c].data.line
             new == EnteredForm(k, n, client[c].data.counted)
         IN  /\ k \in DOMAIN counts /\ Kept(k, new)
             /\ new.status = counts[k].status /\ new.reversalOf = counts[k].reversalOf
             /\ \A m \in DOMAIN counts[k].lines :
                   /\ new.lines[m].row = counts[k].lines[m].row
                   /\ new.lines[m].variance = counts[k].lines[m].variance
             /\ client[c].op = "updateCount" /\ client' = [client EXCEPT ![c] = Idle]
             /\ counts' = [counts EXCEPT ![k] = new] /\ UNCHANGED <<stock, adjustments>>
<1> DEFINE k == client[c].doc
           n == client[c].data.line
           q == client[c].data.counted
           old == counts[k]
           line == [old.lines[n] EXCEPT !.counted = {q}]
           lines == [old.lines EXCEPT ![n] = line]
           new == EnteredForm(k, n, q)
<1>1. /\ client[c].op = "updateCount" /\ client' = [client EXCEPT ![c] = Idle]
      /\ counts' = [counts EXCEPT ![k] = new] /\ UNCHANGED <<stock, adjustments>>
  BY DEF SaveUpdateCount, Saving, EnteredForm
<1>2. CountsInv /\ CallInv(c)
  BY InParts
<1>3. k \in DOMAIN counts /\ n \in DOMAIN old.lines /\ q \in Nat
  BY <1>1, <1>2, CorrectionsAssumption DEF CallInv
<1>4. /\ old \in StockCount /\ old.lines \in Seq(CountLine) /\ old.lines[n] \in CountLine
      /\ \A m \in DOMAIN old.lines : old.lines[m] \in CountLine /\ Snapshot(old.lines[m])
  BY <1>2, <1>3, CountFields
<1>5. new = [old EXCEPT !.lines = lines]
  BY DEF EnteredForm
<1>. HIDE DEF k, n, q, new, old
<1>6. /\ line \in CountLine /\ line.counted = {q} /\ line.row = old.lines[n].row
      /\ line.system = old.lines[n].system /\ line.asOf = old.lines[n].asOf
      /\ line.variance = old.lines[n].variance
  <2>1. {q} \in SUBSET Nat
    BY <1>3
  <2>. QED
    BY <1>4, <2>1 DEF CountLine
<1>7. Snapshot(line)
  <2>1. Snapshot(old.lines[n])
    BY <1>3, <1>4
  <2>. HIDE DEF line
  <2>. QED
    BY <1>6, <2>1 DEF Snapshot, AtMostOne
<1>. HIDE DEF line
<1>8. /\ lines \in Seq(CountLine) /\ DOMAIN lines = DOMAIN old.lines /\ lines[n] = line
      /\ \A m \in DOMAIN old.lines : m # n => lines[m] = old.lines[m]
  BY <1>3, <1>4, <1>6, ReplacedIn
<1>. HIDE DEF lines
<1>9. /\ new \in StockCount /\ new.lines = lines /\ new.status = old.status
      /\ new.reversalOf = old.reversalOf
  BY <1>4, <1>5, <1>8 DEF StockCount
<1>10. ASSUME NEW m \in DOMAIN old.lines
       PROVE  /\ Snapshot(lines[m]) /\ lines[m].row = old.lines[m].row
              /\ lines[m].variance = old.lines[m].variance
              /\ old.lines[m].counted # Null => lines[m].counted # Null
  BY <1>4, <1>6, <1>7, <1>8 DEF Null
<1>11. old.reversalOf \in 0..(k - 1)
  BY <1>2, <1>3 DEF CountsInv, old
<1>12. Kept(k, new)
  BY <1>8, <1>9, <1>10, <1>11 DEF Kept, SoundCount, old
<1>. QED
  BY <1>1, <1>3, <1>8, <1>9, <1>10, <1>12 DEF k, n, q, new, old

LEMMA CountEntered ==
  ASSUME IInv, NEW c \in Clients, SaveUpdateCount(c)
  PROVE  IInv'
<1>1. PICK k, new : /\ k \in DOMAIN counts
                    /\ Kept(k, new) /\ client' = [client EXCEPT ![c] = Idle]
                    /\ counts' = [counts EXCEPT ![k] = new]
                    /\ UNCHANGED <<stock, adjustments>>
  BY EnteredFacts
<1>. QED
  BY <1>1, CountSaved

(* The differences of a count, of which a line has at most one.            *)
LEMMA Differences ==
  ASSUME NEW lines \in Seq(CountLine), \A n \in DOMAIN lines : Snapshot(lines[n])
  PROVE  /\ DOMAIN Variance(lines) = DOMAIN lines
         /\ \A n \in DOMAIN lines :
               /\ Variance(lines)[n] \subseteq Int /\ AtMostOne(Variance(lines)[n])
               /\ Variance(lines)[n] = {q - lines[n].system : q \in lines[n].counted}
<1>1. ASSUME NEW n \in DOMAIN lines
      PROVE  LET some == {q - lines[n].system : q \in lines[n].counted} IN
             some \subseteq Int /\ AtMostOne(some)
  <2>1. lines[n] \in CountLine /\ AtMostOne(lines[n].counted)
    BY SequenceDomain DEF Snapshot
  <2>2. lines[n].counted \subseteq Int /\ lines[n].system \in Int
    BY <2>1 DEF CountLine
  <2>. QED
    BY <2>1, <2>2 DEF AtMostOne
<1>. QED
  BY <1>1 DEF Variance

LEMMA SubmitCountRead ==
  ASSUME IInv, NEW c \in Clients, NEW k \in DOMAIN counts, ReadSubmitCount(c, k)
  PROVE  IInv'
<1> DEFINE lines == counts[k].lines
           data == Variance(lines)
<1>1. /\ Read(c, "submitCount", k, data) /\ UNCHANGED <<stock, adjustments, counts>>
      /\ \A n \in DOMAIN lines : lines[n].counted # Null
  BY DEF ReadSubmitCount
<1>2. lines \in Seq(CountLine) /\ \A n \in DOMAIN lines : Snapshot(lines[n])
  BY InParts, CountFields
<1>3. /\ DOMAIN data = DOMAIN lines
      /\ \A n \in DOMAIN lines : data[n] \subseteq Int /\ AtMostOne(data[n])
  <2>. HIDE DEF lines
  <2>. QED
    BY <1>2, Differences
<1>. HIDE DEF data
<1>4. ASSUME client'[c] = [op |-> "submitCount", doc |-> k, data |-> data]
      PROVE  CallInv(c)'
  BY <1>1, <1>3, <1>4 DEF CallInv
<1>. QED
  BY <1>1, <1>4, OnlyRead

SubmittedForm(k, data) ==
  [counts[k] EXCEPT !.status = "submitted",
                    !.lines = [n \in DOMAIN counts[k].lines |->
                                 [counts[k].lines[n] EXCEPT !.variance = data[n]]]]

LEMMA SubmittedFacts ==
  ASSUME IInv, NEW c \in Clients, SaveSubmitCount(c)
  PROVE  LET k == client[c].doc
             data == client[c].data
             new == SubmittedForm(k, data)
         IN  /\ k \in DOMAIN counts /\ Kept(k, new)
             /\ new.status = "submitted" /\ new.reversalOf = counts[k].reversalOf
             /\ \A m \in DOMAIN counts[k].lines :
                   /\ new.lines[m].counted = counts[k].lines[m].counted
                   /\ new.lines[m].system = counts[k].lines[m].system
                   /\ new.lines[m].variance = data[m]
                   /\ counts[k].lines[m].counted # Null
             /\ client[c].op = "submitCount" /\ client' = [client EXCEPT ![c] = Idle]
             /\ counts' = [counts EXCEPT ![k] = new] /\ UNCHANGED <<stock, adjustments>>
<1> DEFINE k == client[c].doc
           data == client[c].data
           old == counts[k]
           lines == [n \in DOMAIN old.lines |-> [old.lines[n] EXCEPT !.variance = data[n]]]
           new == SubmittedForm(k, data)
<1>1. /\ client[c].op = "submitCount" /\ client' = [client EXCEPT ![c] = Idle]
      /\ counts' = [counts EXCEPT ![k] = new] /\ UNCHANGED <<stock, adjustments>>
  BY DEF SaveSubmitCount, Saving, SubmittedForm
<1>2. CountsInv /\ CallInv(c)
  BY InParts
<1>3. /\ k \in DOMAIN counts
      /\ \A n \in DOMAIN old.lines : /\ old.lines[n].counted # Null
                                     /\ data[n] \subseteq Int /\ AtMostOne(data[n])
  BY <1>1, <1>2 DEF CallInv
<1>4. /\ old \in StockCount /\ old.lines \in Seq(CountLine)
      /\ \A m \in DOMAIN old.lines : old.lines[m] \in CountLine /\ Snapshot(old.lines[m])
  BY <1>2, <1>3, CountFields
<1>5. new = [old EXCEPT !.status = "submitted", !.lines = lines]
  BY DEF SubmittedForm
<1>. HIDE DEF k, data, new, old
<1>6. ASSUME NEW n \in DOMAIN old.lines
      PROVE  /\ lines[n] \in CountLine /\ Snapshot(lines[n]) /\ lines[n].variance = data[n]
             /\ lines[n].counted = old.lines[n].counted /\ lines[n].system = old.lines[n].system
  <2>1. old.lines[n] \in CountLine /\ Snapshot(old.lines[n])
    BY <1>4
  <2>2. data[n] \in SUBSET Int /\ AtMostOne(data[n])
    BY <1>3
  <2>3. PICK line : line = [old.lines[n] EXCEPT !.variance = data[n]]
    OBVIOUS
  <2>4. /\ line \in CountLine /\ line.variance = data[n] /\ line.row = old.lines[n].row
        /\ line.system = old.lines[n].system /\ line.asOf = old.lines[n].asOf
        /\ line.counted = old.lines[n].counted
    BY <2>1, <2>2, <2>3 DEF CountLine
  <2>5. Snapshot(line)
    BY <2>1, <2>2, <2>4 DEF Snapshot
  <2>. QED
    BY <2>3, <2>4, <2>5
<1>7. DOMAIN lines = DOMAIN old.lines /\ lines = [n \in DOMAIN lines |-> lines[n]]
  OBVIOUS
<1>. HIDE DEF lines
<1>8. lines \in Seq(CountLine)
  BY <1>4, <1>6, <1>7, ListOf
<1>9. /\ new \in StockCount /\ new.lines = lines /\ new.status = "submitted"
      /\ new.reversalOf = old.reversalOf
  BY <1>4, <1>5, <1>8 DEF StockCount, Status
<1>10. old.reversalOf \in 0..(k - 1)
  BY <1>2, <1>3 DEF CountsInv, old
<1>11. Kept(k, new)
  BY <1>6, <1>7, <1>9, <1>10 DEF Kept, SoundCount, old
<1>. QED
  BY <1>1, <1>3, <1>6, <1>7, <1>9, <1>11 DEF k, data, new, old

LEMMA CountSubmitted ==
  ASSUME IInv, NEW c \in Clients, SaveSubmitCount(c)
  PROVE  IInv'
<1>1. PICK k, new : /\ k \in DOMAIN counts
                    /\ Kept(k, new) /\ client' = [client EXCEPT ![c] = Idle]
                    /\ counts' = [counts EXCEPT ![k] = new]
                    /\ UNCHANGED <<stock, adjustments>>
  BY SubmittedFacts
<1>. QED
  BY <1>1, CountSaved

LEMMA CountStatusRead ==
  ASSUME IInv, NEW c \in Clients, NEW k \in DOMAIN counts, NEW to, ReadCountStatus(c, k, to)
  PROVE  IInv'
<1>1. /\ Read(c, "countStatus", k, to) /\ UNCHANGED <<stock, adjustments, counts>>
      /\ to \in {"approved", "rejected"}
  BY DEF ReadCountStatus
<1>2. ASSUME client'[c] = [op |-> "countStatus", doc |-> k, data |-> to]
      PROVE  CallInv(c)'
  BY <1>1, <1>2 DEF CallInv
<1>. QED
  BY <1>1, <1>2, OnlyRead

(* Another status for a count whose lines stay. *)
LEMMA CountMovesOn ==
  ASSUME CountsInv, NEW k \in DOMAIN counts, NEW to \in Status
  PROVE  LET new == [counts[k] EXCEPT !.status = to] IN
         /\ Kept(k, new) /\ new.status = to /\ new.lines = counts[k].lines
         /\ new.reversalOf = counts[k].reversalOf
<1>1. SoundCount(k, counts[k]) /\ counts[k] \in StockCount
  BY CountsAreSound DEF SoundCount
<1>2. PICK new : new = [counts[k] EXCEPT !.status = to]
  OBVIOUS
<1>3. /\ new \in StockCount /\ new.status = to /\ new.lines = counts[k].lines
      /\ new.reversalOf = counts[k].reversalOf
  BY <1>1, <1>2 DEF StockCount
<1>4. Kept(k, new)
  BY <1>1, <1>3 DEF SoundCount, Kept
<1>. QED
  BY <1>2, <1>3, <1>4

LEMMA CountStatusFacts ==
  ASSUME IInv, NEW c \in Clients, SaveCountStatus(c)
  PROVE  LET k   == client[c].doc
             to  == client[c].data
             new == [counts[k] EXCEPT !.status = to]
         IN  /\ k \in DOMAIN counts /\ to \in {"approved", "rejected"}
             /\ Kept(k, new) /\ counts' = [counts EXCEPT ![k] = new]
             /\ new.status = to /\ new.lines = counts[k].lines
             /\ new.reversalOf = counts[k].reversalOf
             /\ client[c].op = "countStatus" /\ client' = [client EXCEPT ![c] = Idle]
             /\ UNCHANGED <<stock, adjustments>>
<1> DEFINE k == client[c].doc
           to == client[c].data
<1>1. /\ client[c].op = "countStatus" /\ client' = [client EXCEPT ![c] = Idle]
      /\ counts' = [counts EXCEPT ![k] = [counts[k] EXCEPT !.status = to]]
      /\ UNCHANGED <<stock, adjustments>>
  BY DEF SaveCountStatus, Saving
<1>2. CountsInv /\ CallInv(c)
  BY InParts
<1>3. k \in DOMAIN counts /\ to \in {"approved", "rejected"}
  BY <1>1, <1>2 DEF CallInv
<1>4. to \in Status
  BY <1>3 DEF Status
<1>. HIDE DEF k, to
<1>5. LET new == [counts[k] EXCEPT !.status = to] IN
      /\ Kept(k, new) /\ new.status = to /\ new.lines = counts[k].lines
      /\ new.reversalOf = counts[k].reversalOf
  BY <1>2, <1>3, <1>4, CountMovesOn
<1>. QED
  BY <1>1, <1>3, <1>5 DEF k, to

LEMMA CountStatusSaved ==
  ASSUME IInv, NEW c \in Clients, SaveCountStatus(c)
  PROVE  IInv'
<1>1. PICK k, new : /\ k \in DOMAIN counts
                    /\ Kept(k, new) /\ client' = [client EXCEPT ![c] = Idle]
                    /\ counts' = [counts EXCEPT ![k] = new]
                    /\ UNCHANGED <<stock, adjustments>>
  BY CountStatusFacts
<1>. QED
  BY <1>1, CountSaved

LEMMA CountPostFacts ==
  ASSUME IInv, NEW c \in Clients, NEW k \in DOMAIN counts, PostCount(c, k)
  PROVE  LET lines == counts[k].lines
             new   == [counts[k] EXCEPT !.status = "posted"]
         IN  /\ counts[k].status = "approved"
             /\ lines \in Seq(CountLine) /\ Moving(Movements(lines))
             /\ Kept(k, new) /\ new.status = "posted" /\ new.lines = lines
             /\ new.reversalOf = counts[k].reversalOf
             /\ counts' = [counts EXCEPT ![k] = new]
             /\ UNCHANGED <<adjustments, client>>
<1> DEFINE lines == counts[k].lines
           new   == [counts[k] EXCEPT !.status = "posted"]
<1>1. /\ May(counts[k].status, "posted") /\ PostMovements(Movements(lines))
      /\ counts' = [counts EXCEPT ![k] = new] /\ UNCHANGED <<adjustments, client>>
  BY DEF PostCount, InOneTransaction
<1>2. Balances /\ CountsInv
  BY InParts
<1>3. counts[k].status = "approved"
  BY <1>1 DEF May
<1>4. lines \in Seq(CountLine)
  BY <1>2, CountFields
<1>5. Moving(Movements(lines))
  <2>1. /\ Movements(lines) \in Seq([row : Rows, delta : Int]) /\ Moves(Movements(lines))
    BY <1>4, CountMoves
  <2>. HIDE DEF lines
  <2>. QED
    BY <1>1, <1>2, <2>1, PostingMoves
<1>6. /\ Kept(k, new) /\ new.status = "posted" /\ new.lines = lines
      /\ new.reversalOf = counts[k].reversalOf
  <2>1. "posted" \in Status
    BY DEF Status
  <2>. QED
    BY <1>2, <2>1, CountMovesOn
<1>. QED
  BY <1>1, <1>3, <1>4, <1>5, <1>6

LEMMA CountPosted ==
  ASSUME IInv, NEW c \in Clients, NEW k \in DOMAIN counts, PostCount(c, k)
  PROVE  IInv'
<1>1. AdjustmentsInv /\ CountsInv
  BY InParts
<1>2. PICK new : /\ Forward /\ Kept(k, new) /\ UNCHANGED <<adjustments, client>>
                 /\ counts' = [counts EXCEPT ![k] = new]
  BY CountPostFacts DEF Moving
<1>3. AdjustmentsInv' /\ CountsInv' /\ Onward
  BY <1>1, <1>2, AdjustmentsStay, KeptOnward
<1>. QED
  BY <1>2, <1>3, TogetherStill

(* The lines of a reversed count.                                          *)
OppositeCount(lines) ==
  [n \in DOMAIN lines |-> [lines[n] EXCEPT !.variance = {-Movements(lines)[n].delta}]]

LEMMA OppositeCountLines ==
  ASSUME NEW lines \in Seq(CountLine), \A n \in DOMAIN lines : Snapshot(lines[n])
  PROVE  LET back == OppositeCount(lines) IN
         /\ back \in Seq(CountLine) /\ DOMAIN back = DOMAIN lines
         /\ \A n \in DOMAIN back : Snapshot(back[n])
         /\ \A b : Net(Movements(back), b) = -Net(Movements(lines), b)
<1> DEFINE back == OppositeCount(lines)
           moves == Movements(lines)
<1>1. DOMAIN back = DOMAIN lines /\ back = [n \in DOMAIN back |-> back[n]]
  BY DEF OppositeCount
<1>2. Moves(moves) /\ DOMAIN moves = DOMAIN lines
      /\ \A n \in DOMAIN lines : moves[n].row = lines[n].row
  BY CountMoves
<1>. HIDE DEF moves
<1>3. ASSUME NEW n \in DOMAIN lines
      PROVE  /\ back[n] \in CountLine /\ back[n].variance = {-moves[n].delta}
             /\ back[n].row = lines[n].row /\ Snapshot(back[n])
  <2>1. lines[n] \in CountLine /\ Snapshot(lines[n])
    BY SequenceDomain
  <2>2. -moves[n].delta \in Int
    BY <1>2 DEF Moves
  <2>3. {-moves[n].delta} \in SUBSET Int
    BY <2>2
  <2>4. PICK line : line = [lines[n] EXCEPT !.variance = {-moves[n].delta}]
    OBVIOUS
  <2>5. /\ line \in CountLine /\ line.variance = {-moves[n].delta} /\ line.row = lines[n].row
        /\ line.asOf = lines[n].asOf /\ line.system = lines[n].system
        /\ line.counted = lines[n].counted
    BY <2>1, <2>3, <2>4 DEF CountLine
  <2>6. Snapshot(line)
    BY <2>1, <2>5 DEF Snapshot, AtMostOne
  <2>7. back[n] = line
    BY <2>4 DEF OppositeCount, moves
  <2>. HIDE DEF back
  <2>. QED
    BY <2>5, <2>6, <2>7
<1>. HIDE DEF back
<1>4. back \in Seq(CountLine)
  BY <1>1, <1>3, ListOf
<1>5. /\ Moves(Movements(back)) /\ DOMAIN Movements(back) = DOMAIN back
      /\ \A n \in DOMAIN back : /\ Movements(back)[n].row = back[n].row
                                /\ \A v : back[n].variance = {v} => Movements(back)[n].delta = v
  BY <1>4, CountMoves
<1>6. ASSUME NEW n \in DOMAIN moves
      PROVE  /\ Movements(back)[n].row = moves[n].row
             /\ Movements(back)[n].delta = -moves[n].delta
  <2>1. n \in DOMAIN back /\ n \in DOMAIN lines
    BY <1>1, <1>2
  <2>2. back[n].variance = {-moves[n].delta} /\ back[n].row = moves[n].row
    BY <1>2, <1>3, <2>1
  <2>. QED
    BY <1>5, <2>1, <2>2
<1>7. \A b : Net(Movements(back), b) = -Net(moves, b)
  <2>1. DOMAIN Movements(back) = DOMAIN moves
    BY <1>1, <1>2, <1>5
  <2>. QED
    BY <1>2, <1>5, <1>6, <2>1, OppositeNet
<1>. QED
  BY <1>1, <1>3, <1>4, <1>7 DEF back, moves

CountReversal(k) ==
  [status |-> "posted", lines |-> OppositeCount(counts[k].lines), reversalOf |-> k]

LEMMA CountReverseFacts ==
  ASSUME IInv, NEW c \in Clients, NEW k \in DOMAIN counts, ReverseCount(c, k)
  PROVE  /\ OppositeCount(counts[k].lines) \in Seq(CountLine)
         /\ Moving(Movements(OppositeCount(counts[k].lines)))
         /\ SoundCount(Len(counts) + 1, CountReversal(k))
         /\ CountReversal(k).reversalOf # 0
         /\ counts' = Append(counts, CountReversal(k)) /\ UNCHANGED <<adjustments, client>>
<1> DEFINE lines == OppositeCount(counts[k].lines)
           new   == CountReversal(k)
<1>1. /\ PostMovements(Movements(lines)) /\ counts' = Append(counts, new)
      /\ UNCHANGED <<adjustments, client>>
  BY DEF ReverseCount, InOneTransaction, CountReversal, OppositeCount
<1>2. Balances /\ CountsInv
  BY InParts
<1>3. /\ counts[k].lines \in Seq(CountLine) /\ k \in 1..Len(counts) /\ Len(counts) \in Nat
      /\ \A n \in DOMAIN counts[k].lines : Snapshot(counts[k].lines[n])
  BY <1>2, CountFields
<1>4. lines \in Seq(CountLine) /\ \A n \in DOMAIN lines : Snapshot(lines[n])
  BY <1>3, OppositeCountLines
<1>. HIDE DEF lines
<1>5. Moving(Movements(lines))
  <2>1. /\ Movements(lines) \in Seq([row : Rows, delta : Int]) /\ Moves(Movements(lines))
    BY <1>4, CountMoves
  <2>. QED
    BY <1>1, <1>2, <2>1, PostingMoves
<1>6. new = [status |-> "posted", lines |-> lines, reversalOf |-> k]
  BY DEF CountReversal, lines
<1>. HIDE DEF new
<1>7. SoundCount(Len(counts) + 1, new) /\ new.reversalOf # 0
  <2>1. /\ new \in StockCount /\ new.lines = lines /\ new.reversalOf = k
    BY <1>3, <1>4, <1>6 DEF StockCount, Status
  <2>2. k \in 0..((Len(counts) + 1) - 1) /\ k # 0
    BY <1>3
  <2>. QED
    BY <1>4, <2>1, <2>2 DEF SoundCount
<1>. QED
  BY <1>1, <1>4, <1>5, <1>7 DEF lines, new

LEMMA CountReversed ==
  ASSUME IInv, NEW c \in Clients, NEW k \in DOMAIN counts, ReverseCount(c, k)
  PROVE  IInv'
<1>1. AdjustmentsInv /\ CountsInv
  BY InParts
<1>2. /\ Forward /\ SoundCount(Len(counts) + 1, CountReversal(k))
      /\ counts' = Append(counts, CountReversal(k)) /\ UNCHANGED <<adjustments, client>>
  BY CountReverseFacts DEF Moving
<1>3. /\ CountsInv' /\ DOMAIN counts \subseteq DOMAIN counts'
      /\ \A d \in DOMAIN counts : counts'[d] = counts[d]
  BY <1>1, <1>2, CountAdded
<1>4. AdjustmentsInv' /\ Onward
  BY <1>1, <1>2, <1>3, AdjustmentsStay DEF Onward
<1>. QED
  BY <1>2, <1>3, <1>4, TogetherStill

LEMMA OtherMoves ==
  ASSUME Balances, NEW b \in Rows, NEW delta \in Deltas, OtherPosting(b, delta)
  PROVE  /\ Forward /\ UNCHANGED <<adjustments, counts, client>>
         /\ \A r \in Rows : onHand'[r] - other'[r] = onHand[r] - other[r]
<1>1. /\ onHand[b] + delta >= 0 /\ onHand' = [onHand EXCEPT ![b] = onHand[b] + delta]
      /\ version' = [version EXCEPT ![b] = version[b] + 1]
      /\ other' = [other EXCEPT ![b] = other[b] + delta]
      /\ UNCHANGED <<adjustments, counts, client>>
  BY DEF OtherPosting
<1>2. delta \in Int
  BY CorrectionsAssumption
<1>3. /\ onHand \in [Rows -> Nat] /\ version \in [Rows -> Nat] /\ other \in [Rows -> Int]
  BY DEF Balances
<1>4. onHand[b] + delta \in Nat /\ version[b] + 1 \in Nat /\ other[b] + delta \in Int
  BY <1>1, <1>2, <1>3
<1>5. Balances'
  BY <1>1, <1>3, <1>4 DEF Balances
<1>6. ASSUME NEW r \in Rows
      PROVE  /\ version'[r] >= version[r] /\ version'[r] = version[r] => onHand'[r] = onHand[r]
             /\ onHand'[r] - other'[r] = onHand[r] - other[r]
  <2>1. CASE r = b
    BY <1>1, <1>2, <1>3, <2>1
  <2>2. CASE r # b
    BY <1>1, <1>3, <2>2
  <2>. QED
    BY <2>1, <2>2
<1>. QED
  BY <1>1, <1>5, <1>6 DEF Forward, Balances

LEMMA OtherPosted ==
  ASSUME IInv, NEW b \in Rows, NEW delta \in Deltas, OtherPosting(b, delta)
  PROVE  IInv'
<1>1. Balances /\ AdjustmentsInv /\ CountsInv
  BY InParts
<1>2. Forward /\ UNCHANGED <<adjustments, counts, client>>
  BY <1>1, OtherMoves
<1>3. AdjustmentsInv' /\ CountsInv' /\ Onward
  BY <1>1, <1>2, AdjustmentsStay, CountsStay, OnwardStill
<1>. QED
  BY <1>2, <1>3, TogetherStill

-----------------------------------------------------------------------------
(* The invariant *)

LEMMA Initially == Init => IInv
<1> SUFFICES ASSUME Init PROVE IInv
  OBVIOUS
<1>1. Balances
  BY CorrectionsAssumption DEF Init, Balances
<1>2. AdjustmentsInv /\ CountsInv
  BY DEF Init, AdjustmentsInv, CountsInv
<1>3. DOMAIN client = Clients /\ \A c \in Clients : CallInv(c)
  BY DEF Init, CallInv, Idle
<1>. QED
  BY <1>1, <1>2, <1>3 DEF IInv

LEMMA Steps == IInv /\ [Next]_vars => IInv'
<1> SUFFICES ASSUME IInv, [Next]_vars PROVE IInv'
  OBVIOUS
<1>1. ASSUME NEW c \in Clients, AdjustmentStep(c)
      PROVE  IInv'
  BY <1>1, AdjustmentCreated, UpdateAdjustmentRead, AdjustmentStatusRead, AdjustmentPosted,
     AdjustmentReversed, AdjustmentUpdated, AdjustmentStatusSaved DEF AdjustmentStep
<1>2. ASSUME NEW c \in Clients, CountStep(c)
      PROVE  IInv'
  BY <1>2, CountBegun, RowSnapshot, CountCreated, UpdateCountRead, SubmitCountRead,
     CountStatusRead, CountPosted, CountReversed, CountEntered, CountSubmitted,
     CountStatusSaved DEF CountStep
<1>3. ASSUME NEW b \in Rows, NEW delta \in Deltas, OtherPosting(b, delta)
      PROVE  IInv'
  BY <1>3, OtherPosted
<1>4. CASE UNCHANGED vars
  <2>1. UNCHANGED <<stock, adjustments, counts, client>>
    BY <1>4 DEF vars, stock
  <2>2. Balances /\ AdjustmentsInv /\ CountsInv
    BY InParts
  <2>3. Forward /\ AdjustmentsInv' /\ CountsInv' /\ Onward
    BY <2>1, <2>2, StillForward, AdjustmentsStay, CountsStay, OnwardStill
  <2>. QED
    BY <2>1, <2>3, TogetherStill
<1>. QED
  BY <1>1, <1>2, <1>3, <1>4 DEF Next

LEMMA Invariant == Spec => []IInv
<1>. QED
  BY Initially, Steps, PTL DEF Spec

LEMMA AtMostOneCounted ==
  ASSUME NEW S, AtMostOne(S)
  PROVE  Cardinality(S) <= 1
<1>1. CASE S = {}
  BY <1>1, FS_EmptySet
<1>2. ASSUME NEW x \in S, S = {x}
      PROVE  Cardinality(S) <= 1
  <2>1. Cardinality({x}) = 1
    BY FS_Singleton
  <2>. QED
    BY <1>2, <2>1
<1>. QED
  BY <1>1, <1>2, NoneOrOne

(* Documents keep the fields of their schemas, and no balance goes below   *)
(* zero, however the calls and the other postings overlap.                 *)
THEOREM TypeCorrect == Spec => []TypeOK
<1>1. IInv => TypeOK
  <2> SUFFICES ASSUME IInv PROVE TypeOK
    OBVIOUS
  <2>1. Balances /\ AdjustmentsInv /\ CountsInv
    BY InParts
  <2>2. ASSUME NEW a \in DOMAIN adjustments
        PROVE  /\ adjustments[a].status \in Status /\ adjustments[a].material \in BOOLEAN
               /\ adjustments[a].ver \in Nat /\ adjustments[a].reversalOf \in 0..(a - 1)
               /\ \A n \in DOMAIN adjustments[a].lines :
                     LET line == adjustments[a].lines[n] IN
                     /\ line.row \in Rows /\ line.delta \in Int
                     /\ line.prior \subseteq Nat /\ line.resulting \subseteq Int
                     /\ Cardinality(line.prior) <= 1 /\ Cardinality(line.resulting) <= 1
    <3>1. /\ adjustments[a] \in Adjustment
          /\ \A n \in DOMAIN adjustments[a].lines : adjustments[a].lines[n] \in AdjustmentLine
      BY <2>1, AdjustmentFields
    <3>2. /\ adjustments[a].reversalOf \in 0..(a - 1)
          /\ \A n \in DOMAIN adjustments[a].lines :
                /\ AtMostOne(adjustments[a].lines[n].prior)
                /\ AtMostOne(adjustments[a].lines[n].resulting)
      BY <2>1 DEF AdjustmentsInv
    <3>3. \A n \in DOMAIN adjustments[a].lines :
             LET line == adjustments[a].lines[n] IN
             /\ line.row \in Rows /\ line.delta \in Int
             /\ line.prior \subseteq Nat /\ line.resulting \subseteq Int
      BY <3>1 DEF AdjustmentLine
    <3>4. \A n \in DOMAIN adjustments[a].lines :
             /\ Cardinality(adjustments[a].lines[n].prior) <= 1
             /\ Cardinality(adjustments[a].lines[n].resulting) <= 1
      BY <3>2, AtMostOneCounted
    <3>5. /\ adjustments[a].status \in Status /\ adjustments[a].material \in BOOLEAN
          /\ adjustments[a].ver \in Nat
      BY <3>1 DEF Adjustment
    <3>. QED
      BY <3>2, <3>3, <3>4, <3>5
  <2>3. ASSUME NEW k \in DOMAIN counts
        PROVE  /\ counts[k].status \in Status /\ counts[k].reversalOf \in 0..(k - 1)
               /\ \A n \in DOMAIN counts[k].lines :
                     LET line == counts[k].lines[n] IN
                     /\ line.row \in Rows /\ line.system \in Nat /\ line.asOf \in Nat
                     /\ line.counted \subseteq Nat /\ line.variance \subseteq Int
                     /\ Cardinality(line.counted) <= 1 /\ Cardinality(line.variance) <= 1
    <3>1. /\ counts[k] \in StockCount
          /\ \A n \in DOMAIN counts[k].lines : /\ counts[k].lines[n] \in CountLine
                                               /\ Snapshot(counts[k].lines[n])
      BY <2>1, CountFields
    <3>2. \A n \in DOMAIN counts[k].lines :
             LET line == counts[k].lines[n] IN
             /\ line.row \in Rows /\ line.system \in Nat /\ line.asOf \in Nat
             /\ line.counted \subseteq Nat /\ line.variance \subseteq Int
      BY <3>1 DEF CountLine
    <3>3. \A n \in DOMAIN counts[k].lines :
             /\ Cardinality(counts[k].lines[n].counted) <= 1
             /\ Cardinality(counts[k].lines[n].variance) <= 1
      BY <3>1, AtMostOneCounted DEF Snapshot
    <3>4. counts[k].status \in Status /\ counts[k].reversalOf \in 0..(k - 1)
      BY <2>1, <3>1 DEF StockCount, CountsInv
    <3>. QED
      BY <3>2, <3>3, <3>4
  <2>. QED
    BY <2>1, <2>2, <2>3 DEF TypeOK, Balances
<1>. QED
  BY <1>1, Invariant, PTL

(* The absolute value, as the code computes it.                            *)
LEMMA Absolute ==
  ASSUME NEW d \in Int
  PROVE  Max({d, -d}) = IF d > 0 THEN d ELSE -d
<1> DEFINE m == IF d > 0 THEN d ELSE -d
           is(x) == x \in {d, -d} /\ \A y \in {d, -d} : x >= y
<1>1. is(m) /\ \A x : is(x) => x = m
  OBVIOUS
<1>2. Max({d, -d}) = CHOOSE x \in {d, -d} : \A y \in {d, -d} : x >= y
  BY DEF Max
<1>. QED
  BY <1>1, <1>2

(* What is added less what is taken away is what moves at all.             *)
LEMMA MaterialSum ==
  ASSUME NEW lines \in Seq(AdjustmentLine)
  PROVE  LET sum(S) == SumFunction([n \in S |-> lines[n].delta])
             up     == {n \in DOMAIN lines : lines[n].delta > 0}
         IN  Material(lines) <=> sum(up) - sum(DOMAIN lines \ up) >= Threshold
<1> DEFINE S     == DOMAIN lines
           up    == {n \in DOMAIN lines : lines[n].delta > 0}
           down  == S \ up
           f     == [n \in S |-> Max({lines[n].delta, -lines[n].delta})]
           plus  == [n \in S |-> IF n \in up THEN lines[n].delta ELSE 0]
           minus == [n \in S |-> IF n \in up THEN 0 ELSE -lines[n].delta]
           taken == [n \in S |-> IF n \in up THEN 0 ELSE lines[n].delta]
           none  == [n \in S |-> 0]
           fu    == [n \in up |-> lines[n].delta]
           fd    == [n \in down |-> lines[n].delta]
<1>1. IsFiniteSet(S) /\ up \in SUBSET S /\ down \in SUBSET S
  BY SequenceDomain
<1>2. \A n \in S : lines[n].delta \in Int
  <2>1. \A n \in S : lines[n] \in AdjustmentLine
    BY SequenceDomain
  <2>. QED
    BY <2>1 DEF AdjustmentLine
<1>3. \A n \in S : f[n] = plus[n] + minus[n] /\ plus[n] \in Int /\ minus[n] \in Int
  BY <1>2, Absolute
<1>4. \A n \in S : none[n] = minus[n] + taken[n] /\ minus[n] \in Int /\ taken[n] \in Int
                   /\ none[n] = 0
  BY <1>2
<1>5. /\ \A n \in S \ up : plus[n] = 0
      /\ \A n \in S \ down : taken[n] = 0
      /\ \A n \in up : plus[n] \in Int /\ fu[n] = plus[n]
      /\ \A n \in down : taken[n] \in Int /\ fd[n] = taken[n]
  BY <1>2
<1>6. DOMAIN f = S /\ DOMAIN fu = up /\ DOMAIN fd = down
  OBVIOUS
<1>7. IsFiniteSet(up) /\ IsFiniteSet(down)
  BY <1>1, FS_Subset
<1>8. Material(lines) <=> SumFunction(f) >= Threshold
  BY DEF Material
<1>. HIDE DEF S, up, down, f, plus, minus, taken, none, fu, fd
<1>9. SumFunctionOnSet(f, S) = SumFunctionOnSet(plus, S) + SumFunctionOnSet(minus, S)
  BY <1>1, <1>3, SumPlus
<1>10. SumFunctionOnSet(none, S) = SumFunctionOnSet(minus, S) + SumFunctionOnSet(taken, S)
  BY <1>1, <1>4, SumPlus
<1>11. SumFunctionOnSet(none, S) = 0
  BY <1>1, <1>4, SumZero
<1>12. SumFunctionOnSet(plus, S) = SumFunctionOnSet(plus, up)
  BY <1>1, <1>3, <1>5, SumOutside
<1>13. SumFunctionOnSet(taken, S) = SumFunctionOnSet(taken, down)
  BY <1>1, <1>4, <1>5, SumOutside
<1>14. SumFunctionOnSet(plus, up) = SumFunctionOnSet(fu, up)
  BY <1>5, <1>7, SumSame
<1>15. SumFunctionOnSet(taken, down) = SumFunctionOnSet(fd, down)
  BY <1>5, <1>7, SumSame
<1>16. /\ SumFunctionOnSet(plus, S) \in Int /\ SumFunctionOnSet(minus, S) \in Int
       /\ SumFunctionOnSet(taken, S) \in Int
  BY <1>1, <1>3, <1>4, SumType
<1>17. SumFunction(f) = SumFunction(fu) - SumFunction(fd)
  BY <1>6, <1>9, <1>10, <1>11, <1>12, <1>13, <1>14, <1>15, <1>16 DEF SumFunction
<1>. QED
  BY <1>8, <1>17 DEF fu, fd, up, down, S

(* The flag that asks for the elevated approval is the one of the lines    *)
(* that are there, however two edits, a submission or a posting overlap.   *)
THEOREM MaterialIsCurrent == Spec => []MaterialMatchesLines
<1>1. IInv => MaterialMatchesLines
  <2> SUFFICES ASSUME IInv, NEW a \in DOMAIN adjustments
               PROVE  LET lines  == adjustments[a].lines
                          sum(S) == SumFunction([n \in S |-> lines[n].delta])
                          up     == {n \in DOMAIN lines : lines[n].delta > 0}
                      IN  adjustments[a].material
                             <=> sum(up) - sum(DOMAIN lines \ up) >= Threshold
    BY DEF MaterialMatchesLines
  <2>1. AdjustmentsInv
    BY InParts
  <2>2. adjustments[a].lines \in Seq(AdjustmentLine)
    BY <2>1, AdjustmentFields
  <2>3. adjustments[a].material <=> Material(adjustments[a].lines)
    BY <2>1 DEF AdjustmentsInv
  <2>. QED
    BY <2>2, <2>3, MaterialSum
<1>. QED
  BY <1>1, Invariant, PTL

-----------------------------------------------------------------------------
(* What a step does to the posted documents *)

(* A document that a step makes posted has moved the stock by its lines    *)
(* and has recorded the quantities.                                        *)
NewlyPosted(a) ==
  /\ a \in DOMAIN adjustments' /\ adjustments'[a].status = "posted"
  /\ a \in DOMAIN adjustments => adjustments[a].status # "posted"

ByPosting(a) ==
  \E lines \in Seq(AdjustmentLine) : Moving(lines) /\ adjustments'[a].lines = Recorded(lines)

(* The two kinds of documents do not touch each other.                     *)
LEMMA CountsOnly ==
  ASSUME NEW c, CountStep(c)
  PROVE  UNCHANGED adjustments
<1>1. \A rows : BeginCount(c, rows) => UNCHANGED adjustments
  BY DEF BeginCount
<1>2. SnapshotRow(c) => UNCHANGED adjustments
  BY DEF SnapshotRow
<1>3. SaveCreateCount(c) => UNCHANGED adjustments
  BY DEF SaveCreateCount
<1>4. SaveUpdateCount(c) => UNCHANGED adjustments
  BY DEF SaveUpdateCount
<1>5. SaveSubmitCount(c) => UNCHANGED adjustments
  BY DEF SaveSubmitCount
<1>6. SaveCountStatus(c) => UNCHANGED adjustments
  BY DEF SaveCountStatus
<1>7. \A k, n, q : ReadUpdateCount(c, k, n, q) => UNCHANGED adjustments
  BY DEF ReadUpdateCount
<1>8. \A k : ReadSubmitCount(c, k) \/ PostCount(c, k) \/ ReverseCount(c, k)
                => UNCHANGED adjustments
  BY DEF ReadSubmitCount, PostCount, ReverseCount
<1>9. \A k, to : ReadCountStatus(c, k, to) => UNCHANGED adjustments
  BY DEF ReadCountStatus
<1>. QED
  BY <1>1, <1>2, <1>3, <1>4, <1>5, <1>6, <1>7, <1>8, <1>9 DEF CountStep

LEMMA AdjustmentsOnly ==
  ASSUME NEW c, AdjustmentStep(c)
  PROVE  UNCHANGED counts
<1>1. \A input : CreateAdjustment(c, input) => UNCHANGED counts
  BY DEF CreateAdjustment
<1>2. \A a, input : ReadUpdateAdjustment(c, a, input) => UNCHANGED counts
  BY DEF ReadUpdateAdjustment
<1>3. \A a, to : ReadAdjustmentStatus(c, a, to) => UNCHANGED counts
  BY DEF ReadAdjustmentStatus
<1>4. \A a : PostAdjustment(c, a) \/ ReverseAdjustment(c, a) => UNCHANGED counts
  BY DEF PostAdjustment, ReverseAdjustment
<1>5. SaveUpdateAdjustment(c) => UNCHANGED counts
  BY DEF SaveUpdateAdjustment
<1>6. SaveAdjustmentStatus(c) => UNCHANGED counts
  BY DEF SaveAdjustmentStatus
<1>. QED
  BY <1>1, <1>2, <1>3, <1>4, <1>5, <1>6 DEF AdjustmentStep

LEMMA NewlyPostedMoves ==
  ASSUME IInv, Next, NEW a, NewlyPosted(a)
  PROVE  ByPosting(a)
<1>1. AdjustmentsInv
  BY InParts
<1>2. adjustments' # adjustments
  BY DEF NewlyPosted
<1>3. ASSUME NEW d \in DOMAIN adjustments, NEW new, SoundAdjustment(d, new),
             adjustments' = [adjustments EXCEPT ![d] = new]
      PROVE  a = d /\ adjustments'[a] = new /\ new.status = "posted"
                   /\ adjustments[d].status # "posted"
  BY <1>1, <1>3, AdjustmentReplaced DEF NewlyPosted
<1>4. ASSUME NEW new, SoundAdjustment(Len(adjustments) + 1, new),
             adjustments' = Append(adjustments, new)
      PROVE  adjustments'[a] = new /\ new.status = "posted"
  BY <1>1, <1>4, AdjustmentAdded DEF NewlyPosted
<1>5. ASSUME NEW c \in Clients, NEW input \in Inputs, CreateAdjustment(c, input)
      PROVE  FALSE
  <2>1. AdjustmentsInv' /\ adjustments' = Append(adjustments, DraftForm(input))
    BY <1>5, AdjustmentCreated DEF IInv
  <2>2. DOMAIN adjustments' = DOMAIN adjustments \cup {Len(adjustments) + 1}
        /\ adjustments'[Len(adjustments) + 1] = DraftForm(input)
        /\ \A d \in DOMAIN adjustments : adjustments'[d] = adjustments[d]
    <3>1. adjustments \in Seq(Adjustment) /\ adjustments' \in Seq(Adjustment)
      BY <1>1, <2>1 DEF AdjustmentsInv
    <3>2. Len(adjustments') = Len(adjustments) + 1 /\ Len(adjustments) \in Nat
      BY <2>1, <3>1
    <3>. QED
      BY <2>1, <3>1, <3>2
  <2>. QED
    BY <2>2 DEF NewlyPosted, DraftForm
<1>6. ASSUME NEW c \in Clients, SaveUpdateAdjustment(c)
      PROVE  FALSE
  <2>1. PICK d, new : /\ d \in DOMAIN adjustments
                      /\ SoundAdjustment(d, new)
                      /\ adjustments' = [adjustments EXCEPT ![d] = new]
                      /\ new.status = adjustments[d].status
    BY <1>6, UpdateFacts
  <2>. QED
    BY <1>3, <2>1
<1>7. ASSUME NEW c \in Clients, SaveAdjustmentStatus(c)
      PROVE  FALSE
  <2> DEFINE d   == client[c].doc
             new == [adjustments[d] EXCEPT !.status = client[c].data]
  <2>1. /\ d \in DOMAIN adjustments /\ SoundAdjustment(d, new)
        /\ adjustments' = [adjustments EXCEPT ![d] = new]
        /\ new.status \in {"submitted", "approved", "rejected"}
    BY <1>7, StatusFacts
  <2>. HIDE DEF d, new
  <2>. QED
    BY <1>3, <2>1
<1>8. ASSUME NEW c \in Clients, NEW d \in DOMAIN adjustments, PostAdjustment(c, d)
      PROVE  ByPosting(a)
  <2>1. LET lines == adjustments[d].lines IN
        /\ lines \in Seq(AdjustmentLine) /\ Moving(lines) /\ SoundAdjustment(d, PostedForm(d))
        /\ PostedForm(d).lines = Recorded(lines)
        /\ adjustments' = [adjustments EXCEPT ![d] = PostedForm(d)]
    BY <1>8, AdjustmentPostFacts
  <2>2. adjustments'[a] = PostedForm(d)
    BY <1>3, <2>1
  <2>. QED
    BY <2>1, <2>2 DEF ByPosting
<1>9. ASSUME NEW c \in Clients, NEW d \in DOMAIN adjustments, ReverseAdjustment(c, d)
      PROVE  ByPosting(a)
  <2>1. LET lines == Opposite(adjustments[d].lines) IN
        /\ lines \in Seq(AdjustmentLine) /\ Moving(lines)
        /\ SoundAdjustment(Len(adjustments) + 1, ReversalForm(d))
        /\ ReversalForm(d).lines = Recorded(lines)
        /\ adjustments' = Append(adjustments, ReversalForm(d))
    BY <1>9, AdjustmentReverseFacts
  <2>2. adjustments'[a] = ReversalForm(d)
    BY <1>4, <2>1
  <2>. QED
    BY <2>1, <2>2 DEF ByPosting
<1>10. ASSUME NEW c \in Clients, AdjustmentStep(c)
       PROVE  ByPosting(a)
  <2>1. ASSUME NEW d, NEW input, ReadUpdateAdjustment(c, d, input)
        PROVE  FALSE
    BY <1>2, <2>1 DEF ReadUpdateAdjustment
  <2>2. ASSUME NEW d, NEW to, ReadAdjustmentStatus(c, d, to)
        PROVE  FALSE
    BY <1>2, <2>2 DEF ReadAdjustmentStatus
  <2>. QED
    BY <1>5, <1>6, <1>7, <1>8, <1>9, <1>10, <2>1, <2>2 DEF AdjustmentStep
<1>11. \A c \in Clients : CountStep(c) => UNCHANGED adjustments
  BY CountsOnly
<1>12. ASSUME NEW b, NEW delta, OtherPosting(b, delta)
       PROVE  UNCHANGED adjustments
  BY <1>12 DEF OtherPosting
<1>. QED
  BY <1>2, <1>10, <1>11, <1>12 DEF Next

(* A line that has its balance for itself says what posting made of it.    *)
LEMMA RecordedResult ==
  ASSUME Balances, NEW lines \in Seq(AdjustmentLine), Moving(lines), NEW n \in DOMAIN lines,
         Cardinality(OnRow(lines, lines[n].row)) = 1
  PROVE  /\ Recorded(lines)[n].prior = {onHand[lines[n].row]}
         /\ Recorded(lines)[n].resulting = {onHand'[lines[n].row]}
<1> DEFINE b == lines[n].row
<1>1. lines[n] \in AdjustmentLine /\ Moves(lines)
  BY SequenceDomain, LinesMove
<1>2. b \in Rows /\ lines[n].delta # 0
  BY <1>1 DEF AdjustmentLine
<1>3. n \in OnRow(lines, b)
  BY <1>2 DEF OnRow
<1>4. OnRow(lines, b) = {n}
  <2>1. IsFiniteSet(OnRow(lines, b))
    BY <1>1, MovesFinite
  <2>. HIDE DEF b
  <2>2. PICK x : OnRow(lines, b) = {x}
    BY <2>1, FS_Singleton DEF b
  <2>. QED
    BY <1>3, <2>2
<1>5. onHand'[b] = onHand[b] + lines[n].delta
  <2>1. Net(lines, b) = lines[n].delta
    BY <1>1, <1>4, SingleNet
  <2>. QED
    BY <1>2, <2>1 DEF Moving
<1>. QED
  BY <1>5, RecordedLines DEF Balances

(* Every adjustment and every reversal writes down, for a line that has    *)
(* its balance for itself, what was there before and what posting left,    *)
(* whatever happened since the document was read.                          *)
THEOREM ResultsAreRecorded == Spec => ResultIsRecorded
<1>1. ASSUME IInv, Next, NEW a \in DOMAIN adjustments',
             adjustments'[a].status = "posted",
             a \in DOMAIN adjustments => adjustments[a].status # "posted",
             NEW n \in DOMAIN adjustments'[a].lines,
             Cardinality(OnRow(adjustments'[a].lines, adjustments'[a].lines[n].row)) = 1
      PROVE  LET line == adjustments'[a].lines[n] IN
             line.prior = {onHand[line.row]} /\ line.resulting = {onHand'[line.row]}
  <2>1. PICK lines \in Seq(AdjustmentLine) :
           Moving(lines) /\ adjustments'[a].lines = Recorded(lines)
    BY <1>1, NewlyPostedMoves DEF NewlyPosted, ByPosting
  <2>2. Balances
    BY <1>1, InParts
  <2>3. /\ n \in DOMAIN lines /\ Recorded(lines)[n].row = lines[n].row
        /\ OnRow(Recorded(lines), lines[n].row) = OnRow(lines, lines[n].row)
    BY <1>1, <2>1, <2>2, RecordedLines DEF Balances
  <2>4. Cardinality(OnRow(lines, lines[n].row)) = 1
    BY <1>1, <2>1, <2>3
  <2>. QED
    BY <2>1, <2>2, <2>3, <2>4, RecordedResult
<1>2. IInv /\ [Next]_vars
        => [\A a \in DOMAIN adjustments' :
              /\ adjustments'[a].status = "posted"
              /\ a \in DOMAIN adjustments => adjustments[a].status # "posted"
              => \A n \in DOMAIN adjustments'[a].lines :
                    LET line == adjustments'[a].lines[n] IN
                    Cardinality(OnRow(adjustments'[a].lines, line.row)) = 1 =>
                       line.prior = {onHand[line.row]} /\ line.resulting = {onHand'[line.row]}]_vars
  BY <1>1
<1>. QED
  BY <1>2, Invariant, PTL DEF Spec, ResultIsRecorded

(* How the posted documents of a list change: not at all, or by document u. *)
Stays(s, t) ==
  Posted(t) = Posted(s) /\ \A d \in Posted(s) : t[d].lines = s[d].lines

Grows(s, t, u) ==
  /\ u \notin Posted(s) /\ Posted(t) = Posted(s) \cup {u}
  /\ \A d \in Posted(s) : t[d].lines = s[d].lines

LEMMA ReplacedStays ==
  ASSUME NEW S, NEW s \in Seq(S), NEW d \in DOMAIN s, NEW new \in S, NEW t,
         t = [s EXCEPT ![d] = new], s[d].status # "posted", new.status # "posted"
  PROVE  Stays(s, t)
<1>1. /\ DOMAIN t = DOMAIN s /\ t[d] = new
      /\ \A e \in DOMAIN s : e # d => t[e] = s[e]
  BY ReplacedIn
<1>. QED
  BY <1>1 DEF Stays, Posted

LEMMA ReplacedGrows ==
  ASSUME NEW S, NEW s \in Seq(S), NEW d \in DOMAIN s, NEW new \in S, NEW t,
         t = [s EXCEPT ![d] = new], s[d].status # "posted", new.status = "posted"
  PROVE  Grows(s, t, d) /\ t[d] = new
<1>1. /\ DOMAIN t = DOMAIN s /\ t[d] = new
      /\ \A e \in DOMAIN s : e # d => t[e] = s[e]
  BY ReplacedIn
<1>. QED
  BY <1>1 DEF Grows, Posted

LEMMA AppendedStays ==
  ASSUME NEW S, NEW s \in Seq(S), NEW new \in S, NEW t, t = Append(s, new),
         new.status # "posted"
  PROVE  Stays(s, t)
<1>1. /\ DOMAIN t = DOMAIN s \cup {Len(s) + 1} /\ Len(s) + 1 \notin DOMAIN s
      /\ t[Len(s) + 1] = new /\ \A e \in DOMAIN s : t[e] = s[e]
  BY AppendedTo
<1>. QED
  BY <1>1 DEF Stays, Posted

LEMMA AppendedGrows ==
  ASSUME NEW S, NEW s \in Seq(S), NEW new \in S, NEW t, t = Append(s, new),
         new.status = "posted"
  PROVE  Grows(s, t, Len(s) + 1) /\ t[Len(s) + 1] = new
<1>1. /\ DOMAIN t = DOMAIN s \cup {Len(s) + 1} /\ Len(s) + 1 \notin DOMAIN s
      /\ t[Len(s) + 1] = new /\ \A e \in DOMAIN s : t[e] = s[e]
  BY AppendedTo
<1>. QED
  BY <1>1 DEF Grows, Posted

(* What the posted documents have moved a balance by.                      *)
LEMMA AdjustedType ==
  ASSUME AdjustmentsInv, NEW b
  PROVE  /\ IsFiniteSet(DOMAIN Adjusted(b)) /\ DOMAIN Adjusted(b) = Posted(adjustments)
         /\ \A a \in Posted(adjustments) : /\ Adjusted(b)[a] = Net(adjustments[a].lines, b)
                                           /\ Adjusted(b)[a] \in Int
         /\ SumFunction(Adjusted(b)) \in Int
<1> DEFINE f == Adjusted(b)
<1>1. DOMAIN f = Posted(adjustments)
      /\ \A a \in Posted(adjustments) : f[a] = Net(adjustments[a].lines, b)
  BY DEF Adjusted
<1>. HIDE DEF f
<1>2. IsFiniteSet(DOMAIN adjustments) /\ Posted(adjustments) \subseteq DOMAIN adjustments
  BY SequenceDomain DEF AdjustmentsInv, Posted
<1>3. IsFiniteSet(DOMAIN f)
  BY <1>1, <1>2, FS_Subset
<1>4. \A a \in DOMAIN f : f[a] \in Int
  BY <1>1, <1>2, AdjustmentFields, LinesMove, NetType
<1>5. SumFunction(f) \in Int
  BY <1>3, <1>4, TotalInt
<1>. QED
  BY <1>1, <1>3, <1>4, <1>5 DEF f

LEMMA RecountedType ==
  ASSUME CountsInv, NEW b
  PROVE  /\ IsFiniteSet(DOMAIN Recounted(b)) /\ DOMAIN Recounted(b) = Posted(counts)
         /\ \A k \in Posted(counts) : /\ Recounted(b)[k] = Net(Movements(counts[k].lines), b)
                                      /\ Recounted(b)[k] \in Int
         /\ SumFunction(Recounted(b)) \in Int
<1> DEFINE f == Recounted(b)
<1>1. DOMAIN f = Posted(counts)
      /\ \A k \in Posted(counts) : f[k] = Net(Movements(counts[k].lines), b)
  BY DEF Recounted
<1>. HIDE DEF f
<1>2. IsFiniteSet(DOMAIN counts) /\ Posted(counts) \subseteq DOMAIN counts
  BY SequenceDomain DEF CountsInv, Posted
<1>3. IsFiniteSet(DOMAIN f)
  BY <1>1, <1>2, FS_Subset
<1>4. \A k \in DOMAIN f : f[k] \in Int
  BY <1>1, <1>2, CountFields, CountMoves, NetType
<1>5. SumFunction(f) \in Int
  BY <1>3, <1>4, TotalInt
<1>. QED
  BY <1>1, <1>3, <1>4, <1>5 DEF f

LEMMA AdjustedStays ==
  ASSUME Stays(adjustments, adjustments'), NEW b
  PROVE  Adjusted(b)' = Adjusted(b)
BY DEF Stays, Adjusted

LEMMA RecountedStays ==
  ASSUME Stays(counts, counts'), NEW b
  PROVE  Recounted(b)' = Recounted(b)
BY DEF Stays, Recounted

LEMMA AdjustedGrows ==
  ASSUME AdjustmentsInv, AdjustmentsInv', NEW u, Grows(adjustments, adjustments', u), NEW b
  PROVE  SumFunction(Adjusted(b)') = SumFunction(Adjusted(b)) + Net(adjustments'[u].lines, b)
<1>1. PICK f, g : f = Adjusted(b) /\ g = Adjusted(b)'
  OBVIOUS
<1>2. /\ IsFiniteSet(DOMAIN f) /\ DOMAIN f = Posted(adjustments)
      /\ \A a \in DOMAIN f : f[a] \in Int
  BY <1>1, AdjustedType
<1>3. /\ DOMAIN g = DOMAIN f \cup {u} /\ u \notin DOMAIN f
      /\ \A a \in DOMAIN f : g[a] = f[a]
      /\ g[u] = Net(adjustments'[u].lines, b)
  BY <1>1 DEF Grows, Adjusted
<1>4. g[u] \in Int
  <2>1. u \in DOMAIN adjustments'
    BY DEF Grows, Posted
  <2>2. adjustments'[u].lines \in Seq(AdjustmentLine)
    <3>1. adjustments' \in Seq(Adjustment)
      BY DEF AdjustmentsInv
    <3>2. adjustments'[u] \in Adjustment
      BY <2>1, <3>1, SequenceDomain
    <3>. QED
      BY <3>2 DEF Adjustment
  <2>. QED
    BY <1>3, <2>2, LinesMove, NetType
<1>5. SumFunction(g) = SumFunction(f) + g[u]
  BY <1>2, <1>3, <1>4, TotalAdd
<1>. QED
  BY <1>1, <1>3, <1>5

LEMMA RecountedGrows ==
  ASSUME CountsInv, CountsInv', NEW u, Grows(counts, counts', u), NEW b
  PROVE  SumFunction(Recounted(b)') = SumFunction(Recounted(b))
                                         + Net(Movements(counts'[u].lines), b)
<1>1. PICK f, g : f = Recounted(b) /\ g = Recounted(b)'
  OBVIOUS
<1>2. /\ IsFiniteSet(DOMAIN f) /\ DOMAIN f = Posted(counts)
      /\ \A a \in DOMAIN f : f[a] \in Int
  BY <1>1, RecountedType
<1>3. /\ DOMAIN g = DOMAIN f \cup {u} /\ u \notin DOMAIN f
      /\ \A a \in DOMAIN f : g[a] = f[a]
      /\ g[u] = Net(Movements(counts'[u].lines), b)
  BY <1>1 DEF Grows, Recounted
<1>4. g[u] \in Int
  <2>1. u \in DOMAIN counts'
    BY DEF Grows, Posted
  <2>2. counts'[u].lines \in Seq(CountLine)
    <3>1. counts' \in Seq(StockCount)
      BY DEF CountsInv
    <3>2. counts'[u] \in StockCount
      BY <2>1, <3>1, SequenceDomain
    <3>. QED
      BY <3>2 DEF StockCount
  <2>. QED
    BY <1>3, <2>2, CountMoves, NetType
<1>5. SumFunction(g) = SumFunction(f) + g[u]
  BY <1>2, <1>3, <1>4, TotalAdd
<1>. QED
  BY <1>1, <1>3, <1>5

(* What a step may do to stock and documents for the balances to go on     *)
(* being explained: nothing, another posting, or one more posted document. *)
Aside ==
  /\ Balances' /\ Stays(adjustments, adjustments') /\ Stays(counts, counts')
  /\ \A r \in Rows : onHand'[r] - other'[r] = onHand[r] - other[r]

PostsAdjustment ==
  /\ Stays(counts, counts')
  /\ \E u : /\ Grows(adjustments, adjustments', u)
            /\ Moving(adjustments'[u].lines)

PostsCount ==
  /\ Stays(adjustments, adjustments')
  /\ \E u : /\ Grows(counts, counts', u)
            /\ Moving(Movements(counts'[u].lines))

LEMMA StockExplained ==
  ASSUME IInv, AdjustmentsInv', CountsInv', StockMatchesCorrections,
         Aside \/ PostsAdjustment \/ PostsCount
  PROVE  StockMatchesCorrections'
<1>1. Balances /\ AdjustmentsInv /\ CountsInv
  BY InParts
<1>2. Balances'
  BY DEF Aside, PostsAdjustment, PostsCount, Moving, Forward
<1>3. ASSUME NEW b \in Rows
      PROVE  /\ onHand'[b] >= 0
             /\ onHand'[b] = Opening[b] + other'[b] + SumFunction(Adjusted(b)')
                                                    + SumFunction(Recounted(b)')
  <2>1. /\ onHand[b] = Opening[b] + other[b] + SumFunction(Adjusted(b))
                                             + SumFunction(Recounted(b))
    BY DEF StockMatchesCorrections
  <2>2. /\ onHand[b] \in Nat /\ onHand'[b] \in Nat /\ other[b] \in Int /\ other'[b] \in Int
        /\ Opening[b] \in Nat
    BY <1>1, <1>2, CorrectionsAssumption DEF Balances
  <2>3. SumFunction(Adjusted(b)) \in Int /\ SumFunction(Recounted(b)) \in Int
    BY <1>1, AdjustedType, RecountedType
  <2>4. CASE Aside
    <3>1. Adjusted(b)' = Adjusted(b) /\ Recounted(b)' = Recounted(b)
      BY <2>4, AdjustedStays, RecountedStays DEF Aside
    <3>2. onHand'[b] - other'[b] = onHand[b] - other[b]
      BY <2>4 DEF Aside
    <3>. QED
      BY <2>1, <2>2, <2>3, <3>1, <3>2
  <2>5. CASE PostsAdjustment
    <3>1. PICK u : Grows(adjustments, adjustments', u) /\ Moving(adjustments'[u].lines)
      BY <2>5 DEF PostsAdjustment
    <3>2. Recounted(b)' = Recounted(b)
      BY <2>5, RecountedStays DEF PostsAdjustment
    <3>3. SumFunction(Adjusted(b)') = SumFunction(Adjusted(b)) + Net(adjustments'[u].lines, b)
      BY <1>1, <3>1, AdjustedGrows
    <3>4. onHand'[b] = onHand[b] + Net(adjustments'[u].lines, b) /\ other'[b] = other[b]
      BY <3>1 DEF Moving
    <3>5. Net(adjustments'[u].lines, b) \in Int
      <4>1. u \in DOMAIN adjustments' /\ adjustments' \in Seq(Adjustment)
        BY <3>1 DEF Grows, Posted, AdjustmentsInv
      <4>2. adjustments'[u] \in Adjustment
        BY <4>1, SequenceDomain
      <4>. QED
        BY <4>2, LinesMove, NetType DEF Adjustment
    <3>. QED
      BY <2>1, <2>2, <2>3, <3>2, <3>3, <3>4, <3>5
  <2>6. CASE PostsCount
    <3>1. PICK u : Grows(counts, counts', u) /\ Moving(Movements(counts'[u].lines))
      BY <2>6 DEF PostsCount
    <3>2. Adjusted(b)' = Adjusted(b)
      BY <2>6, AdjustedStays DEF PostsCount
    <3>3. SumFunction(Recounted(b)') = SumFunction(Recounted(b))
                                          + Net(Movements(counts'[u].lines), b)
      BY <1>1, <3>1, RecountedGrows
    <3>4. /\ onHand'[b] = onHand[b] + Net(Movements(counts'[u].lines), b)
          /\ other'[b] = other[b]
      BY <3>1 DEF Moving
    <3>5. Net(Movements(counts'[u].lines), b) \in Int
      <4>1. u \in DOMAIN counts' /\ counts' \in Seq(StockCount)
        BY <3>1 DEF Grows, Posted, CountsInv
      <4>2. counts'[u] \in StockCount
        BY <4>1, SequenceDomain
      <4>. QED
        BY <4>2, CountMoves, NetType DEF StockCount
    <3>. QED
      BY <2>1, <2>2, <2>3, <3>2, <3>3, <3>4, <3>5
  <2>. QED
    BY <2>4, <2>5, <2>6
<1>. QED
  BY <1>3 DEF StockMatchesCorrections

-----------------------------------------------------------------------------
(* When no save is stale *)

Saves(c) == client[c].op # "none" /\ client'[c].op = "none"

(* A save that changes the call's record ends the call.                    *)
LEMMA SavingAllowed ==
  ASSUME IInv, NEW c \in Clients, Saves(c) => StillAllowed(c), client[c].op # "none",
         client' = [client EXCEPT ![c] = Idle]
  PROVE  StillAllowed(c)
<1>1. client'[c] = Idle
  BY DEF IInv
<1>. QED
  BY <1>1 DEF Saves, Idle

LEMMA NothingMoves ==
  ASSUME Balances, UNCHANGED stock
  PROVE  Balances' /\ \A r \in Rows : onHand'[r] - other'[r] = onHand[r] - other[r]
BY DEF stock, Balances

LEMMA StaysPut ==
  ASSUME NEW s, NEW t, t = s
  PROVE  Stays(s, t)
BY DEF Stays

LEMMA RecordedMoving ==
  ASSUME Balances, NEW lines \in Seq(AdjustmentLine), Moving(lines)
  PROVE  Moving(Recorded(lines))
<1>1. \A b : Net(Recorded(lines), b) = Net(lines, b)
  BY RecordedLines DEF Balances
<1>. QED
  BY <1>1 DEF Moving

LEMMA AdjustmentEffect ==
  ASSUME IInv, NEW c \in Clients, AdjustmentStep(c), Saves(c) => StillAllowed(c)
  PROVE  Aside \/ PostsAdjustment
<1>1. Balances /\ adjustments \in Seq(Adjustment) /\ AdjustmentsInv
  BY InParts DEF AdjustmentsInv
<1>2. Stays(counts, counts')
  BY AdjustmentsOnly, StaysPut
<1>3. ASSUME UNCHANGED stock, Stays(adjustments, adjustments')
      PROVE  Aside
  BY <1>1, <1>2, <1>3, NothingMoves DEF Aside
<1>4. ASSUME NEW a \in DOMAIN adjustments, NEW new, SoundAdjustment(a, new), UNCHANGED stock,
             adjustments' = [adjustments EXCEPT ![a] = new],
             adjustments[a].status # "posted", new.status # "posted"
      PROVE  Aside
  <2>1. new \in Adjustment
    BY <1>4 DEF SoundAdjustment
  <2>. QED
    BY <1>1, <1>3, <1>4, <2>1, ReplacedStays
<1>5. ASSUME NEW input \in Inputs, CreateAdjustment(c, input)
      PROVE  Aside
  <2>1. AdjustmentsInv' /\ adjustments' = Append(adjustments, DraftForm(input))
    BY <1>5, AdjustmentCreated DEF IInv
  <2>2. DraftForm(input) \in Adjustment
    <3>1. Len(adjustments') = Len(adjustments) + 1 /\ Len(adjustments) \in Nat
          /\ adjustments'[Len(adjustments) + 1] = DraftForm(input)
          /\ adjustments' \in Seq(Adjustment)
      BY <1>1, <2>1 DEF AdjustmentsInv
    <3>. QED
      BY <3>1
  <2>3. DraftForm(input).status # "posted"
    BY DEF DraftForm
  <2>4. Stays(adjustments, adjustments')
    BY <1>1, <2>1, <2>2, <2>3, AppendedStays
  <2>. QED
    BY <1>3, <1>5, <2>4 DEF CreateAdjustment
<1>6. ASSUME SaveUpdateAdjustment(c)
      PROVE  Aside
  <2> DEFINE a   == client[c].doc
             new == IF adjustments[a].ver # client[c].data.ver THEN adjustments[a]
                    ELSE Revised(adjustments[a], client[c].data.input)
  <2>1. /\ a \in DOMAIN adjustments /\ SoundAdjustment(a, new)
        /\ adjustments' = [adjustments EXCEPT ![a] = new]
        /\ new.status = adjustments[a].status
        /\ client[c].op = "updateAdjustment" /\ client' = [client EXCEPT ![c] = Idle]
        /\ UNCHANGED stock
    BY <1>6, UpdateFacts
  <2>2. adjustments[a].status = "draft"
    BY <2>1, SavingAllowed DEF StillAllowed
  <2>. HIDE DEF a, new
  <2>. QED
    BY <1>4, <2>1, <2>2
<1>7. ASSUME SaveAdjustmentStatus(c)
      PROVE  Aside
  <2> DEFINE a   == client[c].doc
             new == [adjustments[a] EXCEPT !.status = client[c].data]
  <2>1. /\ a \in DOMAIN adjustments /\ client[c].data \in {"submitted", "approved", "rejected"}
        /\ SoundAdjustment(a, new) /\ adjustments' = [adjustments EXCEPT ![a] = new]
        /\ new.status = client[c].data
        /\ client[c].op = "adjustmentStatus" /\ client' = [client EXCEPT ![c] = Idle]
        /\ UNCHANGED stock
    BY <1>7, StatusFacts
  <2>2. May(adjustments[a].status, client[c].data)
    BY <2>1, SavingAllowed DEF StillAllowed
  <2>3. adjustments[a].status # "posted"
    BY <2>1, <2>2 DEF May
  <2>. HIDE DEF a, new
  <2>. QED
    BY <1>4, <2>1, <2>3
<1>8. ASSUME NEW a \in DOMAIN adjustments, PostAdjustment(c, a)
      PROVE  PostsAdjustment
  <2> DEFINE lines == adjustments[a].lines
  <2>1. /\ adjustments[a].status = "approved" /\ lines \in Seq(AdjustmentLine)
        /\ Moving(lines) /\ SoundAdjustment(a, PostedForm(a))
        /\ PostedForm(a).status = "posted" /\ PostedForm(a).lines = Recorded(lines)
        /\ adjustments' = [adjustments EXCEPT ![a] = PostedForm(a)]
    BY <1>8, AdjustmentPostFacts
  <2>2. PostedForm(a) \in Adjustment
    BY <2>1 DEF SoundAdjustment
  <2>3. Grows(adjustments, adjustments', a) /\ adjustments'[a] = PostedForm(a)
    BY <1>1, <2>1, <2>2, ReplacedGrows
  <2>4. Moving(adjustments'[a].lines)
    BY <1>1, <2>1, <2>3, RecordedMoving
  <2>. QED
    BY <1>2, <2>3, <2>4 DEF PostsAdjustment
<1>9. ASSUME NEW a \in DOMAIN adjustments, ReverseAdjustment(c, a)
      PROVE  PostsAdjustment
  <2> DEFINE lines == Opposite(adjustments[a].lines)
             u     == Len(adjustments) + 1
  <2>1. /\ lines \in Seq(AdjustmentLine) /\ Moving(lines)
        /\ SoundAdjustment(u, ReversalForm(a))
        /\ ReversalForm(a).status = "posted" /\ ReversalForm(a).lines = Recorded(lines)
        /\ adjustments' = Append(adjustments, ReversalForm(a))
    BY <1>9, AdjustmentReverseFacts
  <2>2. ReversalForm(a) \in Adjustment
    BY <2>1 DEF SoundAdjustment
  <2>3. Grows(adjustments, adjustments', u) /\ adjustments'[u] = ReversalForm(a)
    BY <1>1, <2>1, <2>2, AppendedGrows
  <2>. HIDE DEF u, lines
  <2>4. Moving(adjustments'[u].lines)
    BY <1>1, <2>1, <2>3, RecordedMoving
  <2>. QED
    BY <1>2, <2>3, <2>4 DEF PostsAdjustment
<1>10. ASSUME NEW a, NEW input, ReadUpdateAdjustment(c, a, input)
       PROVE  Aside
  BY <1>3, <1>10, StaysPut DEF ReadUpdateAdjustment
<1>11. ASSUME NEW a, NEW to, ReadAdjustmentStatus(c, a, to)
       PROVE  Aside
  BY <1>3, <1>11, StaysPut DEF ReadAdjustmentStatus
<1>. QED
  BY <1>5, <1>6, <1>7, <1>8, <1>9, <1>10, <1>11 DEF AdjustmentStep

(* A count with the figures it was submitted with.                         *)
FreshCount(count) ==
  count.reversalOf = 0 /\ count.status \in {"submitted", "approved", "posted"} =>
     \A n \in DOMAIN count.lines :
        /\ count.lines[n].counted # Null
        /\ count.lines[n].variance = {q - count.lines[n].system : q \in count.lines[n].counted}

CountsFresh == \A k \in DOMAIN counts : FreshCount(counts[k])

LEMMA FreshOnward ==
  ASSUME NEW old, NEW new, FreshCount(old), old.status \in {"submitted", "approved"},
         new.lines = old.lines, new.reversalOf = old.reversalOf
  PROVE  FreshCount(new)
<1>1. PICK lines : lines = old.lines
  OBVIOUS
<1>2. new.reversalOf = 0
         => \A n \in DOMAIN lines :
               /\ lines[n].counted # Null
               /\ lines[n].variance = {q - lines[n].system : q \in lines[n].counted}
  BY <1>1 DEF FreshCount
<1>. QED
  BY <1>1, <1>2 DEF FreshCount

LEMMA FreshInParts ==
  FreshInv <=> IInv /\ StockMatchesCorrections /\ CountsFresh
BY DEF FreshInv, VarianceIsCurrent, CountsFresh, FreshCount, Originals

LEMMA CountEffect ==
  ASSUME IInv, CountsFresh, NEW c \in Clients, CountStep(c), Saves(c) => StillAllowed(c)
  PROVE  (Aside \/ PostsCount) /\ CountsFresh'
<1>1. Balances /\ counts \in Seq(StockCount) /\ CountsInv
  BY InParts DEF CountsInv
<1>2. Stays(adjustments, adjustments')
  BY CountsOnly, StaysPut
<1>3. ASSUME UNCHANGED stock, Stays(counts, counts')
      PROVE  Aside
  BY <1>1, <1>2, <1>3, NothingMoves DEF Aside
<1>4. ASSUME UNCHANGED <<stock, counts>>
      PROVE  Aside /\ CountsFresh'
  BY <1>3, <1>4, StaysPut DEF CountsFresh
<1>5. ASSUME NEW k \in DOMAIN counts, NEW new, Kept(k, new),
             counts' = [counts EXCEPT ![k] = new], FreshCount(new)
      PROVE  new \in StockCount /\ CountsFresh'
  <2>1. new \in StockCount
    BY <1>5 DEF Kept, SoundCount
  <2>2. /\ DOMAIN counts' = DOMAIN counts /\ counts'[k] = new
        /\ \A d \in DOMAIN counts : d # k => counts'[d] = counts[d]
    BY <1>1, <1>5, <2>1, ReplacedIn
  <2>. QED
    BY <1>5, <2>1, <2>2 DEF CountsFresh
<1>6. ASSUME NEW k \in DOMAIN counts, NEW new, Kept(k, new), UNCHANGED stock,
             counts' = [counts EXCEPT ![k] = new], FreshCount(new),
             counts[k].status # "posted", new.status # "posted"
      PROVE  Aside /\ CountsFresh'
  BY <1>1, <1>3, <1>5, <1>6, ReplacedStays
<1>7. ASSUME NEW new, SoundCount(Len(counts) + 1, new), counts' = Append(counts, new),
             FreshCount(new)
      PROVE  new \in StockCount /\ CountsFresh'
  <2>1. new \in StockCount
    BY <1>7 DEF SoundCount
  <2>2. /\ DOMAIN counts' = DOMAIN counts \cup {Len(counts) + 1}
        /\ counts'[Len(counts) + 1] = new
        /\ \A d \in DOMAIN counts : counts'[d] = counts[d]
    BY <1>1, <1>7, <2>1, AppendedTo
  <2>. QED
    BY <1>7, <2>1, <2>2 DEF CountsFresh
<1>8. ASSUME SaveCreateCount(c)
      PROVE  Aside /\ CountsFresh'
  <2>1. PICK new : /\ SoundCount(Len(counts) + 1, new) /\ counts' = Append(counts, new)
                   /\ new.status = "draft" /\ UNCHANGED stock
    BY <1>8, CountCreateFacts
  <2>2. FreshCount(new)
    BY <2>1 DEF FreshCount
  <2>3. new \in StockCount /\ CountsFresh'
    BY <1>7, <2>1, <2>2
  <2>4. new.status # "posted"
    BY <2>1
  <2>5. Stays(counts, counts')
    BY <1>1, <2>1, <2>3, <2>4, AppendedStays
  <2>. QED
    BY <1>3, <2>1, <2>3, <2>5
<1>9. ASSUME SaveUpdateCount(c)
      PROVE  Aside /\ CountsFresh'
  <2> DEFINE k   == client[c].doc
             new == EnteredForm(k, client[c].data.line, client[c].data.counted)
  <2>1. /\ k \in DOMAIN counts /\ Kept(k, new) /\ new.status = counts[k].status
        /\ client[c].op = "updateCount" /\ client' = [client EXCEPT ![c] = Idle]
        /\ counts' = [counts EXCEPT ![k] = new] /\ UNCHANGED stock
    BY <1>9, EnteredFacts
  <2>2. counts[k].status = "draft"
    BY <2>1, SavingAllowed DEF StillAllowed
  <2>. HIDE DEF k, new
  <2>3. FreshCount(new)
    BY <2>1, <2>2 DEF FreshCount
  <2>. QED
    BY <1>6, <2>1, <2>2, <2>3
<1>10. ASSUME SaveSubmitCount(c)
       PROVE  Aside /\ CountsFresh'
  <2> DEFINE k   == client[c].doc
             new == SubmittedForm(k, client[c].data)
  <2>1. /\ k \in DOMAIN counts /\ Kept(k, new) /\ new.status = "submitted"
        /\ \A m \in DOMAIN counts[k].lines :
              /\ new.lines[m].counted = counts[k].lines[m].counted
              /\ new.lines[m].system = counts[k].lines[m].system
              /\ new.lines[m].variance = client[c].data[m]
              /\ counts[k].lines[m].counted # Null
        /\ client[c].op = "submitCount" /\ client' = [client EXCEPT ![c] = Idle]
        /\ counts' = [counts EXCEPT ![k] = new] /\ UNCHANGED stock
    BY <1>10, SubmittedFacts
  <2>2. /\ May(counts[k].status, "submitted")
        /\ client[c].data = Variance(counts[k].lines)
    <3>1. StillAllowed(c) /\ client[c].op = "submitCount"
      BY <2>1, SavingAllowed
    <3>. QED
      BY <3>1 DEF StillAllowed
  <2>3. counts[k].status # "posted"
    BY <2>2 DEF May
  <2>. HIDE DEF k, new
  <2>4. \A m \in DOMAIN counts[k].lines :
           client[c].data[m] = {q - counts[k].lines[m].system : q \in counts[k].lines[m].counted}
    <3>1. counts[k].lines \in Seq(CountLine)
          /\ \A m \in DOMAIN counts[k].lines : Snapshot(counts[k].lines[m])
      BY <1>1, <2>1, CountFields
    <3>2. \A m \in DOMAIN counts[k].lines :
             Variance(counts[k].lines)[m]
                = {q - counts[k].lines[m].system : q \in counts[k].lines[m].counted}
      BY <3>1, Differences
    <3>. QED
      BY <2>2, <3>2
  <2>5. FreshCount(new)
    <3>1. DOMAIN new.lines = DOMAIN counts[k].lines
      BY <2>1 DEF Kept
    <3>2. ASSUME NEW m \in DOMAIN new.lines
          PROVE  /\ new.lines[m].counted # Null
                 /\ new.lines[m].variance
                       = {q - new.lines[m].system : q \in new.lines[m].counted}
      BY <2>1, <2>4, <3>1
    <3>. QED
      BY <3>2 DEF FreshCount
  <2>. QED
    BY <1>6, <2>1, <2>3, <2>5
<1>11. ASSUME SaveCountStatus(c)
       PROVE  Aside /\ CountsFresh'
  <2> DEFINE k   == client[c].doc
             to  == client[c].data
             new == [counts[k] EXCEPT !.status = to]
  <2>1. /\ k \in DOMAIN counts /\ to \in {"approved", "rejected"}
        /\ Kept(k, new) /\ counts' = [counts EXCEPT ![k] = new]
        /\ new.status = to /\ new.lines = counts[k].lines
        /\ new.reversalOf = counts[k].reversalOf
        /\ client[c].op = "countStatus" /\ client' = [client EXCEPT ![c] = Idle]
        /\ UNCHANGED stock
    BY <1>11, CountStatusFacts
  <2>2. May(counts[k].status, to)
    BY <2>1, SavingAllowed DEF StillAllowed
  <2>. HIDE DEF k, to, new
  <2>3. counts[k].status = "submitted"
    BY <2>1, <2>2 DEF May
  <2>4. FreshCount(new)
    BY <2>1, <2>3, FreshOnward DEF CountsFresh
  <2>. QED
    BY <1>6, <2>1, <2>3, <2>4
<1>12. ASSUME NEW k \in DOMAIN counts, PostCount(c, k)
       PROVE  PostsCount /\ CountsFresh'
  <2> DEFINE lines == counts[k].lines
             new   == [counts[k] EXCEPT !.status = "posted"]
  <2>1. /\ counts[k].status = "approved" /\ Moving(Movements(lines))
        /\ Kept(k, new) /\ new.status = "posted" /\ new.lines = lines
        /\ new.reversalOf = counts[k].reversalOf
        /\ counts' = [counts EXCEPT ![k] = new]
    BY <1>12, CountPostFacts
  <2>. HIDE DEF new
  <2>2. FreshCount(new)
    BY <2>1, FreshOnward DEF CountsFresh
  <2>3. new \in StockCount /\ CountsFresh'
    BY <1>5, <2>1, <2>2
  <2>4. Grows(counts, counts', k) /\ counts'[k] = new
    BY <1>1, <2>1, <2>3, ReplacedGrows
  <2>. QED
    BY <1>2, <2>1, <2>3, <2>4 DEF PostsCount
<1>13. ASSUME NEW k \in DOMAIN counts, ReverseCount(c, k)
       PROVE  PostsCount /\ CountsFresh'
  <2> DEFINE lines == OppositeCount(counts[k].lines)
             new   == CountReversal(k)
             u     == Len(counts) + 1
  <2>1. /\ Moving(Movements(lines)) /\ SoundCount(u, new) /\ new.reversalOf # 0
        /\ counts' = Append(counts, new)
    BY <1>13, CountReverseFacts
  <2>2. new.status = "posted" /\ new.lines = lines
    BY DEF CountReversal
  <2>. HIDE DEF new
  <2>3. FreshCount(new)
    BY <2>1 DEF FreshCount
  <2>4. new \in StockCount /\ CountsFresh'
    BY <1>7, <2>1, <2>3
  <2>5. Grows(counts, counts', u) /\ counts'[u] = new
    BY <1>1, <2>1, <2>2, <2>4, AppendedGrows
  <2>. HIDE DEF u, lines
  <2>. QED
    BY <1>2, <2>1, <2>2, <2>4, <2>5 DEF PostsCount
<1>14. ASSUME NEW rows, BeginCount(c, rows)
       PROVE  Aside /\ CountsFresh'
  BY <1>4, <1>14 DEF BeginCount
<1>15. ASSUME SnapshotRow(c)
       PROVE  Aside /\ CountsFresh'
  BY <1>4, <1>15 DEF SnapshotRow
<1>16. ASSUME NEW k, NEW n, NEW q, ReadUpdateCount(c, k, n, q)
       PROVE  Aside /\ CountsFresh'
  BY <1>4, <1>16 DEF ReadUpdateCount
<1>17. ASSUME NEW k, ReadSubmitCount(c, k)
       PROVE  Aside /\ CountsFresh'
  BY <1>4, <1>17 DEF ReadSubmitCount
<1>18. ASSUME NEW k, NEW to, ReadCountStatus(c, k, to)
       PROVE  Aside /\ CountsFresh'
  BY <1>4, <1>18 DEF ReadCountStatus
<1>. QED
  BY <1>8, <1>9, <1>10, <1>11, <1>12, <1>13, <1>14, <1>15, <1>16, <1>17, <1>18 DEF CountStep

LEMMA OtherEffect ==
  ASSUME Balances, NEW b \in Rows, NEW delta \in Deltas, OtherPosting(b, delta)
  PROVE  Aside
BY OtherMoves, StaysPut DEF Aside, Forward

LEMMA StepEffect ==
  ASSUME IInv, CountsFresh, Next, \A c \in Clients : Saves(c) => StillAllowed(c)
  PROVE  (Aside \/ PostsAdjustment \/ PostsCount) /\ CountsFresh'
<1>1. ASSUME NEW c \in Clients, AdjustmentStep(c)
      PROVE  (Aside \/ PostsAdjustment) /\ CountsFresh'
  <2>1. UNCHANGED counts
    BY <1>1, AdjustmentsOnly
  <2>2. Aside \/ PostsAdjustment
    BY <1>1, AdjustmentEffect
  <2>. QED
    BY <2>1, <2>2 DEF CountsFresh
<1>2. ASSUME NEW c \in Clients, CountStep(c)
      PROVE  (Aside \/ PostsCount) /\ CountsFresh'
  BY <1>2, CountEffect
<1>3. ASSUME NEW b \in Rows, NEW delta \in Deltas, OtherPosting(b, delta)
      PROVE  Aside /\ CountsFresh'
  <2>1. Balances
    BY InParts
  <2>2. UNCHANGED counts
    BY <1>3, <2>1, OtherMoves
  <2>. QED
    BY <1>3, <2>1, <2>2, OtherEffect DEF CountsFresh
<1>. QED
  BY <1>1, <1>2, <1>3 DEF Next

LEMMA FreshStep ==
  ASSUME FreshInv, [Next]_vars, [\A c \in Clients : Saves(c) => StillAllowed(c)]_vars
  PROVE  FreshInv'
<1>1. IInv /\ StockMatchesCorrections /\ CountsFresh
  BY FreshInParts
<1>2. IInv'
  BY <1>1, Steps
<1>3. CASE UNCHANGED vars
  <2>1. Aside /\ CountsFresh'
    <3>1. UNCHANGED stock /\ counts' = counts /\ adjustments' = adjustments
      BY <1>3 DEF vars, stock
    <3>2. Balances
      BY <1>1, InParts
    <3>. QED
      BY <1>1, <3>1, <3>2, NothingMoves, StaysPut DEF Aside, CountsFresh
  <2>2. StockMatchesCorrections'
    BY <1>1, <1>2, <2>1, StockExplained DEF IInv
  <2>. QED
    BY <1>2, <2>1, <2>2 DEF FreshInv, VarianceIsCurrent, CountsFresh, FreshCount, Originals
<1>4. CASE ~UNCHANGED vars
  <2>1. Next /\ \A c \in Clients : Saves(c) => StillAllowed(c)
    BY <1>4
  <2>2. (Aside \/ PostsAdjustment \/ PostsCount) /\ CountsFresh'
    BY <1>1, <2>1, StepEffect
  <2>3. StockMatchesCorrections'
    BY <1>1, <1>2, <2>2, StockExplained DEF IInv
  <2>. QED
    BY <1>2, <2>2, <2>3 DEF FreshInv, VarianceIsCurrent, CountsFresh, FreshCount, Originals
<1>. QED
  BY <1>3, <1>4

LEMMA FreshStart == Init => FreshInv
<1> SUFFICES ASSUME Init PROVE FreshInv
  OBVIOUS
<1>1. IInv
  BY Initially
<1>2. DOMAIN adjustments = {} /\ DOMAIN counts = {}
  BY DEF Init
<1>3. CountsFresh
  BY <1>2 DEF CountsFresh
<1>4. \A b \in Rows : SumFunction(Adjusted(b)) = 0 /\ SumFunction(Recounted(b)) = 0
  BY <1>2, TotalEmpty DEF Adjusted, Recounted, Posted
<1>5. \A b \in Rows : onHand[b] = Opening[b] /\ other[b] = 0 /\ Opening[b] \in Nat
  BY CorrectionsAssumption DEF Init
<1>6. StockMatchesCorrections
  BY <1>4, <1>5 DEF StockMatchesCorrections
<1>. QED
  BY <1>1, <1>3, <1>6, FreshInParts

(* When no save is stale, every balance is explained by the documents and  *)
(* every count posts what was entered.                                     *)
THEOREM FreshCorrections == Spec /\ NoStaleSave => []FreshInv
<1>1. FreshInv /\ [Next]_vars /\ [\A c \in Clients : Saves(c) => StillAllowed(c)]_vars
         => FreshInv'
  BY FreshStep
<1>2. NoStaleSave <=> [][\A c \in Clients : Saves(c) => StillAllowed(c)]_vars
  <2>1. [\A c \in Clients : client[c].op # "none" /\ client'[c].op = "none"
                               => StillAllowed(c)]_vars
           <=> [\A c \in Clients : Saves(c) => StillAllowed(c)]_vars
    BY DEF Saves
  <2>. QED
    BY <2>1, PTL DEF NoStaleSave
<1>. QED
  BY <1>1, <1>2, FreshStart, PTL DEF Spec

(* Each posted correction took effect once: a balance has nothing in it    *)
(* but its opening quantity, the other postings and the adjustments and    *)
(* counts posted, and none was taken below zero                            *)
(* (StockAdjustmentService and StockCountService: post and reverse).       *)
THEOREM BalancesMatchCorrections == Spec /\ NoStaleSave => []StockMatchesCorrections
<1>1. FreshInv => StockMatchesCorrections
  BY DEF FreshInv
<1>. QED
  BY <1>1, FreshCorrections, PTL

(* A count posts what was counted less what was there at the snapshot.     *)
THEOREM VariancesAreCurrent == Spec /\ NoStaleSave => []VarianceIsCurrent
<1>1. FreshInv => VarianceIsCurrent
  BY DEF FreshInv
<1>. QED
  BY <1>1, FreshCorrections, PTL

-----------------------------------------------------------------------------
(* Posting a count *)

(* Only posting makes a count of the list posted. *)
LEMMA CountBecomesPosted ==
  ASSUME IInv, Next, NEW k \in DOMAIN counts, counts[k].status # "posted",
         counts'[k].status = "posted"
  PROVE  counts[k].status = "approved" /\ Moving(Movements(counts[k].lines))
<1>1. counts \in Seq(StockCount) /\ CountsInv /\ Balances
  BY InParts DEF CountsInv
<1>2. counts' # counts
  OBVIOUS
<1>3. ASSUME NEW d \in DOMAIN counts, NEW new, Kept(d, new), counts' = [counts EXCEPT ![d] = new]
      PROVE  d = k /\ new.status = "posted"
  <2>1. new \in StockCount
    BY <1>3 DEF Kept, SoundCount
  <2>. QED
    BY <1>1, <1>3, <2>1, ReplacedIn
<1>4. ASSUME NEW new, SoundCount(Len(counts) + 1, new), counts' = Append(counts, new)
      PROVE  FALSE
  <2>1. new \in StockCount
    BY <1>4 DEF SoundCount
  <2>2. counts'[k] = counts[k]
    BY <1>1, <1>4, <2>1, AppendedTo
  <2>. QED
    BY <2>2
<1>5. ASSUME NEW c \in Clients, SaveCreateCount(c)
      PROVE  FALSE
  BY <1>4, <1>5, CountCreateFacts
<1>6. ASSUME NEW c \in Clients, SaveUpdateCount(c)
      PROVE  FALSE
  <2> DEFINE d   == client[c].doc
             new == EnteredForm(d, client[c].data.line, client[c].data.counted)
  <2>1. /\ d \in DOMAIN counts /\ Kept(d, new) /\ new.status = counts[d].status
        /\ counts' = [counts EXCEPT ![d] = new]
    BY <1>6, EnteredFacts
  <2>. HIDE DEF d, new
  <2>. QED
    BY <1>3, <2>1
<1>7. ASSUME NEW c \in Clients, SaveSubmitCount(c)
      PROVE  FALSE
  <2> DEFINE d   == client[c].doc
             new == SubmittedForm(d, client[c].data)
  <2>1. /\ d \in DOMAIN counts /\ Kept(d, new) /\ new.status = "submitted"
        /\ counts' = [counts EXCEPT ![d] = new]
    BY <1>7, SubmittedFacts
  <2>. HIDE DEF d, new
  <2>. QED
    BY <1>3, <2>1
<1>8. ASSUME NEW c \in Clients, SaveCountStatus(c)
      PROVE  FALSE
  <2> DEFINE d   == client[c].doc
             to  == client[c].data
             new == [counts[d] EXCEPT !.status = to]
  <2>1. /\ d \in DOMAIN counts /\ to \in {"approved", "rejected"}
        /\ Kept(d, new) /\ new.status = to
        /\ counts' = [counts EXCEPT ![d] = new]
    BY <1>8, CountStatusFacts
  <2>. HIDE DEF d, to, new
  <2>. QED
    BY <1>3, <2>1
<1>9. ASSUME NEW c \in Clients, NEW d \in DOMAIN counts, PostCount(c, d)
      PROVE  counts[k].status = "approved" /\ Moving(Movements(counts[k].lines))
  <2> DEFINE new == [counts[d] EXCEPT !.status = "posted"]
  <2>1. /\ counts[d].status = "approved" /\ Moving(Movements(counts[d].lines))
        /\ Kept(d, new) /\ counts' = [counts EXCEPT ![d] = new]
    BY <1>9, CountPostFacts
  <2>. HIDE DEF new
  <2>. QED
    BY <1>3, <2>1
<1>10. ASSUME NEW c \in Clients, NEW d \in DOMAIN counts, ReverseCount(c, d)
       PROVE  FALSE
  BY <1>4, <1>10, CountReverseFacts
<1>11. ASSUME NEW c \in Clients, CountStep(c)
       PROVE  counts[k].status = "approved" /\ Moving(Movements(counts[k].lines))
  <2>1. \A rows : ~BeginCount(c, rows)
    BY <1>2 DEF BeginCount
  <2>2. ~SnapshotRow(c)
    BY <1>2 DEF SnapshotRow
  <2>3. \A d, n, q : ~ReadUpdateCount(c, d, n, q)
    BY <1>2 DEF ReadUpdateCount
  <2>4. \A d : ~ReadSubmitCount(c, d)
    BY <1>2 DEF ReadSubmitCount
  <2>5. \A d, to : ~ReadCountStatus(c, d, to)
    BY <1>2 DEF ReadCountStatus
  <2>. QED
    BY <1>5, <1>6, <1>7, <1>8, <1>9, <1>10, <1>11, <2>1, <2>2, <2>3, <2>4, <2>5 DEF CountStep
<1>12. \A c \in Clients : ~AdjustmentStep(c)
  BY <1>2, AdjustmentsOnly
<1>13. \A b \in Rows, delta \in Deltas : ~OtherPosting(b, delta)
  BY <1>1, <1>2, OtherMoves
<1>. QED
  BY <1>11, <1>12, <1>13 DEF Next

(* A line counted at the balance's present version, alone on its balance,  *)
(* brings the balance to what was counted.                                 *)
LEMMA CountedIsThere ==
  ASSUME IInv, NEW k \in DOMAIN counts, FreshCount(counts[k]), counts[k].reversalOf = 0,
         counts[k].status = "approved", Moving(Movements(counts[k].lines)),
         NEW n \in DOMAIN counts[k].lines,
         counts[k].lines[n].asOf = version[counts[k].lines[n].row],
         \A m \in DOMAIN counts[k].lines :
            counts[k].lines[m].row = counts[k].lines[n].row => m = n
  PROVE  onHand'[counts[k].lines[n].row] \in counts[k].lines[n].counted
<1> DEFINE lines == counts[k].lines
           line  == lines[n]
           b     == line.row
           moves == Movements(lines)
<1>1. lines \in Seq(CountLine) /\ line \in CountLine /\ Snapshot(line)
  BY InParts, CountFields
<1>2. /\ b \in Rows /\ line.system \in Nat /\ line.counted \subseteq Nat
      /\ line.system = onHand[b] /\ AtMostOne(line.counted)
  BY <1>1 DEF CountLine, Snapshot
<1>3. line.counted # Null /\ line.variance = {q - line.system : q \in line.counted}
  BY DEF FreshCount
<1>4. onHand[b] \in Nat
  BY <1>2, InParts DEF Balances
<1>. HIDE DEF line
<1>5. PICK q \in Nat : line.counted = {q}
  BY <1>2, <1>3, NoneOrOne DEF Null
<1>6. line.variance = {q - line.system}
  BY <1>3, <1>5
<1>. HIDE DEF lines
<1>7. /\ Moves(moves) /\ DOMAIN moves = DOMAIN lines
      /\ \A m \in DOMAIN lines : moves[m].row = lines[m].row
      /\ moves[n].delta = q - line.system
  <2>1. /\ Moves(moves) /\ DOMAIN moves = DOMAIN lines
        /\ \A m \in DOMAIN lines : /\ moves[m].row = lines[m].row
                                   /\ \A v : lines[m].variance = {v} => moves[m].delta = v
    BY <1>1, CountMoves
  <2>2. n \in DOMAIN lines /\ lines[n].variance = {q - line.system}
    BY <1>6 DEF line, lines
  <2>. HIDE DEF moves
  <2>. QED
    BY <2>1, <2>2
<1>8. \A m \in DOMAIN moves : moves[m].row = b => m = n
  BY <1>7 DEF lines, line
<1>9. n \in DOMAIN moves /\ moves[n].row = b
  BY <1>7 DEF lines, line
<1>10. onHand'[b] = onHand[b] + Net(moves, b)
  BY <1>2 DEF Moving, lines
<1>. HIDE DEF b, moves
<1>11. CASE moves[n].delta = 0
  <2>1. OnRow(moves, b) = {}
    BY <1>8, <1>11 DEF OnRow
  <2>2. Net(moves, b) = 0
    BY <2>1, NoNet
  <2>. QED
    BY <1>2, <1>4, <1>5, <1>7, <1>10, <1>11, <2>2 DEF b, line, lines
<1>12. CASE moves[n].delta # 0
  <2>1. OnRow(moves, b) = {n}
    BY <1>8, <1>9, <1>12 DEF OnRow
  <2>2. Net(moves, b) = q - line.system
    BY <1>7, <2>1, SingleNet
  <2>3. onHand'[b] = q
    BY <1>2, <1>4, <1>5, <1>10, <2>2
  <2>. QED
    BY <1>5, <2>3 DEF b, line, lines
<1>. QED
  BY <1>11, <1>12

(* When no save is stale, posting a count leaves in every balance that     *)
(* nothing moved since its snapshot what was counted there                 *)
(* (StockCountService.post).                                               *)
THEOREM CountsSetBalances == Spec /\ NoStaleSave => CountSetsBalance
<1>1. ASSUME FreshInv, Next, NEW k \in Originals(counts),
             counts[k].status # "posted", counts'[k].status = "posted",
             NEW n \in DOMAIN counts[k].lines,
             counts[k].lines[n].asOf = version[counts[k].lines[n].row],
             \A m \in DOMAIN counts[k].lines :
                counts[k].lines[m].row = counts[k].lines[n].row => m = n
      PROVE  onHand'[counts[k].lines[n].row] \in counts[k].lines[n].counted
  <2>1. IInv /\ CountsFresh
    BY <1>1, FreshInParts
  <2>2. k \in DOMAIN counts /\ counts[k].reversalOf = 0
    BY DEF Originals
  <2>3. counts[k].status = "approved" /\ Moving(Movements(counts[k].lines))
    BY <1>1, <2>1, <2>2, CountBecomesPosted
  <2>4. FreshCount(counts[k])
    BY <2>1, <2>2 DEF CountsFresh
  <2>. QED
    BY <1>1, <2>1, <2>2, <2>3, <2>4, CountedIsThere
<1>2. FreshInv /\ [Next]_vars
        => [\A k \in Originals(counts) :
              counts[k].status # "posted" /\ counts'[k].status = "posted" =>
                 \A n \in DOMAIN counts[k].lines :
                    LET line == counts[k].lines[n] IN
                    /\ line.asOf = version[line.row]
                    /\ \A m \in DOMAIN counts[k].lines :
                          counts[k].lines[m].row = line.row => m = n
                    => onHand'[line.row] \in line.counted]_vars
  BY <1>1
<1>. QED
  BY <1>2, FreshCorrections, PTL DEF Spec, CountSetsBalance

(* The same of behaviours without a stale save, for PostedStays below.     *)
LEMMA FreshPostedStays == Spec /\ NoStaleSave => PostedCorrectionUnchanged
<1>1. ASSUME IInv, CountsFresh, Next, \A c \in Clients : Saves(c) => StillAllowed(c)
      PROVE  /\ \A a \in DOMAIN adjustments :
                   adjustments[a].status = "posted" => adjustments'[a].lines = adjustments[a].lines
             /\ \A k \in DOMAIN counts :
                   counts[k].status = "posted" => counts'[k].lines = counts[k].lines
  <2>1. Aside \/ PostsAdjustment \/ PostsCount
    BY <1>1, StepEffect
  <2>2. /\ \A a \in Posted(adjustments) : adjustments'[a].lines = adjustments[a].lines
        /\ \A k \in Posted(counts) : counts'[k].lines = counts[k].lines
    BY <2>1 DEF Aside, PostsAdjustment, PostsCount, Stays, Grows
  <2>. QED
    BY <2>2 DEF Posted
<1>2. FreshInv /\ [Next]_vars /\ [\A c \in Clients : Saves(c) => StillAllowed(c)]_vars
        => [/\ \A a \in DOMAIN adjustments :
                  adjustments[a].status = "posted" => adjustments'[a].lines = adjustments[a].lines
            /\ \A k \in DOMAIN counts :
                  counts[k].status = "posted" => counts'[k].lines = counts[k].lines]_vars
  BY <1>1, FreshInParts
<1>3. [\A c \in Clients : client[c].op # "none" /\ client'[c].op = "none"
                             => StillAllowed(c)]_vars
         <=> [\A c \in Clients : Saves(c) => StillAllowed(c)]_vars
  BY DEF Saves
<1>. QED
  BY <1>2, <1>3, FreshCorrections, PTL DEF Spec, NoStaleSave, PostedCorrectionUnchanged

-----------------------------------------------------------------------------
(* Calls one at a time *)

LEMMA StartAlone == Init => OneAtATimeInv
<1> SUFFICES ASSUME Init PROVE OneAtATimeInv
  OBVIOUS
<1>1. \A c \in Clients : client[c].op = "none"
  BY DEF Init, Idle
<1>. QED
  BY <1>1, FreshStart DEF OneAtATimeInv, StillAllowed

(* What a call that reads has checked of the document.                     *)
Checked(op, doc, data) ==
  /\ op = "updateAdjustment" => adjustments[doc].status = "draft"
  /\ op = "adjustmentStatus" => May(adjustments[doc].status, data)
  /\ op = "updateCount" => counts[doc].status = "draft"
  /\ op = "submitCount" => /\ May(counts[doc].status, "submitted")
                           /\ data = Variance(counts[doc].lines)
  /\ op = "countStatus" => May(counts[doc].status, data)

LEMMA AllowedWhenRead ==
  ASSUME IInv, NEW c \in Clients, UNCHANGED <<adjustments, counts>>, NEW op, NEW doc, NEW data,
         Read(c, op, doc, data), Checked(op, doc, data)
  PROVE  StillAllowed(c)'
<1>1. client'[c] = [op |-> op, doc |-> doc, data |-> data]
  BY DEF IInv, Read
<1>2. client'[c].op = op /\ client'[c].doc = doc /\ client'[c].data = data
  BY <1>1
<1>3. Variance(counts[doc].lines)' = Variance(counts[doc].lines)
  OBVIOUS
<1>. QED
  BY <1>2, <1>3 DEF StillAllowed, Checked

LEMMA ReadsAllow ==
  ASSUME IInv, NEW c \in Clients
  PROVE  /\ \A a, input : ReadUpdateAdjustment(c, a, input) => StillAllowed(c)'
         /\ \A a, to : ReadAdjustmentStatus(c, a, to) => StillAllowed(c)'
         /\ \A k, n, q : ReadUpdateCount(c, k, n, q) => StillAllowed(c)'
         /\ \A k : ReadSubmitCount(c, k) => StillAllowed(c)'
         /\ \A k, to : ReadCountStatus(c, k, to) => StillAllowed(c)'
         /\ \A rows : BeginCount(c, rows) => StillAllowed(c)'
<1>1. ASSUME NEW a, NEW input, ReadUpdateAdjustment(c, a, input)
      PROVE  StillAllowed(c)'
  <2>1. PICK data : Read(c, "updateAdjustment", a, data)
    BY <1>1 DEF ReadUpdateAdjustment
  <2>2. UNCHANGED <<adjustments, counts>> /\ Checked("updateAdjustment", a, data)
    BY <1>1 DEF ReadUpdateAdjustment, Checked
  <2>. QED
    BY <2>1, <2>2, AllowedWhenRead
<1>2. ASSUME NEW a, NEW to, ReadAdjustmentStatus(c, a, to)
      PROVE  StillAllowed(c)'
  <2>1. Read(c, "adjustmentStatus", a, to)
    BY <1>2 DEF ReadAdjustmentStatus
  <2>2. UNCHANGED <<adjustments, counts>> /\ Checked("adjustmentStatus", a, to)
    BY <1>2 DEF ReadAdjustmentStatus, Checked
  <2>. QED
    BY <2>1, <2>2, AllowedWhenRead
<1>3. ASSUME NEW k, NEW n, NEW q, ReadUpdateCount(c, k, n, q)
      PROVE  StillAllowed(c)'
  <2>1. PICK data : Read(c, "updateCount", k, data)
    BY <1>3 DEF ReadUpdateCount
  <2>2. UNCHANGED <<adjustments, counts>> /\ Checked("updateCount", k, data)
    BY <1>3 DEF ReadUpdateCount, Checked
  <2>. QED
    BY <2>1, <2>2, AllowedWhenRead
<1>4. ASSUME NEW k, ReadSubmitCount(c, k)
      PROVE  StillAllowed(c)'
  <2>1. PICK data : data = Variance(counts[k].lines)
    OBVIOUS
  <2>2. UNCHANGED <<adjustments, counts>> /\ Read(c, "submitCount", k, data)
    BY <1>4, <2>1 DEF ReadSubmitCount
  <2>3. Checked("submitCount", k, data)
    BY <1>4, <2>1 DEF ReadSubmitCount, Checked
  <2>. QED
    BY <2>2, <2>3, AllowedWhenRead
<1>5. ASSUME NEW k, NEW to, ReadCountStatus(c, k, to)
      PROVE  StillAllowed(c)'
  <2>1. Read(c, "countStatus", k, to)
    BY <1>5 DEF ReadCountStatus
  <2>2. UNCHANGED <<adjustments, counts>> /\ Checked("countStatus", k, to)
    BY <1>5 DEF ReadCountStatus, Checked
  <2>. QED
    BY <2>1, <2>2, AllowedWhenRead
<1>6. ASSUME NEW rows, BeginCount(c, rows)
      PROVE  StillAllowed(c)'
  <2>1. PICK data : Read(c, "createCount", 0, data)
    BY <1>6 DEF BeginCount
  <2>2. UNCHANGED <<adjustments, counts>> /\ Checked("createCount", 0, data)
    BY <1>6 DEF BeginCount, Checked
  <2>. QED
    BY <2>1, <2>2, AllowedWhenRead
<1>. QED
  BY <1>1, <1>2, <1>3, <1>4, <1>5, <1>6

LEMMA IdleAllows ==
  ASSUME IInv, NEW c \in Clients, client' = [client EXCEPT ![c] = Idle]
  PROVE  StillAllowed(c)'
BY DEF IInv, Idle, StillAllowed

LEMMA AllowedAfter ==
  ASSUME IInv, NEW c \in Clients, AdjustmentStep(c) \/ CountStep(c)
  PROVE  StillAllowed(c)'
<1>1. ASSUME client[c].op = "none", UNCHANGED client
      PROVE  StillAllowed(c)'
  BY <1>1 DEF StillAllowed
<1>2. ASSUME SnapshotRow(c)
      PROVE  StillAllowed(c)'
  <2>1. client[c].op = "createCount" /\ client'[c].op = client[c].op
    BY <1>2 DEF SnapshotRow, IInv
  <2>. QED
    BY <2>1 DEF StillAllowed
<1>3. CASE AdjustmentStep(c)
  <2>1. \A input : CreateAdjustment(c, input) => StillAllowed(c)'
    BY <1>1 DEF CreateAdjustment, InOneTransaction
  <2>2. \A a : PostAdjustment(c, a) => StillAllowed(c)'
    BY <1>1 DEF PostAdjustment, InOneTransaction
  <2>3. \A a : ReverseAdjustment(c, a) => StillAllowed(c)'
    BY <1>1 DEF ReverseAdjustment, InOneTransaction
  <2>4. SaveUpdateAdjustment(c) => StillAllowed(c)'
    BY IdleAllows DEF SaveUpdateAdjustment, Saving
  <2>5. SaveAdjustmentStatus(c) => StillAllowed(c)'
    BY IdleAllows DEF SaveAdjustmentStatus, Saving
  <2>. QED
    BY <1>3, <2>1, <2>2, <2>3, <2>4, <2>5, ReadsAllow DEF AdjustmentStep
<1>4. CASE CountStep(c)
  <2>1. SaveCreateCount(c) => StillAllowed(c)'
    BY IdleAllows DEF SaveCreateCount, Saving
  <2>2. ASSUME SaveUpdateCount(c)
        PROVE  StillAllowed(c)'
    <3>1. client' = [client EXCEPT ![c] = Idle]
      BY <2>2 DEF SaveUpdateCount, Saving
    <3>. QED
      BY <3>1, IdleAllows
  <2>3. SaveSubmitCount(c) => StillAllowed(c)'
    BY IdleAllows DEF SaveSubmitCount, Saving
  <2>4. SaveCountStatus(c) => StillAllowed(c)'
    BY IdleAllows DEF SaveCountStatus, Saving
  <2>5. \A k : PostCount(c, k) => StillAllowed(c)'
    BY <1>1 DEF PostCount, InOneTransaction
  <2>6. \A k : ReverseCount(c, k) => StillAllowed(c)'
    BY <1>1 DEF ReverseCount, InOneTransaction
  <2>. QED
    BY <1>2, <1>4, <2>1, <2>2, <2>3, <2>4, <2>5, <2>6, ReadsAllow DEF CountStep
<1>. QED
  BY <1>3, <1>4

LEMMA AllowedStill ==
  ASSUME NEW c, StillAllowed(c), UNCHANGED <<adjustments, counts, client>>
  PROVE  StillAllowed(c)'
BY DEF StillAllowed

LEMMA StepAlone ==
  ASSUME OneAtATime, OneAtATimeInv, [Next]_vars
  PROVE  OneAtATimeInv'
<1>1. IInv /\ FreshInv /\ \A c \in Clients : StillAllowed(c)
  BY DEF OneAtATimeInv, FreshInv
<1>2. FreshInv'
  <2>1. [\A c \in Clients : Saves(c) => StillAllowed(c)]_vars
    BY <1>1
  <2>. QED
    BY <1>1, <2>1, FreshStep
<1>3. ASSUME NEW c \in Clients
      PROVE  StillAllowed(c)'
  <2>1. ASSUME NEW d \in Clients, AdjustmentStep(d) \/ CountStep(d)
        PROVE  StillAllowed(c)'
    <3>1. c = d
      BY DEF OneAtATime
    <3>. QED
      BY <1>1, <2>1, <3>1, AllowedAfter
  <2>2. ASSUME NEW b \in Rows, NEW delta \in Deltas, OtherPosting(b, delta)
        PROVE  StillAllowed(c)'
    <3>1. UNCHANGED <<adjustments, counts, client>>
      BY <2>2 DEF OtherPosting
    <3>. QED
      BY <1>1, <3>1, AllowedStill
  <2>3. CASE UNCHANGED vars
    <3>1. UNCHANGED <<adjustments, counts, client>>
      BY <2>3 DEF vars
    <3>. QED
      BY <1>1, <3>1, AllowedStill
  <2>. QED
    BY <2>1, <2>2, <2>3 DEF Next
<1>. QED
  BY <1>2, <1>3 DEF OneAtATimeInv

(* When calls come one at a time no save is stale, whatever else is posted *)
(* meanwhile: the theorems above hold of every behaviour.                  *)
THEOREM NoneIsStaleAlone == ASSUME OneAtATime PROVE Spec => NoStaleSave
<1>1. Init => OneAtATimeInv
  BY StartAlone
<1>2. OneAtATimeInv /\ [Next]_vars => OneAtATimeInv'
  BY StepAlone
<1>3. OneAtATimeInv => [\A c \in Clients : client[c].op # "none" /\ client'[c].op = "none"
                                               => StillAllowed(c)]_vars
  BY DEF OneAtATimeInv
<1>. QED
  BY <1>1, <1>2, <1>3, PTL DEF Spec, NoStaleSave

(* When calls come one at a time, the rows and quantities of what is       *)
(* posted never change: the reversal is a document of its own.             *)
THEOREM PostedStays == ASSUME OneAtATime PROVE Spec => PostedCorrectionUnchanged
BY FreshPostedStays, NoneIsStaleAlone, PTL
=============================================================================
