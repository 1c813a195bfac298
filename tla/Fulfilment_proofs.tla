------------------------- MODULE Fulfilment_proofs -------------------------
(***************************************************************************)
(* Theorems about requests, issues and returns, and about the greedy loop  *)
(* and the allocation of lots that they use.                               *)
(***************************************************************************)
EXTENDS Fulfilment, MCLotAllocation, Sums, TLAPS

-----------------------------------------------------------------------------
(* Loops over the positions of a sequence, as folds compute them: what the *)
(* last position of a set of positions does comes on top of the others.    *)

(* A nonempty set of positions has a last one. *)
LEMMA LastExists ==
    ASSUME NEW S, IsFiniteSet(S), \A x \in S : x \in Int
    PROVE  \A T \in SUBSET S : T # {} => Max(T) \in T /\ \A y \in T : y <= Max(T)
<1> DEFINE HasLast(T) == \E x \in T : \A y \in T : y <= x
           Bad == {T \in SUBSET S : T # {} /\ ~HasLast(T)}
<1>1. Bad = {}
  <2> SUFFICES ASSUME Bad # {} PROVE FALSE
    OBVIOUS
  <2>1. PICK T \in Bad : \A U \in Bad : ~(U \subseteq T /\ U # T)
    <3>1. Bad \in SUBSET SUBSET S
      OBVIOUS
    <3>. HIDE DEF Bad
    <3>. QED BY <3>1, MinimalSubset
  <2>2. PICK z \in T : TRUE
    BY <2>1
  <2>3. T \subseteq Int
    BY <2>1
  <2>4. CASE T \ {z} = {}
    <3>1. HasLast(T)
      BY <2>2, <2>3, <2>4
    <3>. QED BY <3>1, <2>1
  <2>5. CASE T \ {z} # {}
    <3>1. HasLast(T \ {z})
      <4>1. T \ {z} \notin Bad /\ T \ {z} \in SUBSET S
        BY <2>1, <2>2
      <4>. HIDE DEF HasLast
      <4>. QED BY <4>1, <2>5
    <3>2. PICK m \in T \ {z} : \A y \in T \ {z} : y <= m
      BY <3>1
    <3>3. m \in Int /\ z \in Int /\ (m <= z => \A y \in T : y <= z)
                            /\ (z <= m => \A y \in T : y <= m)
      BY <3>2, <2>2, <2>3
    <3>4. HasLast(T)
      BY <3>2, <3>3, <2>2
    <3>. QED BY <3>4, <2>1
  <2>. QED BY <2>4, <2>5
<1>2. ASSUME NEW T \in SUBSET S, T # {}
      PROVE  Max(T) \in T /\ \A y \in T : y <= Max(T)
  <2>1. HasLast(T)
    BY <1>1, <1>2
  <2>2. \E x \in T : \A y \in T : x >= y
    BY <2>1, <1>2
  <2>3. Max(T) \in T /\ \A y \in T : Max(T) >= y
    BY <2>2 DEF Max
  <2>. QED BY <2>3, <1>2
<1>. QED BY <1>2

(* g[T] is what the loop comes to over the positions in T. *)
LoopBody(base, step, S, g) ==
    [T \in SUBSET S |-> IF T = {} THEN base ELSE step[Max(T)][g[T \ {Max(T)}]]]

IsLoop(base, step, S, g) == g = LoopBody(base, step, S, g)

(* A loop over finitely many positions comes to a result: the one over the *)
(* last position is built on the one over those before it.                 *)
LEMMA LoopExists ==
    ASSUME NEW S, IsFiniteSet(S), \A x \in S : x \in Int, NEW base, NEW step
    PROVE  \E g : IsLoop(base, step, S, g)
<1> DEFINE Bad == {T \in SUBSET S : ~ \E g : IsLoop(base, step, T, g)}
<1> SUFFICES ASSUME Bad # {} PROVE FALSE
    OBVIOUS
<1>1. PICK T \in Bad : \A U \in Bad : ~(U \subseteq T /\ U # T)
  <2>1. Bad \in SUBSET SUBSET S
    OBVIOUS
  <2>. HIDE DEF Bad
  <2>. QED BY <2>1, MinimalSubset
<1>2. CASE T = {}
  <2> DEFINE g == [U \in SUBSET {} |-> base]
  <2>1. IsLoop(base, step, {}, g)
    BY DEF IsLoop, LoopBody
  <2>. QED BY <2>1, <1>1, <1>2
<1>3. CASE T # {}
  <2> DEFINE x == Max(T)
             V == T \ {x}
  <2>1. x \in T /\ \A y \in T : y <= x
    BY <1>1, <1>3, LastExists
  <2>2. PICK g : IsLoop(base, step, V, g)
    BY <1>1, <2>1
  <2> DEFINE h == [U \in SUBSET T |-> IF x \in U THEN step[x][g[U \ {x}]] ELSE g[U]]
  <2>3. ASSUME NEW U \in SUBSET T
        PROVE  h[U] = IF U = {} THEN base ELSE step[Max(U)][h[U \ {Max(U)}]]
    <3>1. CASE U = {}
      <4>1. g[{}] = base
        BY <2>2 DEF IsLoop, LoopBody
      <4>. QED BY <4>1, <3>1
    <3>2. CASE U # {}
      <4>1. Max(U) \in U /\ \A y \in U : y <= Max(U)
        BY <3>2, <1>1, LastExists
      <4>2. CASE x \in U
        <5>1. Max(U) = x
          <6>1. x <= Max(U) /\ Max(U) <= x /\ x \in Int /\ Max(U) \in Int
            BY <4>1, <4>2, <2>1, <1>1
          <6>. HIDE DEF x
          <6>. QED BY <6>1
        <5>2. h[U] = step[x][g[U \ {x}]] /\ h[U \ {x}] = g[U \ {x}]
          BY <4>2
        <5>. QED BY <5>1, <5>2, <3>2
      <4>3. CASE x \notin U
        <5>1. U \in SUBSET V
          BY <4>3
        <5>2. g[U] = step[Max(U)][g[U \ {Max(U)}]]
          <6>. HIDE DEF V, x
          <6>. QED BY <2>2, <3>2, <5>1 DEF IsLoop, LoopBody
        <5>3. h[U] = g[U] /\ h[U \ {Max(U)}] = g[U \ {Max(U)}]
          BY <4>3
        <5>. QED BY <5>2, <5>3, <3>2
      <4>. QED BY <4>2, <4>3
    <3>. QED BY <3>1, <3>2
  <2>4. h = [U \in SUBSET T |-> h[U]]
    OBVIOUS
  <2>5. IsLoop(base, step, T, h)
    <3>. HIDE DEF h
    <3>. QED BY <2>3, <2>4 DEF IsLoop, LoopBody
  <2>. QED BY <2>5, <1>1
<1>. QED BY <1>2, <1>3

(* A loop stays within a set that every step stays within. *)
LEMMA LoopStays ==
    ASSUME NEW S, IsFiniteSet(S), \A x \in S : x \in Int, NEW base, NEW step, NEW g,
           IsLoop(base, step, S, g), NEW Acc, base \in Acc,
           \A x \in S : \A acc \in Acc : step[x][acc] \in Acc
    PROVE  \A T \in SUBSET S : g[T] \in Acc
<1> DEFINE Bad == {T \in SUBSET S : g[T] \notin Acc}
<1> SUFFICES ASSUME Bad # {} PROVE FALSE
    OBVIOUS
<1>1. PICK T \in Bad : \A U \in Bad : ~(U \subseteq T /\ U # T)
  <2>1. Bad \in SUBSET SUBSET S
    OBVIOUS
  <2>. HIDE DEF Bad
  <2>. QED BY <2>1, MinimalSubset
<1>2. T # {}
  <2>1. g[{}] = base
    BY DEF IsLoop, LoopBody
  <2>. QED BY <2>1, <1>1
<1>3. Max(T) \in T
  BY <1>1, <1>2, LastExists
<1>4. g[T \ {Max(T)}] \in Acc
  BY <1>1, <1>3
<1>5. g[T] = step[Max(T)][g[T \ {Max(T)}]]
  BY <1>1, <1>2 DEF IsLoop, LoopBody
<1>. QED BY <1>1, <1>3, <1>4, <1>5

-----------------------------------------------------------------------------
(* The loop that takes what each row can give *)

LEMMA MinOfTwo ==
    ASSUME NEW a \in Int, NEW b \in Int
    PROVE  Min({a, b}) = IF a <= b THEN a ELSE b
<1>1. \E x \in {a, b} : \A y \in {a, b} : x =< y
  OBVIOUS
<1>2. Min({a, b}) \in {a, b} /\ \A y \in {a, b} : Min({a, b}) =< y
  BY <1>1 DEF Min
<1>. QED BY <1>2

LEMMA MaxOfTwo ==
    ASSUME NEW a \in Int, NEW b \in Int
    PROVE  Max({a, b}) = IF a <= b THEN b ELSE a
<1>1. \E x \in {a, b} : \A y \in {a, b} : x >= y
  OBVIOUS
<1>2. Max({a, b}) \in {a, b} /\ \A y \in {a, b} : Max({a, b}) >= y
  BY <1>1 DEF Max
<1>. QED BY <1>2

SpreadStart(capacity, wanted) ==
    [taken |-> [row \in DOMAIN capacity |-> 0], left |-> wanted]

SpreadStep(capacity, acc, row) ==
    LET take == Min({capacity[row], acc.left})
    IN  IF take <= 0 THEN acc
        ELSE [taken |-> [acc.taken EXCEPT ![row] = take], left |-> acc.left - take]

(* g[T]: what was taken from the rows at the positions in T. *)
IsSpread(order, capacity, wanted, g) ==
    g = [T \in SUBSET DOMAIN order |->
            IF T = {} THEN SpreadStart(capacity, wanted)
            ELSE SpreadStep(capacity, g[T \ {Max(T)}], order[Max(T)])]

(* What Spread is applied to: every row once, and what it can give. *)
Spreads(order, capacity, wanted) ==
    /\ IsFiniteSet(DOMAIN capacity)
    /\ \A row \in DOMAIN capacity : capacity[row] \in Int
    /\ IsFiniteSet(DOMAIN order)
    /\ \A n \in DOMAIN order : n \in Int /\ order[n] \in DOMAIN capacity
    /\ \A m, n \in DOMAIN order : order[m] = order[n] => m = n
    /\ wanted \in Nat

SpreadAcc(capacity) == [taken : [DOMAIN capacity -> Int], left : Int]

(* Spread is the last value of such a function. *)
LEMMA SpreadIsLoop ==
    ASSUME NEW order, NEW capacity, NEW wanted
    PROVE  Spread(order, capacity, wanted)
             = (CHOOSE g : IsSpread(order, capacity, wanted, g))[DOMAIN order]
BY DEF Spread, FoldLeft, MapThenFoldSet, IsSpread, SpreadStart, SpreadStep

LEMMA SpreadStepType ==
    ASSUME NEW capacity, \A row \in DOMAIN capacity : capacity[row] \in Int,
           NEW acc \in SpreadAcc(capacity), NEW row \in DOMAIN capacity
    PROVE  SpreadStep(capacity, acc, row) \in SpreadAcc(capacity)
<1> DEFINE take == Min({capacity[row], acc.left})
<1>1. acc.left \in Int /\ acc.taken \in [DOMAIN capacity -> Int] /\ capacity[row] \in Int
  BY DEF SpreadAcc
<1>2. take \in Int
  BY <1>1, MinOfTwo
<1>. HIDE DEF take
<1>3. [acc.taken EXCEPT ![row] = take] \in [DOMAIN capacity -> Int]
  BY <1>1, <1>2
<1>4. [taken |-> [acc.taken EXCEPT ![row] = take], left |-> acc.left - take]
        \in SpreadAcc(capacity)
  BY <1>1, <1>2, <1>3 DEF SpreadAcc
<1>5. SpreadStep(capacity, acc, row)
        = IF take <= 0 THEN acc
          ELSE [taken |-> [acc.taken EXCEPT ![row] = take], left |-> acc.left - take]
  BY DEF SpreadStep, take
<1>. QED BY <1>4, <1>5

LEMMA SpreadLoopExists ==
    ASSUME NEW order, NEW capacity, NEW wanted, Spreads(order, capacity, wanted)
    PROVE  \E g : IsSpread(order, capacity, wanted, g)
<1> DEFINE S == DOMAIN order
           Acc == SpreadAcc(capacity)
           base == SpreadStart(capacity, wanted)
           step == [n \in S |-> [acc \in Acc |-> SpreadStep(capacity, acc, order[n])]]
<1>1. IsFiniteSet(S) /\ \A x \in S : x \in Int
  BY DEF Spreads
<1>2. base \in Acc
  BY DEF SpreadStart, SpreadAcc, Spreads
<1>3. \A n \in S : \A acc \in Acc :
         step[n][acc] = SpreadStep(capacity, acc, order[n]) /\ step[n][acc] \in Acc
  <2>. HIDE DEF Acc
  <2>1. ASSUME NEW n \in S, NEW acc \in Acc
        PROVE  SpreadStep(capacity, acc, order[n]) \in Acc
    BY SpreadStepType DEF Acc, Spreads
  <2>. QED BY <2>1
<1>. HIDE DEF step, base, Acc
<1>4. PICK g : IsLoop(base, step, S, g)
  <2>. HIDE DEF S
  <2>. QED BY <1>1, LoopExists
<1>5. \A T \in SUBSET S : g[T] \in Acc
  <2>1. \A x \in S : \A acc \in Acc : step[x][acc] \in Acc
    BY <1>3
  <2>. HIDE DEF S
  <2>. QED BY <1>1, <1>2, <1>4, <2>1, LoopStays
<1>6. ASSUME NEW T \in SUBSET S, T # {}
      PROVE  step[Max(T)][g[T \ {Max(T)}]] = SpreadStep(capacity, g[T \ {Max(T)}], order[Max(T)])
  <2>1. Max(T) \in S
    BY <1>1, <1>6, LastExists
  <2>2. g[T \ {Max(T)}] \in Acc
    BY <1>5
  <2>. QED BY <1>3, <2>1, <2>2
<1>7. IsSpread(order, capacity, wanted, g)
  BY <1>4, <1>6 DEF IsLoop, LoopBody, IsSpread, base
<1>. QED BY <1>7

(* What the loop has come to when it has visited the positions in T. *)
Spreading(order, capacity, wanted, T, acc) ==
    /\ acc.taken \in [DOMAIN capacity -> Nat] /\ acc.left \in Nat
    /\ \A row \in DOMAIN capacity : acc.taken[row] > 0 =>
          acc.taken[row] <= capacity[row] /\ \E n \in T : order[n] = row
    /\ acc.left + SumFunctionOnSet(acc.taken, DOMAIN capacity) = wanted
    /\ acc.left > 0 => \A n \in T :
          capacity[order[n]] > 0 => acc.taken[order[n]] = capacity[order[n]]
    /\ \A m, n \in T : m < n /\ acc.taken[order[n]] > 0 /\ capacity[order[m]] > 0
          => acc.taken[order[m]] = capacity[order[m]]

(* A row that can give nothing, or of which nothing is wanted, is left.    *)
LEMMA SpreadSkips ==
    ASSUME NEW order, NEW capacity, NEW wanted, Spreads(order, capacity, wanted),
           NEW V \in SUBSET DOMAIN order, NEW x \in DOMAIN order, \A y \in V : y < x,
           NEW acc, Spreading(order, capacity, wanted, V, acc),
           capacity[order[x]] <= 0 \/ acc.left <= 0
    PROVE  Spreading(order, capacity, wanted, V \cup {x}, acc)
<1> DEFINE T == V \cup {x}
           taken == acc.taken
<1>1. /\ taken \in [DOMAIN capacity -> Nat] /\ acc.left \in Nat
      /\ order[x] \in DOMAIN capacity /\ capacity[order[x]] \in Int /\ x \in Int
  BY DEF Spreads, Spreading
<1>2. taken[order[x]] = 0
  <2>1. x \notin V
    BY <1>1
  <2>2. \A n \in V : order[n] # order[x]
    BY <2>1 DEF Spreads
  <2>3. ~(taken[order[x]] > 0)
    BY <1>1, <2>2 DEF Spreading
  <2>. QED BY <1>1, <2>3
<1>3. \A row \in DOMAIN capacity : taken[row] > 0 =>
         taken[row] <= capacity[row] /\ \E n \in T : order[n] = row
  BY DEF Spreading
<1>4. acc.left > 0 => \A n \in T :
         capacity[order[n]] > 0 => taken[order[n]] = capacity[order[n]]
  BY <1>1 DEF Spreading
<1>5. ASSUME NEW m \in T, NEW n \in T, m < n, taken[order[n]] > 0, capacity[order[m]] > 0
      PROVE  taken[order[m]] = capacity[order[m]]
  <2>1. n \in V
    BY <1>2, <1>5
  <2>2. m \in V
    BY <2>1, <1>1, <1>5 DEF Spreads
  <2>. QED BY <2>1, <2>2, <1>5 DEF Spreading
<1>. QED BY <1>1, <1>3, <1>4, <1>5 DEF Spreading

(* A row that has something gives it, up to what is left to take.          *)
LEMMA SpreadTakes ==
    ASSUME NEW order, NEW capacity, NEW wanted, Spreads(order, capacity, wanted),
           NEW V \in SUBSET DOMAIN order, NEW x \in DOMAIN order, \A y \in V : y < x,
           NEW acc, Spreading(order, capacity, wanted, V, acc),
           NEW take \in Nat, take > 0, take <= capacity[order[x]], take <= acc.left,
           take = capacity[order[x]] \/ take = acc.left
    PROVE  Spreading(order, capacity, wanted, V \cup {x},
                     [taken |-> [acc.taken EXCEPT ![order[x]] = take],
                      left  |-> acc.left - take])
<1> DEFINE T == V \cup {x}
           taken == acc.taken
           R == DOMAIN capacity
<1> PICK row : row = order[x]
  OBVIOUS
<1> PICK new : new = [taken EXCEPT ![row] = take]
  OBVIOUS
<1> PICK left : left = acc.left - take
  OBVIOUS
<1>1. /\ taken \in [R -> Nat] /\ acc.left \in Nat
      /\ row \in R /\ capacity[row] \in Int /\ x \in Int
  BY DEF Spreads, Spreading
<1>2. x \notin V /\ \A n \in V : order[n] # row
  <2>1. x \notin V
    BY <1>1
  <2>. QED BY <2>1 DEF Spreads
<1>3. taken[row] = 0
  <2>1. ~(taken[row] > 0)
    BY <1>1, <1>2 DEF Spreading
  <2>. QED BY <1>1, <2>1
<1>4. /\ new \in [R -> Nat] /\ left \in Nat
      /\ new[row] = take /\ \A r \in R \ {row} : new[r] = taken[r]
  BY <1>1
<1>5. \A r \in R : new[r] > 0 => new[r] <= capacity[r] /\ \E n \in T : order[n] = r
  <2>1. \A r \in R \ {row} : new[r] > 0 => new[r] <= capacity[r] /\ \E n \in T : order[n] = r
    BY <1>4 DEF Spreading
  <2>. QED BY <2>1, <1>4
<1>6. left + SumFunctionOnSet(new, R) = wanted
  <2>1. IsFiniteSet(R) /\ \A r \in R : taken[r] \in Int /\ new[r] \in Int
    BY <1>1, <1>4 DEF Spreads
  <2> DEFINE old == SumFunctionOnSet(taken, R)
  <2>2. SumFunctionOnSet(new, R) = old - taken[row] + new[row]
    <3>1. row \in R /\ \A r \in R \ {row} : new[r] = taken[r]
      BY <1>1, <1>4
    <3>. HIDE DEF R, taken
    <3>2. SumFunctionOnSet(new, R) = SumFunctionOnSet(taken, R) - taken[row] + new[row]
      BY ONLY <2>1, <3>1, SumChange
    <3>. QED BY <3>2
  <2>3. acc.left + old = wanted /\ old \in Int
    BY <2>1, SumType DEF Spreading
  <2>. HIDE DEF old
  <2>. QED BY <2>2, <2>3, <1>1, <1>3, <1>4
<1>7. \A n \in V : new[order[n]] = taken[order[n]] /\ order[n] \in R
  BY <1>2, <1>4 DEF Spreads
<1>8. acc.left > 0 => \A n \in V :
         capacity[order[n]] > 0 => taken[order[n]] = capacity[order[n]]
  BY DEF Spreading
<1>9. left > 0 => \A n \in T :
         capacity[order[n]] > 0 => new[order[n]] = capacity[order[n]]
  BY <1>1, <1>4, <1>7, <1>8
<1>10. ASSUME NEW m \in T, NEW n \in T, m < n, new[order[n]] > 0, capacity[order[m]] > 0
       PROVE  new[order[m]] = capacity[order[m]]
  <2>1. m \in V
    BY <1>10, <1>1 DEF Spreads
  <2>2. CASE n \in V
    BY <2>1, <2>2, <1>7, <1>10 DEF Spreading
  <2>3. CASE n = x
    BY <2>1, <1>1, <1>7, <1>8, <1>10
  <2>. QED BY <2>2, <2>3
<1>11. Spreading(order, capacity, wanted, T, [taken |-> new, left |-> left])
  BY <1>4, <1>5, <1>6, <1>9, <1>10 DEF Spreading
<1>. QED BY <1>11

LEMMA SpreadingStep ==
    ASSUME NEW order, NEW capacity, NEW wanted, Spreads(order, capacity, wanted),
           NEW V \in SUBSET DOMAIN order, NEW x \in DOMAIN order, \A y \in V : y < x,
           NEW acc, Spreading(order, capacity, wanted, V, acc)
    PROVE  Spreading(order, capacity, wanted, V \cup {x}, SpreadStep(capacity, acc, order[x]))
<1> PICK take : take = Min({capacity[order[x]], acc.left})
  OBVIOUS
<1>1. capacity[order[x]] \in Int /\ acc.left \in Nat
  BY DEF Spreads, Spreading
<1>2. take = IF capacity[order[x]] <= acc.left THEN capacity[order[x]] ELSE acc.left
  BY <1>1, MinOfTwo
<1>3. SpreadStep(capacity, acc, order[x])
        = IF take <= 0 THEN acc
          ELSE [taken |-> [acc.taken EXCEPT ![order[x]] = take], left |-> acc.left - take]
  BY DEF SpreadStep
<1>4. CASE take <= 0
  <2>1. capacity[order[x]] <= 0 \/ acc.left <= 0
    BY <1>1, <1>2, <1>4
  <2>. QED BY <2>1, <1>3, <1>4, SpreadSkips
<1>5. CASE ~(take <= 0)
  <2>1. /\ take \in Nat /\ take > 0 /\ take <= capacity[order[x]] /\ take <= acc.left
        /\ take = capacity[order[x]] \/ take = acc.left
    BY <1>1, <1>2, <1>5
  <2>2. Spreading(order, capacity, wanted, V \cup {x},
                  [taken |-> [acc.taken EXCEPT ![order[x]] = take], left |-> acc.left - take])
    BY <2>1, SpreadTakes
  <2>. QED BY <2>2, <1>3, <1>5
<1>. QED BY <1>4, <1>5

(* The whole loop: nothing is made or lost, no row gives more than it can, *)
(* something is left only when every row has given all it can, and a row   *)
(* gives only when all before it have.                                     *)
LEMMA SpreadResult ==
    ASSUME NEW order, NEW capacity, NEW wanted, Spreads(order, capacity, wanted)
    PROVE  Spreading(order, capacity, wanted, DOMAIN order, Spread(order, capacity, wanted))
<1> DEFINE S == DOMAIN order
           g == CHOOSE h : IsSpread(order, capacity, wanted, h)
           Bad == {T \in SUBSET S : ~Spreading(order, capacity, wanted, T, g[T])}
<1>1. IsSpread(order, capacity, wanted, g)
  BY SpreadLoopExists
<1>. HIDE DEF g
<1>2. IsFiniteSet(S) /\ \A n \in S : n \in Int
  BY DEF Spreads
<1>3. Bad = {}
  <2> SUFFICES ASSUME Bad # {} PROVE FALSE
    OBVIOUS
  <2>1. PICK T \in Bad : \A U \in Bad : ~(U \subseteq T /\ U # T)
    <3>1. Bad \in SUBSET SUBSET S
      OBVIOUS
    <3>. HIDE DEF Bad, S
    <3>. QED BY <3>1, <1>2, MinimalSubset
  <2>2. CASE T = {}
    <3>1. g[T] = SpreadStart(capacity, wanted)
      BY <1>1, <2>2 DEF IsSpread
    <3>2. SumFunctionOnSet([row \in DOMAIN capacity |-> 0], DOMAIN capacity) = 0
      BY SumZero DEF Spreads
    <3>3. Spreading(order, capacity, wanted, T, SpreadStart(capacity, wanted))
      BY <2>2, <3>2 DEF Spreading, SpreadStart, Spreads
    <3>. QED BY <3>1, <3>3, <2>1
  <2>3. CASE T # {}
    <3> DEFINE x == Max(T)
               V == T \ {x}
    <3>1. x \in T /\ \A y \in T : y <= x
      BY <2>1, <2>3, <1>2, LastExists
    <3>2. V \in SUBSET S /\ x \in S /\ \A y \in V : y < x
      <4>1. \A y \in V : y \in Int /\ x \in Int /\ y <= x /\ y # x
        BY <3>1, <2>1, <1>2
      <4>. HIDE DEF x
      <4>. QED BY <4>1, <3>1, <2>1
    <3>3. Spreading(order, capacity, wanted, V, g[V])
      BY <3>1, <2>1
    <3>4. g[T] = SpreadStep(capacity, g[V], order[x])
      BY <1>1, <2>1, <2>3 DEF IsSpread
    <3>5. V \cup {x} = T
      BY <3>1
    <3>. HIDE DEF x, V
    <3>6. Spreading(order, capacity, wanted, V \cup {x}, SpreadStep(capacity, g[V], order[x]))
      BY <3>2, <3>3, SpreadingStep
    <3>. QED BY <3>4, <3>5, <3>6, <2>1
  <2>. QED BY <2>2, <2>3
<1>4. Spread(order, capacity, wanted) = g[S]
  BY SpreadIsLoop DEF g
<1>. QED BY <1>3, <1>4

-----------------------------------------------------------------------------
(* The picking order of allocateLots *)

(* The rows of one product: each has an id of its own. *)
StockRows(rows) ==
    /\ IsFiniteSet(rows)
    /\ \A a \in rows : /\ a.id \in Int /\ a.available \in Int
                       /\ a.expiresAt \in Int /\ a.receivedAt \in Int
    /\ \A a, b \in rows : a.id = b.id => a = b

(* The comparator puts any two rows one way round, so that the allocation  *)
(* does not depend on the order in which the database returned the rows.   *)
THEOREM ComparatorIsTotalOrder ==
    ASSUME NEW rows, StockRows(rows), NEW method \in Methods
    PROVE  TotallyOrdered(rows, method)
<1>1. ASSUME NEW a \in rows, NEW b \in rows, a # b
      PROVE  Before(method, a, b) <=> ~Before(method, b, a)
  <2>1. a.id # b.id
    BY <1>1 DEF StockRows
  <2>. QED BY <2>1 DEF StockRows, Before, Methods, NoExpiry
<1>2. ASSUME NEW a \in rows, NEW b \in rows, NEW c \in rows,
             Before(method, a, b), Before(method, b, c)
      PROVE  Before(method, a, c)
  BY <1>2 DEF StockRows, Before, Methods, NoExpiry
<1>. QED BY <1>1, <1>2 DEF TotallyOrdered

LEMMA NotBeforeItself ==
    ASSUME NEW rows, StockRows(rows), NEW method \in Methods, NEW a \in rows
    PROVE  ~Before(method, a, a)
BY DEF StockRows, Before, Methods, NoExpiry

LastRow(T, method) == \E z \in T : \A y \in T : y # z => Before(method, y, z)

InOrder(order, T, method) ==
    /\ order \in [1..Cardinality(T) -> T]
    /\ \A m, n \in DOMAIN order : m < n => Before(method, order[m], order[n])

LEMMA LastRowExists ==
    ASSUME NEW rows, StockRows(rows), NEW method \in Methods
    PROVE  \A T \in SUBSET rows : T # {} => LastRow(T, method)
<1> DEFINE Bad == {T \in SUBSET rows : T # {} /\ ~LastRow(T, method)}
<1> SUFFICES ASSUME Bad # {} PROVE FALSE
  OBVIOUS
<1>1. PICK T \in Bad : \A U \in Bad : ~(U \subseteq T /\ U # T)
  <2>1. Bad \in SUBSET SUBSET rows /\ IsFiniteSet(rows)
    BY DEF StockRows
  <2>. HIDE DEF Bad
  <2>. QED BY <2>1, MinimalSubset
<1>2. PICK z \in T : TRUE
  BY <1>1
<1>3. CASE T \ {z} = {}
  <2>1. LastRow(T, method)
    BY <1>2, <1>3 DEF LastRow
  <2>. QED BY <2>1, <1>1
<1>4. CASE T \ {z} # {}
  <2>1. LastRow(T \ {z}, method)
    BY <1>1, <1>2, <1>4
  <2>2. PICK m \in T \ {z} : \A y \in T \ {z} : y # m => Before(method, y, m)
    BY <2>1 DEF LastRow
  <2>3. Before(method, m, z) \/ Before(method, z, m)
    BY <2>2, <1>1, <1>2, ComparatorIsTotalOrder DEF TotallyOrdered
  <2>4. ASSUME Before(method, m, z), NEW y \in T, y # z PROVE Before(method, y, z)
    BY <2>4, <2>2, <1>1, <1>2, ComparatorIsTotalOrder DEF TotallyOrdered
  <2>5. ASSUME Before(method, z, m), NEW y \in T, y # m PROVE Before(method, y, m)
    BY <2>5, <2>2, <1>1, <1>2
  <2>6. LastRow(T, method)
    BY <2>2, <2>3, <2>4, <2>5, <1>2 DEF LastRow
  <2>. QED BY <2>6, <1>1
<1>. QED BY <1>3, <1>4

(* Any set of rows can be sorted. *)
LEMMA OrderExists ==
    ASSUME NEW rows, StockRows(rows), NEW method \in Methods
    PROVE  \A T \in SUBSET rows : \E order : InOrder(order, T, method)
<1> DEFINE Bad == {T \in SUBSET rows : ~ \E order : InOrder(order, T, method)}
<1> SUFFICES ASSUME Bad # {} PROVE FALSE
  OBVIOUS
<1>1. PICK T \in Bad : \A U \in Bad : ~(U \subseteq T /\ U # T)
  <2>1. Bad \in SUBSET SUBSET rows /\ IsFiniteSet(rows)
    BY DEF StockRows
  <2>. HIDE DEF Bad
  <2>. QED BY <2>1, MinimalSubset
<1>2. CASE T = {}
  <2> DEFINE order == [n \in 1..0 |-> n]
  <2>1. InOrder(order, {}, method)
    <3>1. 1..Cardinality({}) = {} /\ 1..0 = {}
      BY FS_EmptySet
    <3>. QED BY <3>1 DEF InOrder
  <2>. QED BY <2>1, <1>1, <1>2
<1>3. CASE T # {}
  <2>1. LastRow(T, method)
    BY <1>1, <1>3, LastRowExists
  <2>2. PICK z \in T : \A y \in T : y # z => Before(method, y, z)
    BY <2>1 DEF LastRow
  <2> DEFINE U == T \ {z}
             k == Cardinality(U)
  <2>3. PICK o : InOrder(o, U, method)
    BY <1>1, <2>2
  <2>4. k \in Nat /\ Cardinality(T) = k + 1
    <3>1. IsFiniteSet(T)
      BY <1>1, FS_Subset DEF StockRows
    <3>2. Cardinality(U) = Cardinality(T) - 1 /\ IsFiniteSet(U)
      BY <3>1, <2>2, FS_RemoveElement
    <3>3. Cardinality(U) \in Nat /\ Cardinality(T) \in Nat
      BY <3>1, <3>2, FS_CardinalityType
    <3>. QED BY <3>2, <3>3
  <2> DEFINE order == [n \in 1..(k + 1) |-> IF n = k + 1 THEN z ELSE o[n]]
  <2>5. o \in [1..k -> U] /\ \A m, n \in 1..k : m < n => Before(method, o[m], o[n])
    BY <2>3 DEF InOrder
  <2>. HIDE DEF k
  <2>6. order \in [1..(k + 1) -> T]
    BY <2>2, <2>4, <2>5
  <2>7. ASSUME NEW m \in 1..(k + 1), NEW n \in 1..(k + 1), m < n
        PROVE  Before(method, order[m], order[n])
    <3>1. m \in 1..k /\ order[m] = o[m] /\ o[m] \in U
      BY <2>4, <2>5, <2>7
    <3>2. CASE n = k + 1
      BY <3>1, <3>2, <2>2, <2>4
    <3>3. CASE n # k + 1
      <4>1. n \in 1..k /\ order[n] = o[n]
        BY <3>3, <2>4, <2>7
      <4>. QED BY <4>1, <3>1, <2>5, <2>7
    <3>. QED BY <3>2, <3>3
  <2>8. InOrder(order, T, method)
    <3>1. DOMAIN order = 1..(k + 1)
      OBVIOUS
    <3>. HIDE DEF order
    <3>. QED BY <2>4, <2>6, <2>7, <3>1 DEF InOrder
  <2>. QED BY <2>8, <1>1
<1>. QED BY <1>2, <1>3

(* Sorted lists every row once, the earlier before the later. *)
LEMMA SortedRows ==
    ASSUME NEW rows, StockRows(rows), NEW method \in Methods
    PROVE  LET order == Sorted(rows, method)
           IN  /\ IsFiniteSet(DOMAIN order) /\ \A n \in DOMAIN order : n \in Int
               /\ \A n \in DOMAIN order : order[n] \in rows
               /\ \A m, n \in DOMAIN order : m < n => Before(method, order[m], order[n])
               /\ \A m, n \in DOMAIN order : order[m] = order[n] => m = n
               /\ \A row \in rows : \E n \in DOMAIN order : order[n] = row
<1> DEFINE order == Sorted(rows, method)
           k == Cardinality(rows)
<1>1. order \in [1..k -> rows] /\ \A m, n \in DOMAIN order : m < n => Before(method, order[m], order[n])
  <2>1. \E o \in [1..k -> rows] : \A m, n \in DOMAIN o : m < n => Before(method, o[m], o[n])
    BY OrderExists DEF InOrder
  <2>. QED BY <2>1 DEF Sorted
<1>2. k \in Nat /\ IsFiniteSet(1..k) /\ Cardinality(1..k) = k /\ IsFiniteSet(rows)
  <2>1. k \in Nat /\ IsFiniteSet(rows)
    BY FS_CardinalityType DEF StockRows
  <2>. HIDE DEF k
  <2>2. IsFiniteSet(1..k) /\ Cardinality(1..k) = IF 1 > k THEN 0 ELSE k - 1 + 1
    BY <2>1, FS_Interval
  <2>. QED BY <2>1, <2>2
<1>. HIDE DEF order
<1>3. ASSUME NEW m \in 1..k, NEW n \in 1..k, order[m] = order[n] PROVE m = n
  <2>1. ~(m < n) /\ ~(n < m)
    BY <1>1, <1>3, NotBeforeItself
  <2>. QED BY <2>1
<1>4. order \in Injection(1..k, rows)
  BY <1>1, <1>3 DEF Injection, IsInjective
<1>5. order \in Surjection(1..k, rows)
  BY <1>2, <1>4, FS_Injection
<1>6. \A row \in rows : \E n \in 1..k : order[n] = row
  BY <1>5 DEF Surjection
<1>7. DOMAIN order = 1..k
  BY <1>1
<1>. QED BY <1>1, <1>2, <1>3, <1>6, <1>7 DEF order

-----------------------------------------------------------------------------
(* What allocateLots computes, for every set of rows *)

Eligible(rows) == {row \in rows : row.available > 0}

(* The parts of an allocation: the order, what was taken from each row, and *)
(* what is left.                                                           *)
Allocates(result, rows, requested, method, order, taken, left) ==
    /\ IsFiniteSet(DOMAIN order)
    /\ \A n \in DOMAIN order : n \in Int /\ order[n] \in Eligible(rows)
    /\ \A m, n \in DOMAIN order : m < n => Before(method, order[m], order[n])
    /\ \A m, n \in DOMAIN order : order[m] = order[n] => m = n
    /\ \A row \in Eligible(rows) : \E n \in DOMAIN order : order[n] = row
    /\ taken \in [Eligible(rows) -> Nat] /\ left \in Nat
    /\ \A row \in Eligible(rows) : taken[row] <= row.available
    /\ left + SumFunctionOnSet(taken, Eligible(rows)) = requested
    /\ left > 0 => \A row \in Eligible(rows) : taken[row] = row.available
    /\ \A m, n \in DOMAIN order :
          m < n /\ taken[order[n]] > 0 => taken[order[m]] = order[m].available
    /\ result = [lines |-> [n \in {m \in DOMAIN order : taken[order[m]] > 0} |->
                               [row |-> order[n].id, quantity |-> taken[order[n]]]],
                 allocated |-> requested - left, shortfall |-> left]

LEMMA Allocation ==
    ASSUME NEW rows, StockRows(rows), NEW requested \in Nat, NEW method \in Methods
    PROVE  \E order, taken, left :
              Allocates(AllocateLots(rows, requested, method), rows, requested, method,
                        order, taken, left)
<1> DEFINE eligible == Eligible(rows)
           capacity == [row \in eligible |-> row.available]
           order == Sorted(eligible, method)
           result == Spread(order, capacity, requested)
<1>1. StockRows(eligible)
  BY FS_Subset DEF StockRows, Eligible
<1>2. /\ IsFiniteSet(DOMAIN order) /\ \A n \in DOMAIN order : n \in Int
      /\ \A n \in DOMAIN order : order[n] \in eligible
      /\ \A m, n \in DOMAIN order : m < n => Before(method, order[m], order[n])
      /\ \A m, n \in DOMAIN order : order[m] = order[n] => m = n
      /\ \A row \in eligible : \E n \in DOMAIN order : order[n] = row
  BY <1>1, SortedRows
<1>3. DOMAIN capacity = eligible /\ \A row \in eligible : capacity[row] = row.available
                                        /\ row.available \in Int /\ row.available > 0
  BY DEF Eligible, StockRows
<1>4. AllocateLots(rows, requested, method)
        = [lines |-> [n \in {m \in DOMAIN order : result.taken[order[m]] > 0} |->
                         [row |-> order[n].id, quantity |-> result.taken[order[n]]]],
           allocated |-> requested - result.left, shortfall |-> Max({0, result.left})]
  BY DEF AllocateLots, Eligible
<1>. HIDE DEF order, capacity, eligible
<1>5. Spreads(order, capacity, requested)
  BY <1>1, <1>2, <1>3 DEF Spreads, StockRows
<1>6. Spreading(order, capacity, requested, DOMAIN order, result)
  BY <1>5, SpreadResult
<1>. HIDE DEF result
<1> PICK taken, left : taken = result.taken /\ left = result.left
  OBVIOUS
<1>7. /\ taken \in [eligible -> Nat] /\ left \in Nat
      /\ \A row \in eligible : taken[row] > 0 => taken[row] <= row.available
      /\ left + SumFunctionOnSet(taken, eligible) = requested
      /\ left > 0 => \A n \in DOMAIN order :
            capacity[order[n]] > 0 => taken[order[n]] = capacity[order[n]]
      /\ \A m, n \in DOMAIN order : m < n /\ taken[order[n]] > 0 /\ capacity[order[m]] > 0
            => taken[order[m]] = capacity[order[m]]
  BY <1>3, <1>6 DEF Spreading
<1>8. \A row \in eligible : taken[row] <= row.available
  BY <1>3, <1>7
<1>9. left > 0 => \A row \in eligible : taken[row] = row.available
  BY <1>2, <1>3, <1>7
<1>10. \A m, n \in DOMAIN order :
          m < n /\ taken[order[n]] > 0 => taken[order[m]] = order[m].available
  BY <1>2, <1>3, <1>7
<1>11. Max({0, result.left}) = left
  BY <1>7, MaxOfTwo
<1>12. AllocateLots(rows, requested, method)
         = [lines |-> [n \in {m \in DOMAIN order : taken[order[m]] > 0} |->
                         [row |-> order[n].id, quantity |-> taken[order[n]]]],
            allocated |-> requested - left, shortfall |-> left]
  BY <1>4, <1>11
<1>13. Allocates(AllocateLots(rows, requested, method), rows, requested, method,
                 order, taken, left)
  BY <1>2, <1>7, <1>8, <1>9, <1>10, <1>12 DEF Allocates, eligible
<1>. QED BY <1>13

(* What the allocation takes from a row is what its lines say. *)
LEMMA AllocatedFromRow ==
    ASSUME NEW rows, StockRows(rows), NEW requested \in Nat, NEW method \in Methods,
           NEW result, NEW order, NEW taken, NEW left,
           Allocates(result, rows, requested, method, order, taken, left),
           NEW id
    PROVE  /\ \A row \in Eligible(rows) : row.id = id => Allocated(result, id) = taken[row]
           /\ (\A row \in Eligible(rows) : row.id # id) => Allocated(result, id) = 0
<1> DEFINE used == {m \in DOMAIN order : taken[order[m]] > 0}
           lines == {n \in used : order[n].id = id}
<1>1. /\ DOMAIN result.lines = used
      /\ \A n \in used : /\ result.lines[n].row = order[n].id
                         /\ result.lines[n].quantity = taken[order[n]]
  BY DEF Allocates
<1>2. {n \in DOMAIN result.lines : result.lines[n].row = id} = lines
  BY <1>1
<1>3. Allocated(result, id)
        = IF lines = {} THEN 0 ELSE result.lines[CHOOSE n \in lines : TRUE].quantity
  <2> DEFINE L == {n \in DOMAIN result.lines : result.lines[n].row = id}
  <2>1. Allocated(result, id)
          = IF L = {} THEN 0 ELSE result.lines[CHOOSE n \in L : TRUE].quantity
    BY Zenon DEF Allocated
  <2>2. L = lines
    BY <1>2
  <2>. HIDE DEF L, lines
  <2>. QED BY <2>1, <2>2
<1>4. \A n \in DOMAIN order : order[n] \in Eligible(rows)
  BY DEF Allocates
<1>5. ASSUME NEW row \in Eligible(rows), row.id = id
      PROVE  Allocated(result, id) = taken[row]
  <2>1. \A n \in lines : order[n] = row
    BY <1>4, <1>5 DEF StockRows, Eligible
  <2>2. CASE lines = {}
    <3>1. PICK n \in DOMAIN order : order[n] = row
      BY DEF Allocates
    <3>2. ~(taken[row] > 0)
      BY <3>1, <2>2, <1>5
    <3>3. taken[row] \in Nat
      BY DEF Allocates
    <3>. QED BY <3>2, <3>3, <2>2, <1>3
  <2>3. CASE lines # {}
    <3>1. PICK n \in lines : n = CHOOSE m \in lines : TRUE
      BY <2>3
    <3>2. result.lines[n].quantity = taken[row]
      BY <1>1, <2>1, <3>1
    <3>. QED BY <3>1, <3>2, <2>3, <1>3
  <2>. QED BY <2>2, <2>3
<1>6. ASSUME \A row \in Eligible(rows) : row.id # id
      PROVE  Allocated(result, id) = 0
  <2>1. lines = {}
    BY <1>4, <1>6
  <2>. QED BY <2>1, <1>3
<1>. QED BY <1>5, <1>6

(* Everything there is, and no more than was asked, from every row at most *)
(* what it has: for all rows, quantities and both methods.                 *)
THEOREM AllocationIsAllThereIs ==
    ASSUME NEW rows, StockRows(rows), NEW requested \in Nat, NEW method \in Methods
    PROVE  AllocatesWhatItCan(rows, requested, method)
<1> PICK result : result = AllocateLots(rows, requested, method)
  OBVIOUS
<1>1. PICK order, taken, left :
         Allocates(result, rows, requested, method, order, taken, left)
  BY Allocation
<1> DEFINE eligible == Eligible(rows)
           capacity == [row \in eligible |-> row.available]
           used == {m \in DOMAIN order : taken[order[m]] > 0}
           quantity == [n \in used |-> taken[order[n]]]
           total == SumFunction(capacity)
           given == SumFunction(quantity)
<1>2. IsFiniteSet(eligible) /\ \A row \in eligible : row.available \in Int
  BY FS_Subset DEF StockRows, Eligible
<1>3. /\ taken \in [eligible -> Nat] /\ left \in Nat
      /\ \A row \in eligible : taken[row] <= row.available
      /\ left + SumFunctionOnSet(taken, eligible) = requested
      /\ left > 0 => \A row \in eligible : taken[row] = row.available
      /\ \A n \in DOMAIN order : order[n] \in eligible
  BY <1>1 DEF Allocates
<1>4. /\ DOMAIN result.lines = used
      /\ \A n \in used : /\ result.lines[n].row = order[n].id
                         /\ result.lines[n].quantity = taken[order[n]]
      /\ result.allocated = requested - left /\ result.shortfall = left
  BY <1>1 DEF Allocates
<1>5. quantity = [n \in DOMAIN result.lines |-> result.lines[n].quantity]
  BY <1>4
<1>6. given = SumFunctionOnSet(taken, eligible)
  <2> DEFINE Given == {order[n] : n \in used}
  <2>1. IsFiniteSet(used) /\ \A m, n \in used : order[m] = order[n] => m = n
    BY <1>1, FS_Subset DEF Allocates
  <2>2. \A n \in used : taken[order[n]] \in Int /\ quantity[n] = taken[order[n]]
    BY <1>3
  <2>3. SumFunctionOnSet(quantity, used) = SumFunctionOnSet(taken, Given)
    <3>. HIDE DEF used, quantity
    <3>. QED BY <2>1, <2>2, SumImage
  <2>4. /\ Given \in SUBSET eligible
        /\ \A row \in eligible : taken[row] \in Int
        /\ \A row \in eligible \ Given : taken[row] = 0
    <3>1. ASSUME NEW row \in eligible, row \notin Given PROVE taken[row] = 0
      <4>1. PICK n \in DOMAIN order : order[n] = row
        BY <1>1 DEF Allocates
      <4>2. ~(taken[row] > 0)
        BY <4>1, <3>1
      <4>. QED BY <4>2, <1>3
    <3>. QED BY <3>1, <1>3
  <2>5. SumFunctionOnSet(taken, eligible) = SumFunctionOnSet(taken, Given)
    <3>. HIDE DEF Given, eligible
    <3>. QED BY <2>4, <1>2, SumOutside
  <2>6. given = SumFunctionOnSet(quantity, used)
    BY DEF SumFunction
  <2>. QED BY <2>3, <2>5, <2>6
<1>7. total = SumFunctionOnSet(capacity, eligible)
  BY DEF SumFunction
<1>8. given \in Int /\ total \in Int
  BY <1>2, <1>3, <1>6, <1>7, SumType
<1>9. given <= total
  <2>1. \A row \in eligible : /\ taken[row] \in Int /\ capacity[row] \in Int
                              /\ taken[row] <= capacity[row]
    BY <1>2, <1>3
  <2>. HIDE DEF eligible, capacity, total, given
  <2>. QED BY <2>1, <1>2, <1>6, <1>7, SumLeq
<1>10. left > 0 => given = total
  <2>1. ASSUME left > 0
        PROVE  \A row \in eligible : capacity[row] \in Int /\ taken[row] = capacity[row]
    BY <2>1, <1>2, <1>3
  <2>. HIDE DEF eligible, capacity, total, given
  <2>. QED BY <2>1, <1>2, <1>6, <1>7, SumSame
<1>11. given = Min({requested, total})
  <2>1. left + given = requested
    BY <1>3, <1>6
  <2>. HIDE DEF given, total
  <2>. QED BY <2>1, <1>3, <1>8, <1>9, <1>10, MinOfTwo
<1>12. result.allocated = given /\ result.allocated + result.shortfall = requested
  <2>1. left + given = requested
    BY <1>3, <1>6
  <2>. HIDE DEF given
  <2>. QED BY <2>1, <1>3, <1>4, <1>8
<1>13. ASSUME NEW row \in rows PROVE Allocated(result, row.id) <= Max({0, row.available})
  <2>1. row.available \in Int
    BY DEF StockRows
  <2>2. CASE row \in eligible
    <3>1. Allocated(result, row.id) = taken[row]
      BY <1>1, <2>2, AllocatedFromRow
    <3>2. row.available > 0
      BY <2>2 DEF Eligible
    <3>. QED BY <3>1, <3>2, <2>1, <2>2, <1>3, MaxOfTwo
  <2>3. CASE row \notin eligible
    <3>1. \A other \in eligible : other.id # row.id
      BY <2>3 DEF Eligible, StockRows
    <3>2. Allocated(result, row.id) = 0
      BY <1>1, <3>1, AllocatedFromRow
    <3>. QED BY <3>2, <2>1, MaxOfTwo
  <2>. QED BY <2>2, <2>3
<1>14. IsInjective([n \in DOMAIN result.lines |-> result.lines[n].row])
  <2>1. ASSUME NEW m \in used, NEW n \in used, order[m].id = order[n].id PROVE m = n
    <3>1. order[m] = order[n]
      BY <2>1, <1>3 DEF Eligible, StockRows
    <3>. QED BY <3>1, <1>1 DEF Allocates
  <2>. QED BY <2>1, <1>4 DEF IsInjective
<1>15. AllocatesWhatItCan(rows, requested, method)
          <=> /\ given = Min({requested, total})
              /\ result.allocated = given
              /\ result.allocated + result.shortfall = requested
              /\ \A row \in rows : Allocated(result, row.id) <= Max({0, row.available})
              /\ IsInjective([n \in DOMAIN result.lines |-> result.lines[n].row])
  BY <1>5 DEF AllocatesWhatItCan, Eligible
<1>. QED BY <1>11, <1>12, <1>13, <1>14, <1>15

(* No row is touched while one that expires (FEFO) or was received (FIFO)  *)
(* earlier still has stock.                                                *)
THEOREM AllocationIsEarliestFirst ==
    ASSUME NEW rows, StockRows(rows), NEW requested \in Nat, NEW method \in Methods
    PROVE  EarliestFirst(rows, requested, method)
<1> PICK result : result = AllocateLots(rows, requested, method)
  OBVIOUS
<1>1. PICK order, taken, left :
         Allocates(result, rows, requested, method, order, taken, left)
  BY Allocation
<1> DEFINE earlier(a, b) ==
             \/ /\ method = "fefo" /\ a.expiresAt # NoExpiry
                /\ b.expiresAt = NoExpiry \/ a.expiresAt < b.expiresAt
             \/ method = "fifo" /\ a.receivedAt < b.receivedAt
<1>2. ASSUME NEW a \in rows, NEW b \in rows, earlier(a, b), a.available > 0,
             Allocated(result, b.id) > 0
      PROVE  Allocated(result, a.id) = a.available
  <2>1. a \in Eligible(rows)
    BY <1>2 DEF Eligible
  <2>2. b \in Eligible(rows)
    <3>1. ASSUME b \notin Eligible(rows) PROVE FALSE
      <4>1. \A other \in Eligible(rows) : other.id # b.id
        BY <3>1 DEF Eligible, StockRows
      <4>2. Allocated(result, b.id) = 0
        BY <4>1, <1>1, AllocatedFromRow
      <4>. QED BY <4>2, <1>2
    <3>. QED BY <3>1
  <2>3. Allocated(result, a.id) = taken[a] /\ Allocated(result, b.id) = taken[b]
    BY <2>1, <2>2, <1>1, AllocatedFromRow
  <2>4. PICK m \in DOMAIN order, n \in DOMAIN order : order[m] = a /\ order[n] = b
    BY <2>1, <2>2, <1>1 DEF Allocates
  <2>5. Before(method, a, b) /\ ~Before(method, b, a) /\ a # b
    BY <1>2 DEF Before, StockRows, NoExpiry
  <2>6. m < n
    <3>1. m \in Int /\ n \in Int /\ ~(n < m) /\ m # n
      BY <2>4, <2>5, <1>1 DEF Allocates
    <3>. QED BY <3>1
  <2>. QED BY <2>3, <2>4, <2>6, <1>1, <1>2 DEF Allocates
<1>3. EarliestFirst(rows, requested, method)
        <=> \A a, b \in rows :
               earlier(a, b) /\ a.available > 0 /\ Allocated(result, b.id) > 0
                  => Allocated(result, a.id) = a.available
  BY DEF EarliestFirst
<1>. QED BY <1>2, <1>3

-----------------------------------------------------------------------------
(* allocateLots on the rows that MCLotAllocation chooses *)

(* Rows chosen one after another have ids of their own. *)
SelectionInv ==
    /\ balances \in SUBSET Row /\ IsFiniteSet(balances)
    /\ \A a, b \in balances : a.id = b.id => a = b
    /\ \A a \in balances : a.id <= Cardinality(balances)
    /\ demand.quantity \in Nat /\ demand.method \in Methods

LEMMA SelectionHolds == Selects => []SelectionInv
<1>1. SelectNone => SelectionInv
  BY FS_EmptySet DEF SelectNone, SelectionInv, NoDemand, Methods
<1>2. ASSUME SelectionInv, AddRow
      PROVE  SelectionInv'
  <2>1. PICK row \in Row : /\ row.id = Cardinality(balances) + 1
                           /\ balances' = balances \cup {row}
    BY <1>2 DEF AddRow
  <2>2. demand' = demand
    BY <1>2 DEF AddRow
  <2>3. Cardinality(balances) \in Nat /\ row \notin balances
    BY <1>2, <2>1, FS_CardinalityType DEF SelectionInv
  <2>4. IsFiniteSet(balances') /\ Cardinality(balances') = Cardinality(balances) + 1
    BY <1>2, <2>1, <2>3, FS_AddElement DEF SelectionInv
  <2>5. \A a \in balances : a.id \in Int /\ a.id <= Cardinality(balances)
    BY <1>2 DEF SelectionInv, Row
  <2>6. \A a, b \in balances' : a.id = b.id => a = b
    BY <1>2, <2>1, <2>3, <2>5 DEF SelectionInv
  <2>7. \A a \in balances' : a.id <= Cardinality(balances')
    BY <2>1, <2>3, <2>4, <2>5
  <2>. QED BY <1>2, <2>1, <2>2, <2>4, <2>6, <2>7 DEF SelectionInv
<1>3. ASSUME SelectionInv, Ask
      PROVE  SelectionInv'
  <2>1. PICK q, m : /\ q \in 1..(MaxRows * MaxQuantity + 1) /\ m \in Methods
                    /\ demand' = [quantity |-> q, method |-> m]
    BY <1>3 DEF Ask
  <2>2. demand'.quantity = q /\ demand'.method = m /\ q \in Nat
    BY <2>1, SelectionAssumption
  <2>. QED BY <1>3, <2>1, <2>2 DEF SelectionInv, Ask
<1>4. SelectionInv /\ UNCHANGED selection => SelectionInv'
  BY DEF SelectionInv, selection
<1>. QED BY <1>1, <1>2, <1>3, <1>4, PTL DEF Selects

LEMMA SelectedRows == SelectionInv => StockRows(balances)
<1>1. \A a \in Row : /\ a.id \in Int /\ a.available \in Int
                     /\ a.expiresAt \in Int /\ a.receivedAt \in Int
  BY SelectionAssumption DEF Row
<1>. QED BY <1>1 DEF SelectionInv, StockRows

(* Whatever rows are chosen, however many, and whatever is asked of them,  *)
(* allocateLots gives all there is and no more than was asked.             *)
THEOREM SelectionAllocatesAll == Selects => []AllocationIsComplete
<1>1. SelectionInv => AllocationIsComplete
  BY SelectedRows, AllocationIsAllThereIs DEF SelectionInv, AllocationIsComplete
<1>. QED BY <1>1, SelectionHolds, PTL

(* It takes from no row while one that goes before it has stock.           *)
THEOREM SelectionIsInOrder == Selects => []AllocationIsOrdered
<1>1. SelectionInv => AllocationIsOrdered
  BY SelectedRows, AllocationIsEarliestFirst DEF SelectionInv, AllocationIsOrdered
<1>. QED BY <1>1, SelectionHolds, PTL

(* The order of the rows is total, so the order in which the database      *)
(* returned them does not matter.                                          *)
THEOREM SelectionIsSorted == Selects => []ComparatorIsTotal
<1>1. SelectionInv => ComparatorIsTotal
  BY SelectedRows, ComparatorIsTotalOrder DEF SelectionInv, ComparatorIsTotal
<1>. QED BY <1>1, SelectionHolds, PTL

-----------------------------------------------------------------------------
(* Reservations *)

LEMMA RowsAndLines ==
    /\ IsFiniteSet(Rows) /\ \A b \in Rows : b \in Int
    /\ IsFiniteSet(Lines) /\ \A l \in Lines : l \in Int
    /\ \A p : RowsOf(p) \in SUBSET Rows /\ IsFiniteSet(RowsOf(p))
    /\ \A p : LinesOf(p) \in SUBSET Lines /\ IsFiniteSet(LinesOf(p))
<1>1. IsFiniteSet(Rows) /\ IsFiniteSet(Lines)
  BY FS_Interval, FulfilmentAssumption DEF Rows, Lines
<1>2. \A p : RowsOf(p) \in SUBSET Rows /\ LinesOf(p) \in SUBSET Lines
  BY DEF RowsOf, LinesOf
<1>3. \A p : IsFiniteSet(RowsOf(p)) /\ IsFiniteSet(LinesOf(p))
  BY <1>1, <1>2, FS_Subset
<1>4. (\A b \in Rows : b \in Int) /\ (\A l \in Lines : l \in Int)
  BY FulfilmentAssumption DEF Rows, Lines
<1>. QED BY <1>1, <1>2, <1>3, <1>4

(* What the rows of product p hold, and a quantity n taken from them only. *)
HeldOf(p, held) == [b \in Rows |-> IF RowProduct[b] = p THEN held[b] ELSE 0]

OnlyOf(p, n, taken) ==
    \A q : SumFunctionOnSet(taken, RowsOf(q)) = IF q = p THEN n ELSE 0

(* What reserving or releasing a quantity of product p takes from its rows *)
LEMMA LineSpread ==
    ASSUME NEW held \in [Rows -> Int], NEW p, NEW wanted \in Nat, NEW capacity,
           capacity = HeldOf(p, held), NEW got, got = Spread(RowOrder, capacity, wanted)
    PROVE  /\ got.taken \in [Rows -> Nat] /\ got.left \in Nat
           /\ \A b \in Rows : got.taken[b] > 0 => RowProduct[b] = p /\ got.taken[b] <= held[b]
           /\ OnlyOf(p, wanted - got.left, got.taken)
<1>1. /\ DOMAIN capacity = Rows /\ DOMAIN RowOrder = Rows
      /\ \A b \in Rows : /\ RowOrder[b] = b
                         /\ capacity[b] = IF RowProduct[b] = p THEN held[b] ELSE 0
  BY DEF RowOrder, HeldOf
<1>2. Spreads(RowOrder, capacity, wanted)
  BY <1>1, RowsAndLines DEF Spreads
<1>3. Spreading(RowOrder, capacity, wanted, Rows, got)
  BY <1>1, <1>2, SpreadResult
<1>4. /\ got.taken \in [Rows -> Nat] /\ got.left \in Nat
      /\ \A b \in Rows : got.taken[b] > 0 => got.taken[b] <= capacity[b]
      /\ got.left + SumFunctionOnSet(got.taken, Rows) = wanted
  BY <1>1, <1>3 DEF Spreading
<1>5. \A b \in Rows : got.taken[b] > 0 => RowProduct[b] = p /\ got.taken[b] <= held[b]
  BY <1>1, <1>4
<1>6. ASSUME NEW q
      PROVE  SumFunctionOnSet(got.taken, RowsOf(q)) = IF q = p THEN wanted - got.left ELSE 0
  <2>1. CASE q = p
    <3>1. /\ \A b \in Rows : got.taken[b] \in Int
          /\ \A b \in Rows \ RowsOf(p) : got.taken[b] = 0
      BY <1>4, <1>5 DEF RowsOf
    <3>2. SumFunctionOnSet(got.taken, Rows) = SumFunctionOnSet(got.taken, RowsOf(p))
      BY <3>1, RowsAndLines, SumOutside
    <3>3. SumFunctionOnSet(got.taken, Rows) \in Int
      BY <3>1, RowsAndLines, SumType
    <3>. QED BY <3>2, <3>3, <2>1, <1>4
  <2>2. CASE q # p
    <3>1. \A b \in RowsOf(q) : got.taken[b] = 0
      BY <1>4, <1>5, <2>2 DEF RowsOf
    <3>2. SumFunctionOnSet(got.taken, RowsOf(q)) = 0
      BY <3>1, RowsAndLines, SumZero
    <3>. QED BY <3>2, <2>2
  <2>. QED BY <2>1, <2>2
<1>. QED BY <1>4, <1>5, <1>6 DEF OnlyOf

(* ... and what that changes in the sums over the rows of every product.   *)
LEMMA LineBooked ==
    ASSUME NEW taken \in [Rows -> Nat], NEW p, NEW n \in Int, OnlyOf(p, n, taken),
           NEW less \in [Rows -> Int], NEW more \in [Rows -> Int],
           \A b \in Rows : more[b] = less[b] + taken[b]
    PROVE  \A q : SumFunctionOnSet(more, RowsOf(q))
                    = SumFunctionOnSet(less, RowsOf(q)) + (IF q = p THEN n ELSE 0)
<1> TAKE q
<1>1. \A b \in RowsOf(q) : /\ less[b] \in Int /\ taken[b] \in Int
                           /\ more[b] = less[b] + taken[b]
  BY RowsAndLines
<1>2. SumFunctionOnSet(more, RowsOf(q))
        = SumFunctionOnSet(less, RowsOf(q)) + SumFunctionOnSet(taken, RowsOf(q))
  BY ONLY <1>1, RowsAndLines, SumPlus
<1>. QED BY <1>2 DEF OnlyOf

(* The quantity that the lines in T have of product p. *)
Of(wants, T, p) == SumFunctionOnSet(wants, T \cap LinesOf(p))

LEMMA OfLine ==
    ASSUME NEW wants \in [Lines -> Nat], NEW V \in SUBSET Lines, NEW x \in Lines, x \notin V
    PROVE  \A p : /\ Of(wants, V, p) \in Nat
                  /\ Of(wants, V \cup {x}, p)
                       = Of(wants, V, p) + (IF p = ProductOf[x] THEN wants[x] ELSE 0)
<1> TAKE p
<1> DEFINE U == V \cap LinesOf(p)
<1>1. IsFiniteSet(U) /\ U \in SUBSET U /\ \A l \in U : wants[l] \in Nat
  BY RowsAndLines, FS_Subset
<1>2. Of(wants, V, p) \in Nat
  <2>. HIDE DEF U
  <2>1. SumFunctionOnSet(wants, U) \in Nat
    BY <1>1, SumNat
  <2>. QED BY <2>1 DEF Of, U
<1>3. CASE p = ProductOf[x]
  <2>1. (V \cup {x}) \cap LinesOf(p) = U \cup {x} /\ x \notin U
    BY <1>3 DEF LinesOf
  <2>2. \A l \in U \cup {x} : wants[l] \in Int
    BY <1>1
  <2>3. SumFunctionOnSet(wants, U \cup {x}) = SumFunctionOnSet(wants, U) + wants[x]
    <3>. HIDE DEF U
    <3>. QED BY ONLY <1>1, <2>1, <2>2, SumAdd
  <2>4. Of(wants, V, p) = SumFunctionOnSet(wants, U)
    BY DEF Of
  <2>5. Of(wants, V \cup {x}, p) = SumFunctionOnSet(wants, U \cup {x})
    <3>. HIDE DEF U
    <3>. QED BY <2>1 DEF Of
  <2>. HIDE DEF U
  <2>. QED BY <2>3, <2>4, <2>5, <1>2, <1>3
<1>4. CASE p # ProductOf[x]
  <2>1. (V \cup {x}) \cap LinesOf(p) = U
    BY <1>4 DEF LinesOf
  <2>. QED BY <2>1, <1>2, <1>4 DEF Of
<1>. QED BY <1>2, <1>3, <1>4

(* Reservations in the making, and the sums of a loop over the lines. *)
Bookings == [rows : [Rows -> Int], ok : BOOLEAN]

NothingBooked == [rows |-> reserved, ok |-> TRUE]

ReserveStep(wants, acc, l) ==
    LET free == [b \in Rows |-> IF RowProduct[b] = ProductOf[l]
                                THEN onHand[b] - acc.rows[b] ELSE 0]
        got  == Spread(RowOrder, free, wants[l])
    IN  [rows |-> [b \in Rows |-> acc.rows[b] + got.taken[b]],
         ok   |-> acc.ok /\ got.left <= 0]

IsReserve(wants, g) ==
    g = [T \in SUBSET DOMAIN [l \in DOMAIN wants |-> l] |->
            IF T = {} THEN NothingBooked
            ELSE ReserveStep(wants, g[T \ {Max(T)}], [l \in DOMAIN wants |-> l][Max(T)])]

LEMMA ReserveIsLoop ==
    ASSUME NEW wants
    PROVE  ReserveLines(wants) = (CHOOSE g : IsReserve(wants, g))
                                    [DOMAIN [l \in DOMAIN wants |-> l]]
BY DEF ReserveLines, FoldLeftDomain, FoldLeft, MapThenFoldSet, IsReserve, ReserveStep,
       NothingBooked

(* One line: its product's rows hold its quantity more, and none less.     *)
LEMMA ReserveLine ==
    ASSUME onHand \in [Rows -> Nat], NEW wants \in [Lines -> Nat],
           NEW acc \in Bookings, NEW l \in Lines, NEW new, new = ReserveStep(wants, acc, l)
    PROVE  /\ new \in Bookings
           /\ \A b \in Rows : new.rows[b] >= acc.rows[b]
           /\ new.ok => acc.ok /\
                 \A p : SumFunctionOnSet(new.rows, RowsOf(p))
                          = SumFunctionOnSet(acc.rows, RowsOf(p))
                              + (IF p = ProductOf[l] THEN wants[l] ELSE 0)
<1> PICK held : held = [b \in Rows |-> onHand[b] - acc.rows[b]]
  OBVIOUS
<1> PICK free : free = [b \in Rows |-> IF RowProduct[b] = ProductOf[l] THEN held[b] ELSE 0]
  OBVIOUS
<1> PICK got : got = Spread(RowOrder, free, wants[l])
  OBVIOUS
<1>1. acc.rows \in [Rows -> Int] /\ acc.ok \in BOOLEAN /\ wants[l] \in Nat
  BY DEF Bookings
<1>2. held \in [Rows -> Int]
  BY <1>1
<1>3. /\ got.taken \in [Rows -> Nat] /\ got.left \in Nat
      /\ OnlyOf(ProductOf[l], wants[l] - got.left, got.taken)
  <2>1. free = HeldOf(ProductOf[l], held)
    BY DEF HeldOf
  <2>. QED BY ONLY <1>1, <1>2, <2>1, got = Spread(RowOrder, free, wants[l]), LineSpread
<1>4. free = [b \in Rows |-> IF RowProduct[b] = ProductOf[l]
                             THEN onHand[b] - acc.rows[b] ELSE 0]
  OBVIOUS
<1>5. new = [rows |-> [b \in Rows |-> acc.rows[b] + got.taken[b]],
             ok   |-> acc.ok /\ got.left <= 0]
  BY <1>4 DEF ReserveStep
<1>6. /\ new.rows = [b \in Rows |-> acc.rows[b] + got.taken[b]]
      /\ new.ok = (acc.ok /\ got.left <= 0)
  BY <1>5
<1>7. new.rows \in [Rows -> Int] /\ \A b \in Rows : new.rows[b] = acc.rows[b] + got.taken[b]
  BY <1>1, <1>3, <1>6
<1>8. new \in Bookings
  BY <1>5, <1>7, <1>6 DEF Bookings
<1>9. \A b \in Rows : new.rows[b] >= acc.rows[b]
  BY <1>1, <1>3, <1>7
<1>13. wants[l] - got.left \in Int
  BY <1>1, <1>3
<1>10. \A q : SumFunctionOnSet(new.rows, RowsOf(q))
                = SumFunctionOnSet(acc.rows, RowsOf(q))
                    + (IF q = ProductOf[l] THEN wants[l] - got.left ELSE 0)
  BY ONLY <1>1, <1>3, <1>7, <1>13, LineBooked
<1>11. ASSUME new.ok PROVE acc.ok /\ got.left = 0
  <2>1. acc.ok /\ got.left <= 0
    BY <1>11, <1>6, Zenon
  <2>. QED BY <2>1, <1>3
<1>12. wants[l] - 0 = wants[l]
  BY <1>1
<1>. QED BY <1>8, <1>9, <1>10, <1>11, <1>12

LEMMA ReserveLoopExists ==
    ASSUME onHand \in [Rows -> Nat], reserved \in [Rows -> Nat], NEW wants \in [Lines -> Nat]
    PROVE  \E g : IsReserve(wants, g) /\ \A T \in SUBSET Lines : g[T] \in Bookings
<1> DEFINE base == NothingBooked
           step == [l \in Lines |-> [acc \in Bookings |-> ReserveStep(wants, acc, l)]]
<1>1. base \in Bookings
  BY DEF NothingBooked, Bookings
<1>2. \A l \in Lines : \A acc \in Bookings :
         step[l][acc] = ReserveStep(wants, acc, l) /\ step[l][acc] \in Bookings
  BY ReserveLine
<1>. HIDE DEF step, base
<1>3. PICK g : IsLoop(base, step, Lines, g)
  BY RowsAndLines, LoopExists
<1>4. \A T \in SUBSET Lines : g[T] \in Bookings
  <2>1. \A l \in Lines : \A acc \in Bookings : step[l][acc] \in Bookings
    BY <1>2
  <2>. QED BY <1>1, <1>3, <2>1, RowsAndLines, LoopStays
<1>5. ASSUME NEW T \in SUBSET Lines, T # {}
      PROVE  step[Max(T)][g[T \ {Max(T)}]]
               = ReserveStep(wants, g[T \ {Max(T)}], [l \in Lines |-> l][Max(T)])
  <2>1. Max(T) \in Lines
    BY <1>5, RowsAndLines, LastExists
  <2>2. g[T \ {Max(T)}] \in Bookings
    BY <1>4
  <2>3. [l \in Lines |-> l][Max(T)] = Max(T)
    BY <2>1
  <2>. QED BY <1>2, <2>1, <2>2, <2>3
<1>6. DOMAIN wants = Lines /\ DOMAIN [l \in Lines |-> l] = Lines
  OBVIOUS
<1>7. IsReserve(wants, g)
  BY <1>3, <1>5, <1>6 DEF IsLoop, LoopBody, IsReserve, base
<1>. QED BY <1>4, <1>7

(* reserveStock for every line of an approval: what is reserved of every   *)
(* product grows by what the lines want of it, or the approval fails.      *)
LEMMA Reserves ==
    ASSUME onHand \in [Rows -> Nat], reserved \in [Rows -> Nat], NEW wants \in [Lines -> Nat],
           NEW result, result = ReserveLines(wants)
    PROVE  /\ result.rows \in [Rows -> Nat]
           /\ result.ok =>
                 \A p : SumFunctionOnSet(result.rows, RowsOf(p))
                          = SumFunctionOnSet(reserved, RowsOf(p)) + Of(wants, Lines, p)
<1> DEFINE g == CHOOSE h : IsReserve(wants, h)
<1>1. IsReserve(wants, g)
  BY ReserveLoopExists
<1>. HIDE DEF g
<1>2. result = g[Lines]
  BY ReserveIsLoop DEF g
<1>3. g = [T \in SUBSET Lines |->
              IF T = {} THEN NothingBooked
              ELSE ReserveStep(wants, g[T \ {Max(T)}], [l \in Lines |-> l][Max(T)])]
  <2>1. DOMAIN wants = Lines /\ DOMAIN [l \in Lines |-> l] = Lines
    OBVIOUS
  <2>. QED BY <1>1, <2>1 DEF IsReserve
<1> DEFINE Good(T) ==
             /\ g[T] \in Bookings
             /\ \A b \in Rows : g[T].rows[b] >= reserved[b]
             /\ g[T].ok => \A p : SumFunctionOnSet(g[T].rows, RowsOf(p))
                                    = SumFunctionOnSet(reserved, RowsOf(p)) + Of(wants, T, p)
           Bad == {T \in SUBSET Lines : ~Good(T)}
<1>4. Bad = {}
  <2> SUFFICES ASSUME Bad # {} PROVE FALSE
    OBVIOUS
  <2>1. PICK T \in Bad : \A U \in Bad : ~(U \subseteq T /\ U # T)
    <3>1. Bad \in SUBSET SUBSET Lines /\ IsFiniteSet(Lines)
      BY RowsAndLines
    <3>. HIDE DEF Bad
    <3>. QED BY <3>1, MinimalSubset
  <2>2. CASE T = {}
    <3>1. g[T] = NothingBooked
      BY <1>3, <2>2
    <3>2. g[T] \in Bookings /\ \A b \in Rows : g[T].rows[b] >= reserved[b]
      BY <3>1 DEF NothingBooked, Bookings
    <3>3. ASSUME NEW p
          PROVE  SumFunctionOnSet(g[T].rows, RowsOf(p))
                   = SumFunctionOnSet(reserved, RowsOf(p)) + Of(wants, T, p)
      <4>1. g[T].rows = reserved
        BY <3>1 DEF NothingBooked
      <4>2. Of(wants, T, p) = 0
        <5>1. T \cap LinesOf(p) = {}
          BY <2>2
        <5>. QED BY <5>1, SumEmpty DEF Of
      <4>3. SumFunctionOnSet(reserved, RowsOf(p)) \in Int
        <5>1. \A b \in RowsOf(p) : reserved[b] \in Int
          BY RowsAndLines
        <5>. QED BY <5>1, RowsAndLines, SumType
      <4>. QED BY <4>1, <4>2, <4>3
    <3>. QED BY <3>2, <3>3, <2>1
  <2>3. CASE T # {}
    <3> DEFINE x == Max(T)
               V == T \ {x}
    <3>1. x \in T /\ x \in Lines /\ V \in SUBSET Lines /\ V \cup {x} = T /\ x \notin V
      BY <2>1, <2>3, RowsAndLines, LastExists
    <3>2. Good(V)
      BY <3>1, <2>1
    <3>3. g[T] = ReserveStep(wants, g[V], x)
      BY <1>3, <2>1, <2>3, <3>1
    <3>. HIDE DEF x, V
    <3>4. /\ g[T] \in Bookings
          /\ \A b \in Rows : g[T].rows[b] >= g[V].rows[b]
          /\ g[T].ok => g[V].ok /\
                \A p : SumFunctionOnSet(g[T].rows, RowsOf(p))
                         = SumFunctionOnSet(g[V].rows, RowsOf(p))
                             + (IF p = ProductOf[x] THEN wants[x] ELSE 0)
      BY <3>1, <3>2, <3>3, ReserveLine
    <3>5. \A p : /\ Of(wants, V, p) \in Nat
                 /\ Of(wants, T, p) = Of(wants, V, p)
                                        + (IF p = ProductOf[x] THEN wants[x] ELSE 0)
      <4>1. \A p : /\ Of(wants, V, p) \in Nat
                   /\ Of(wants, V \cup {x}, p)
                        = Of(wants, V, p) + (IF p = ProductOf[x] THEN wants[x] ELSE 0)
        BY ONLY <3>1, wants \in [Lines -> Nat], OfLine
      <4>. QED BY <4>1, <3>1
    <3>6. \A b \in Rows : g[T].rows[b] >= reserved[b]
      <4>1. \A b \in Rows : g[T].rows[b] \in Int /\ g[V].rows[b] \in Int /\ reserved[b] \in Int
        BY <3>2, <3>4 DEF Bookings
      <4>. QED BY <4>1, <3>2, <3>4
    <3>7. ASSUME g[T].ok, NEW p
          PROVE  SumFunctionOnSet(g[T].rows, RowsOf(p))
                   = SumFunctionOnSet(reserved, RowsOf(p)) + Of(wants, T, p)
      <4>1. SumFunctionOnSet(reserved, RowsOf(p)) \in Int
        <5>1. \A b \in RowsOf(p) : reserved[b] \in Int
          BY RowsAndLines
        <5>. QED BY <5>1, RowsAndLines, SumType
      <4>2. wants[x] \in Int
        BY <3>1
      <4>. QED BY <4>1, <4>2, <3>2, <3>4, <3>5, <3>7
    <3>. QED BY <3>4, <3>6, <3>7, <2>1
  <2>. QED BY <2>2, <2>3
<1>5. Good(Lines)
  BY <1>4
<1>6. result.rows \in [Rows -> Nat]
  <2>1. result.rows \in [Rows -> Int] /\ \A b \in Rows : result.rows[b] >= reserved[b]
    BY <1>2, <1>5 DEF Bookings
  <2>. QED BY <2>1
<1>. QED BY <1>2, <1>5, <1>6

ReleaseStep(gives, acc, l) ==
    LET held == [b \in Rows |-> IF RowProduct[b] = ProductOf[l]
                                THEN acc.rows[b] ELSE 0]
        got  == Spread(RowOrder, held, gives[l])
    IN  [rows |-> [b \in Rows |-> acc.rows[b] - got.taken[b]],
         ok   |-> acc.ok /\ got.left <= 0]

IsRelease(gives, g) ==
    g = [T \in SUBSET DOMAIN [l \in DOMAIN gives |-> l] |->
            IF T = {} THEN NothingBooked
            ELSE ReleaseStep(gives, g[T \ {Max(T)}], [l \in DOMAIN gives |-> l][Max(T)])]

LEMMA ReleaseIsLoop ==
    ASSUME NEW gives
    PROVE  ReleaseLines(gives) = (CHOOSE g : IsRelease(gives, g))
                                    [DOMAIN [l \in DOMAIN gives |-> l]]
BY DEF ReleaseLines, FoldLeftDomain, FoldLeft, MapThenFoldSet, IsRelease, ReleaseStep,
       NothingBooked

(* One line: its product's rows hold its quantity less, and none too little. *)
LEMMA ReleaseLine ==
    ASSUME NEW gives \in [Lines -> Nat],
           NEW acc \in Bookings, NEW l \in Lines, NEW new, new = ReleaseStep(gives, acc, l)
    PROVE  /\ new \in Bookings
           /\ \A b \in Rows : acc.rows[b] >= 0 => new.rows[b] >= 0
           /\ new.ok => acc.ok /\
                 \A p : SumFunctionOnSet(acc.rows, RowsOf(p))
                          = SumFunctionOnSet(new.rows, RowsOf(p))
                              + (IF p = ProductOf[l] THEN gives[l] ELSE 0)
<1> PICK held : held = [b \in Rows |-> IF RowProduct[b] = ProductOf[l]
                                       THEN acc.rows[b] ELSE 0]
  OBVIOUS
<1> PICK got : got = Spread(RowOrder, held, gives[l])
  OBVIOUS
<1>1. acc.rows \in [Rows -> Int] /\ acc.ok \in BOOLEAN /\ gives[l] \in Nat
  BY DEF Bookings
<1>2. /\ got.taken \in [Rows -> Nat] /\ got.left \in Nat
      /\ \A b \in Rows : got.taken[b] > 0 => got.taken[b] <= acc.rows[b]
      /\ OnlyOf(ProductOf[l], gives[l] - got.left, got.taken)
  <2>1. held = HeldOf(ProductOf[l], acc.rows)
    BY DEF HeldOf
  <2>. QED BY ONLY <1>1, <2>1, got = Spread(RowOrder, held, gives[l]), LineSpread
<1>3. new = [rows |-> [b \in Rows |-> acc.rows[b] - got.taken[b]],
             ok   |-> acc.ok /\ got.left <= 0]
  BY DEF ReleaseStep
<1>4. /\ new.rows = [b \in Rows |-> acc.rows[b] - got.taken[b]]
      /\ new.ok = (acc.ok /\ got.left <= 0)
  BY <1>3
<1>5. new.rows \in [Rows -> Int] /\ \A b \in Rows : new.rows[b] = acc.rows[b] - got.taken[b]
  BY <1>1, <1>2, <1>4
<1>6. new \in Bookings
  BY <1>3, <1>4, <1>5 DEF Bookings
<1>7. \A b \in Rows : acc.rows[b] >= 0 => new.rows[b] >= 0
  BY <1>1, <1>2, <1>5
<1>8. gives[l] - got.left \in Int
  BY <1>1, <1>2
<1>9. \A b \in Rows : acc.rows[b] = new.rows[b] + got.taken[b]
  BY <1>1, <1>2, <1>5
<1>10. \A q : SumFunctionOnSet(acc.rows, RowsOf(q))
                = SumFunctionOnSet(new.rows, RowsOf(q))
                    + (IF q = ProductOf[l] THEN gives[l] - got.left ELSE 0)
  BY ONLY <1>1, <1>2, <1>5, <1>8, <1>9, LineBooked
<1>11. ASSUME new.ok PROVE acc.ok /\ got.left = 0
  <2>1. acc.ok /\ got.left <= 0
    BY <1>11, <1>4, Zenon
  <2>. QED BY <2>1, <1>2
<1>12. gives[l] - 0 = gives[l]
  BY <1>1
<1>. QED BY <1>6, <1>7, <1>10, <1>11, <1>12

LEMMA ReleaseLoopExists ==
    ASSUME reserved \in [Rows -> Nat], NEW gives \in [Lines -> Nat]
    PROVE  \E g : IsRelease(gives, g) /\ \A T \in SUBSET Lines : g[T] \in Bookings
<1> DEFINE base == NothingBooked
           step == [l \in Lines |-> [acc \in Bookings |-> ReleaseStep(gives, acc, l)]]
<1>1. base \in Bookings
  BY DEF NothingBooked, Bookings
<1>2. \A l \in Lines : \A acc \in Bookings :
         step[l][acc] = ReleaseStep(gives, acc, l) /\ step[l][acc] \in Bookings
  BY ReleaseLine
<1>. HIDE DEF step, base
<1>3. PICK g : IsLoop(base, step, Lines, g)
  BY RowsAndLines, LoopExists
<1>4. \A T \in SUBSET Lines : g[T] \in Bookings
  <2>1. \A l \in Lines : \A acc \in Bookings : step[l][acc] \in Bookings
    BY <1>2
  <2>. QED BY <1>1, <1>3, <2>1, RowsAndLines, LoopStays
<1>5. ASSUME NEW T \in SUBSET Lines, T # {}
      PROVE  step[Max(T)][g[T \ {Max(T)}]]
               = ReleaseStep(gives, g[T \ {Max(T)}], [l \in Lines |-> l][Max(T)])
  <2>1. Max(T) \in Lines
    BY <1>5, RowsAndLines, LastExists
  <2>2. g[T \ {Max(T)}] \in Bookings
    BY <1>4
  <2>3. [l \in Lines |-> l][Max(T)] = Max(T)
    BY <2>1
  <2>. QED BY <1>2, <2>1, <2>2, <2>3
<1>6. DOMAIN gives = Lines /\ DOMAIN [l \in Lines |-> l] = Lines
  OBVIOUS
<1>7. IsRelease(gives, g)
  BY <1>3, <1>5, <1>6 DEF IsLoop, LoopBody, IsRelease, base
<1>. QED BY <1>4, <1>7

(* releaseReservedStock for every line: what is reserved of every product  *)
(* shrinks by what the lines give back of it, and never below zero.        *)
LEMMA Releases ==
    ASSUME reserved \in [Rows -> Nat], NEW gives \in [Lines -> Nat],
           NEW result, result = ReleaseLines(gives)
    PROVE  /\ result.rows \in [Rows -> Nat]
           /\ result.ok =>
                 \A p : SumFunctionOnSet(result.rows, RowsOf(p)) + Of(gives, Lines, p)
                          = SumFunctionOnSet(reserved, RowsOf(p))
<1> DEFINE g == CHOOSE h : IsRelease(gives, h)
<1>1. IsRelease(gives, g)
  BY ReleaseLoopExists
<1>. HIDE DEF g
<1>2. result = g[Lines]
  BY ReleaseIsLoop DEF g
<1>3. g = [T \in SUBSET Lines |->
              IF T = {} THEN NothingBooked
              ELSE ReleaseStep(gives, g[T \ {Max(T)}], [l \in Lines |-> l][Max(T)])]
  <2>1. DOMAIN gives = Lines /\ DOMAIN [l \in Lines |-> l] = Lines
    OBVIOUS
  <2>. QED BY <1>1, <2>1 DEF IsRelease
<1> DEFINE Good(T) ==
             /\ g[T] \in Bookings
             /\ \A b \in Rows : g[T].rows[b] >= 0
             /\ g[T].ok => \A p : SumFunctionOnSet(g[T].rows, RowsOf(p)) + Of(gives, T, p)
                                    = SumFunctionOnSet(reserved, RowsOf(p))
           Bad == {T \in SUBSET Lines : ~Good(T)}
<1>4. Bad = {}
  <2> SUFFICES ASSUME Bad # {} PROVE FALSE
    OBVIOUS
  <2>1. PICK T \in Bad : \A U \in Bad : ~(U \subseteq T /\ U # T)
    <3>1. Bad \in SUBSET SUBSET Lines /\ IsFiniteSet(Lines)
      BY RowsAndLines
    <3>. HIDE DEF Bad
    <3>. QED BY <3>1, MinimalSubset
  <2>2. CASE T = {}
    <3>1. g[T] = NothingBooked
      BY <1>3, <2>2
    <3>2. g[T] \in Bookings /\ \A b \in Rows : g[T].rows[b] >= 0
      BY <3>1 DEF NothingBooked, Bookings
    <3>3. ASSUME NEW p
          PROVE  SumFunctionOnSet(g[T].rows, RowsOf(p)) + Of(gives, T, p)
                   = SumFunctionOnSet(reserved, RowsOf(p))
      <4>1. g[T].rows = reserved
        BY <3>1 DEF NothingBooked
      <4>2. Of(gives, T, p) = 0
        <5>1. T \cap LinesOf(p) = {}
          BY <2>2
        <5>. QED BY <5>1, SumEmpty DEF Of
      <4>3. SumFunctionOnSet(reserved, RowsOf(p)) \in Int
        <5>1. \A b \in RowsOf(p) : reserved[b] \in Int
          BY RowsAndLines
        <5>. QED BY <5>1, RowsAndLines, SumType
      <4>. QED BY <4>1, <4>2, <4>3
    <3>. QED BY <3>2, <3>3, <2>1
  <2>3. CASE T # {}
    <3> DEFINE x == Max(T)
               V == T \ {x}
    <3>1. x \in T /\ x \in Lines /\ V \in SUBSET Lines /\ V \cup {x} = T /\ x \notin V
      BY <2>1, <2>3, RowsAndLines, LastExists
    <3>2. Good(V)
      BY <3>1, <2>1
    <3>3. g[T] = ReleaseStep(gives, g[V], x)
      BY <1>3, <2>1, <2>3, <3>1
    <3>. HIDE DEF x, V
    <3>4. /\ g[T] \in Bookings
          /\ \A b \in Rows : g[V].rows[b] >= 0 => g[T].rows[b] >= 0
          /\ g[T].ok => g[V].ok /\
                \A p : SumFunctionOnSet(g[V].rows, RowsOf(p))
                         = SumFunctionOnSet(g[T].rows, RowsOf(p))
                             + (IF p = ProductOf[x] THEN gives[x] ELSE 0)
      BY <3>1, <3>2, <3>3, ReleaseLine
    <3>5. \A p : /\ Of(gives, V, p) \in Nat
                 /\ Of(gives, T, p) = Of(gives, V, p)
                                        + (IF p = ProductOf[x] THEN gives[x] ELSE 0)
      <4>1. \A p : /\ Of(gives, V, p) \in Nat
                   /\ Of(gives, V \cup {x}, p)
                        = Of(gives, V, p) + (IF p = ProductOf[x] THEN gives[x] ELSE 0)
        BY ONLY <3>1, gives \in [Lines -> Nat], OfLine
      <4>. QED BY <4>1, <3>1
    <3>6. \A b \in Rows : g[T].rows[b] >= 0
      BY <3>2, <3>4
    <3>7. ASSUME g[T].ok, NEW p
          PROVE  SumFunctionOnSet(g[T].rows, RowsOf(p)) + Of(gives, T, p)
                   = SumFunctionOnSet(reserved, RowsOf(p))
      <4>1. SumFunctionOnSet(g[T].rows, RowsOf(p)) \in Int
        <5>1. \A b \in RowsOf(p) : g[T].rows[b] \in Int
          BY <3>4, RowsAndLines DEF Bookings
        <5>. QED BY <5>1, RowsAndLines, SumType
      <4>2. gives[x] \in Int
        BY <3>1
      <4>. QED BY <4>1, <4>2, <3>2, <3>4, <3>5, <3>7
    <3>. QED BY <3>4, <3>6, <3>7, <2>1
  <2>. QED BY <2>2, <2>3
<1>5. Good(Lines)
  BY <1>4
<1>6. result.rows \in [Rows -> Nat]
  <2>1. result.rows \in [Rows -> Int] /\ \A b \in Rows : result.rows[b] >= 0
    BY <1>2, <1>5 DEF Bookings
  <2>. QED BY <2>1
<1>. QED BY <1>2, <1>5, <1>6

-----------------------------------------------------------------------------
(* Items of an issue *)

(* No row gives less than nothing. *)
LEMMA AllocatedIsNatural ==
    ASSUME NEW rows, StockRows(rows), NEW requested \in Nat, NEW method \in Methods, NEW id
    PROVE  Allocated(AllocateLots(rows, requested, method), id) \in Nat
<1> PICK result : result = AllocateLots(rows, requested, method)
  OBVIOUS
<1>1. PICK order, taken, left :
         Allocates(result, rows, requested, method, order, taken, left)
  BY Allocation
<1>2. /\ \A row \in Eligible(rows) : row.id = id => Allocated(result, id) = taken[row]
      /\ (\A row \in Eligible(rows) : row.id # id) => Allocated(result, id) = 0
  BY <1>1, AllocatedFromRow
<1>3. \A row \in Eligible(rows) : taken[row] \in Nat
  BY <1>1 DEF Allocates
<1>. QED BY <1>2, <1>3

(* The rows of product p as the allocation is given them. *)
BalancesOf(p) ==
    {[id |-> b, available |-> onHand[b], expiresAt |-> ExpiresAt[b],
      receivedAt |-> ReceivedAt[b]] : b \in {x \in Rows : RowProduct[x] = p}}

LEMMA BalancesAreRows ==
    ASSUME onHand \in [Rows -> Nat], NEW p
    PROVE  StockRows(BalancesOf(p))
<1> DEFINE bs == {x \in Rows : RowProduct[x] = p}
           row(b) == [id |-> b, available |-> onHand[b], expiresAt |-> ExpiresAt[b],
                      receivedAt |-> ReceivedAt[b]]
<1>1. BalancesOf(p) = {row(b) : b \in bs}
  BY DEF BalancesOf
<1>2. IsFiniteSet(bs)
  BY RowsAndLines, FS_Subset
<1>3. IsFiniteSet({row(b) : b \in bs})
  <2> DEFINE f == [b \in bs |-> row(b)]
             T == {row(b) : b \in bs}
  <2>1. f \in Surjection(bs, T)
    BY DEF Surjection
  <2>. HIDE DEF bs, f, T
  <2>2. IsFiniteSet(T)
    BY <2>1, <1>2, FS_Surjection
  <2>. QED BY <2>2 DEF T
<1>4. \A b \in bs : /\ b \in Int /\ onHand[b] \in Int /\ ExpiresAt[b] \in Int
                    /\ ReceivedAt[b] \in Int
  BY RowsAndLines, FulfilmentAssumption
<1>. QED BY <1>1, <1>3, <1>4 DEF StockRows

LEMMA AllocatedItemsType ==
    ASSUME onHand \in [Rows -> Nat], NEW lines \in [Lines -> Line], NEW items,
           items = AllocatedItems(lines)
    PROVE  items \in Items /\ \A n \in DOMAIN items : items[n].returned = 0
<1> DEFINE outstanding(l) == lines[l].approved - lines[l].fulfilled
           drawn(l, b) ==
             IF outstanding(l) <= 0 THEN 0
             ELSE Allocated(AllocateLots(BalancesOf(ProductOf[l]), outstanding(l),
                                         Method[ProductOf[l]]), b)
<1>1. items = [n \in Lines \X Rows |->
                  [drawn |-> drawn(n[1], n[2]) > 0, row |-> n[2],
                   picked |-> drawn(n[1], n[2]), returned |-> 0]]
  BY DEF AllocatedItems, BalancesOf
<1>2. ASSUME NEW l \in Lines, NEW b \in Rows PROVE drawn(l, b) \in Nat
  <2>1. outstanding(l) \in Int
    BY DEF Line
  <2>2. CASE outstanding(l) <= 0
    BY <2>2
  <2>3. CASE ~(outstanding(l) <= 0)
    <3>1. outstanding(l) \in Nat
      BY <2>1, <2>3
    <3>2. Method[ProductOf[l]] \in Methods
      BY FulfilmentAssumption DEF Products
    <3>. HIDE DEF outstanding
    <3>3. Allocated(AllocateLots(BalancesOf(ProductOf[l]), outstanding(l),
                                 Method[ProductOf[l]]), b) \in Nat
      BY <3>1, <3>2, BalancesAreRows, AllocatedIsNatural
    <3>. QED BY <3>3
  <2>. QED BY <2>2, <2>3
<1>. HIDE DEF drawn
<1>3. ASSUME NEW n \in Lines \X Rows
      PROVE  [drawn |-> drawn(n[1], n[2]) > 0, row |-> n[2],
              picked |-> drawn(n[1], n[2]), returned |-> 0] \in Item
  <2>1. drawn(n[1], n[2]) \in Nat /\ n[2] \in Rows
    BY <1>2
  <2>. QED BY <2>1 DEF Item
<1>. QED BY <1>1, <1>3 DEF Items

LEMMA ItemPlaces ==
    /\ IsFiniteSet(Lines \X Rows)
    /\ \A items \in Items : DOMAIN items = Lines \X Rows
<1>1. IsFiniteSet(Lines \X Rows)
  BY RowsAndLines, FS_Product
<1>. QED BY <1>1 DEF Items

(* What the items together take of a row or product is a quantity ... *)
LEMMA ItemTotals ==
    ASSUME NEW items \in Items
    PROVE  (\A b : OnRow(items, b) \in Nat) /\ (\A p : OfProduct(items, p) \in Nat)
<1>1. DOMAIN items = Lines \X Rows /\ \A n \in Lines \X Rows : items[n].picked \in Nat
  BY DEF Items, Item
<1>2. ASSUME NEW b PROVE OnRow(items, b) \in Nat
  <2> DEFINE f == [n \in DOMAIN items |-> IF items[n].row = b THEN items[n].picked ELSE 0]
  <2>1. DOMAIN f = Lines \X Rows /\ \A n \in DOMAIN f : f[n] \in Nat
    BY <1>1
  <2>2. OnRow(items, b) = SumFunction(f)
    BY DEF OnRow
  <2>. HIDE DEF f
  <2>. QED BY <2>1, <2>2, ItemPlaces, TotalNat
<1>3. ASSUME NEW p PROVE OfProduct(items, p) \in Nat
  <2> DEFINE f == [n \in DOMAIN items |-> IF ProductOf[n[1]] = p THEN items[n].picked ELSE 0]
  <2>1. DOMAIN f = Lines \X Rows /\ \A n \in DOMAIN f : f[n] \in Nat
    BY <1>1
  <2>2. OfProduct(items, p) = SumFunction(f)
    BY DEF OfProduct
  <2>. HIDE DEF f
  <2>. QED BY <2>1, <2>2, ItemPlaces, TotalNat
<1>. QED BY <1>2, <1>3

(* ... that counting what was returned leaves alone. *)
LEMMA ItemsAlike ==
    ASSUME NEW items, NEW new, DOMAIN new = DOMAIN items,
           \A n \in DOMAIN items : /\ new[n].row = items[n].row
                                   /\ new[n].picked = items[n].picked
    PROVE  /\ \A b : OnRow(new, b) = OnRow(items, b)
           /\ \A p : OfProduct(new, p) = OfProduct(items, p)
<1>1. ASSUME NEW b PROVE OnRow(new, b) = OnRow(items, b)
  <2>1. [n \in DOMAIN new |-> IF new[n].row = b THEN new[n].picked ELSE 0]
          = [n \in DOMAIN items |-> IF items[n].row = b THEN items[n].picked ELSE 0]
    OBVIOUS
  <2>. QED BY <2>1 DEF OnRow
<1>2. ASSUME NEW p PROVE OfProduct(new, p) = OfProduct(items, p)
  <2>1. [n \in DOMAIN new |-> IF ProductOf[n[1]] = p THEN new[n].picked ELSE 0]
          = [n \in DOMAIN items |-> IF ProductOf[n[1]] = p THEN items[n].picked ELSE 0]
    OBVIOUS
  <2>. QED BY <2>1 DEF OfProduct
<1>. QED BY <1>1, <1>2

-----------------------------------------------------------------------------
(* What issues add up to, for any list of issues *)

Issues(is) ==
    /\ is \in Seq(Issue)
    /\ \A i \in DOMAIN is :
          /\ is[i].reversalOf # 0 => /\ is[i].reversalOf \in 1..(i - 1)
                                     /\ is[i].status = "posted"
                                     /\ is[is[i].reversalOf].status = "posted"
          /\ is[i].reversed => \E j \in DOMAIN is : is[j].reversalOf = i
          /\ \A n \in DOMAIN is[i].items :
                /\ is[i].items[n].returned <= is[i].items[n].picked
                /\ is[i].status # "posted" => is[i].items[n].returned = 0

PostedIn(is) == {i \in DOMAIN is : is[i].status = "posted" /\ is[i].reversalOf = 0}
TakenIn(is)  == {i \in DOMAIN is : is[i].reversalOf # 0}

PickedIn(is, b)    == SumFunction([i \in PostedIn(is) |-> OnRow(is[i].items, b)])
GivenBackIn(is, b) == SumFunction([i \in TakenIn(is) |-> OnRow(is[i].items, b)])

OnceIn(is) ==
    \A i, j \in TakenIn(is) :
        /\ is[is[i].reversalOf].reversalOf = 0
        /\ is[i].reversalOf = is[j].reversalOf => i = j

KeptIn(is, r) == {i \in PostedIn(is) : is[i].request = r /\ ~is[i].reversed}

NetIn(is, r, p) == SumFunction([i \in KeptIn(is, r) |-> OfProduct(is[i].items, p)])

LEMMA SequenceDomain ==
    ASSUME NEW S, NEW s \in Seq(S)
    PROVE  /\ DOMAIN s = 1..Len(s) /\ Len(s) \in Nat /\ IsFiniteSet(DOMAIN s)
           /\ \A n \in DOMAIN s : s[n] \in S
<1>1. DOMAIN s = 1..Len(s) /\ Len(s) \in Nat /\ \A n \in DOMAIN s : s[n] \in S
  OBVIOUS
<1>2. IsFiniteSet(1..Len(s))
  BY <1>1, FS_Interval
<1>. QED BY <1>1, <1>2

LEMMA IssueFacts ==
    ASSUME NEW is, Issues(is)
    PROVE  /\ is \in Seq(Issue) /\ DOMAIN is = 1..Len(is) /\ Len(is) \in Nat
           /\ IsFiniteSet(DOMAIN is)
           /\ IsFiniteSet(PostedIn(is)) /\ PostedIn(is) \in SUBSET DOMAIN is
           /\ IsFiniteSet(TakenIn(is)) /\ TakenIn(is) \in SUBSET DOMAIN is
           /\ \A r : IsFiniteSet(KeptIn(is, r)) /\ KeptIn(is, r) \in SUBSET PostedIn(is)
           /\ \A i \in DOMAIN is : /\ is[i] \in Issue
                                   /\ \A b : OnRow(is[i].items, b) \in Nat
                                   /\ \A p : OfProduct(is[i].items, p) \in Nat
<1>1. is \in Seq(Issue)
  BY DEF Issues
<1>2. /\ DOMAIN is = 1..Len(is) /\ Len(is) \in Nat /\ IsFiniteSet(DOMAIN is)
      /\ \A i \in DOMAIN is : is[i] \in Issue
  BY <1>1, SequenceDomain
<1>3. /\ PostedIn(is) \in SUBSET DOMAIN is /\ TakenIn(is) \in SUBSET DOMAIN is
      /\ \A r : KeptIn(is, r) \in SUBSET PostedIn(is)
  BY DEF PostedIn, TakenIn, KeptIn
<1>4. /\ IsFiniteSet(PostedIn(is)) /\ IsFiniteSet(TakenIn(is))
      /\ \A r : IsFiniteSet(KeptIn(is, r))
  <2>1. IsFiniteSet(PostedIn(is)) /\ IsFiniteSet(TakenIn(is))
    BY <1>2, <1>3, FS_Subset
  <2>. QED BY <1>3, <2>1, FS_Subset
<1>5. \A i \in DOMAIN is : is[i].items \in Items
  BY <1>2 DEF Issue
<1>. QED BY <1>1, <1>2, <1>3, <1>4, <1>5, ItemTotals

(* Sums are natural numbers, and no smaller than what is summed. *)
LEMMA IssueTotals ==
    ASSUME NEW is, Issues(is)
    PROVE  /\ \A b : PickedIn(is, b) \in Nat /\ GivenBackIn(is, b) \in Nat
           /\ \A r, p : /\ NetIn(is, r, p) \in Nat
                        /\ \A i \in KeptIn(is, r) : OfProduct(is[i].items, p) <= NetIn(is, r, p)
<1>1. ASSUME NEW b
      PROVE  PickedIn(is, b) \in Nat /\ GivenBackIn(is, b) \in Nat
  <2> DEFINE f == [i \in PostedIn(is) |-> OnRow(is[i].items, b)]
             g == [i \in TakenIn(is) |-> OnRow(is[i].items, b)]
  <2>1. /\ DOMAIN f = PostedIn(is) /\ \A i \in DOMAIN f : f[i] \in Nat
        /\ DOMAIN g = TakenIn(is) /\ \A i \in DOMAIN g : g[i] \in Nat
    BY IssueFacts DEF PostedIn, TakenIn
  <2>2. PickedIn(is, b) = SumFunction(f) /\ GivenBackIn(is, b) = SumFunction(g)
    BY DEF PickedIn, GivenBackIn
  <2>3. IsFiniteSet(PostedIn(is)) /\ IsFiniteSet(TakenIn(is))
    BY IssueFacts
  <2>. HIDE DEF f, g
  <2>. QED BY <2>1, <2>2, <2>3, TotalNat
<1>2. ASSUME NEW r, NEW p
      PROVE  /\ NetIn(is, r, p) \in Nat
             /\ \A i \in KeptIn(is, r) : OfProduct(is[i].items, p) <= NetIn(is, r, p)
  <2> DEFINE f == [i \in KeptIn(is, r) |-> OfProduct(is[i].items, p)]
  <2>1. DOMAIN f = KeptIn(is, r) /\ \A i \in DOMAIN f : f[i] \in Nat
    BY IssueFacts DEF KeptIn, PostedIn
  <2>2. NetIn(is, r, p) = SumFunction(f)
    BY DEF NetIn
  <2>3. IsFiniteSet(KeptIn(is, r))
    BY IssueFacts
  <2>4. \A i \in KeptIn(is, r) : f[i] = OfProduct(is[i].items, p)
    OBVIOUS
  <2>. HIDE DEF f
  <2>5. SumFunction(f) \in Nat /\ \A i \in DOMAIN f : f[i] <= SumFunction(f)
    BY <2>1, <2>3, TotalNat, TotalBounds
  <2>. QED BY <2>1, <2>2, <2>4, <2>5
<1>. QED BY <1>1, <1>2

(* Two versions of an issue that count for the same. *)
CountsAs(y, x) ==
    /\ y.request = x.request /\ y.reversalOf = x.reversalOf /\ y.reversed = x.reversed
    /\ \A b : OnRow(y.items, b) = OnRow(x.items, b)
    /\ \A p : OfProduct(y.items, p) = OfProduct(x.items, p)

(* The same issues are posted, and count for the same. *)
SameCounts(is, new) ==
    /\ PostedIn(new) = PostedIn(is) /\ TakenIn(new) = TakenIn(is)
    /\ \A i \in PostedIn(is) : CountsAs(new[i], is[i])
    /\ \A i \in TakenIn(is) :
          /\ CountsAs(new[i], is[i])
          /\ new[is[i].reversalOf].reversalOf = is[is[i].reversalOf].reversalOf

LEMMA NothingPosted ==
    ASSUME NEW is, NEW new, SameCounts(is, new)
    PROVE  /\ \A b : PickedIn(new, b) = PickedIn(is, b) /\ GivenBackIn(new, b) = GivenBackIn(is, b)
           /\ OnceIn(new) => OnceIn(is)
           /\ \A r, p : NetIn(new, r, p) = NetIn(is, r, p)
<1>1. /\ PostedIn(new) = PostedIn(is) /\ TakenIn(new) = TakenIn(is)
      /\ \A i \in PostedIn(is) :
            /\ new[i].request = is[i].request /\ new[i].reversed = is[i].reversed
            /\ \A b : OnRow(new[i].items, b) = OnRow(is[i].items, b)
            /\ \A p : OfProduct(new[i].items, p) = OfProduct(is[i].items, p)
      /\ \A i \in TakenIn(is) :
            /\ new[i].reversalOf = is[i].reversalOf
            /\ \A b : OnRow(new[i].items, b) = OnRow(is[i].items, b)
            /\ new[is[i].reversalOf].reversalOf = is[is[i].reversalOf].reversalOf
  BY DEF SameCounts, CountsAs
<1>2. ASSUME NEW b
      PROVE  PickedIn(new, b) = PickedIn(is, b) /\ GivenBackIn(new, b) = GivenBackIn(is, b)
  <2>1. [i \in PostedIn(new) |-> OnRow(new[i].items, b)]
          = [i \in PostedIn(is) |-> OnRow(is[i].items, b)]
    BY <1>1
  <2>2. [i \in TakenIn(new) |-> OnRow(new[i].items, b)]
          = [i \in TakenIn(is) |-> OnRow(is[i].items, b)]
    BY <1>1
  <2>. QED BY <2>1, <2>2 DEF PickedIn, GivenBackIn
<1>3. ASSUME OnceIn(new) PROVE OnceIn(is)
  <2>1. \A i, j \in TakenIn(is) : /\ new[new[i].reversalOf].reversalOf = 0
                                  /\ new[i].reversalOf = new[j].reversalOf => i = j
    BY <1>1, <1>3 DEF OnceIn
  <2>2. \A i \in TakenIn(is) : new[new[i].reversalOf].reversalOf = is[is[i].reversalOf].reversalOf
    BY <1>1
  <2>3. \A i, j \in TakenIn(is) :
           new[i].reversalOf = new[j].reversalOf <=> is[i].reversalOf = is[j].reversalOf
    BY <1>1
  <2>. QED BY <2>1, <2>2, <2>3 DEF OnceIn
<1>4. ASSUME NEW r, NEW p PROVE NetIn(new, r, p) = NetIn(is, r, p)
  <2>1. KeptIn(new, r) = KeptIn(is, r)
    BY <1>1 DEF KeptIn
  <2>2. \A i \in KeptIn(is, r) : i \in PostedIn(is)
    BY DEF KeptIn
  <2>3. [i \in KeptIn(new, r) |-> OfProduct(new[i].items, p)]
          = [i \in KeptIn(is, r) |-> OfProduct(is[i].items, p)]
    BY <1>1, <2>1, <2>2
  <2>. QED BY <2>3 DEF NetIn
<1>. QED BY <1>2, <1>3, <1>4

(* Issues that are new, or were not posted, are not posted now. *)
UnpostedChange(is, new) ==
    /\ Issues(is) /\ new \in Seq(Issue) /\ DOMAIN is \subseteq DOMAIN new
    /\ \A q \in DOMAIN new :
          \/ q \in DOMAIN is /\ new[q] = is[q]
          \/ /\ new[q].status # "posted" /\ new[q].reversalOf = 0 /\ ~new[q].reversed
             /\ \A n \in DOMAIN new[q].items : new[q].items[n].returned = 0
             /\ q \in DOMAIN is => is[q].status # "posted"

LEMMA NonePosted ==
    ASSUME NEW is, NEW new, UnpostedChange(is, new)
    PROVE  Issues(new) /\ SameCounts(is, new)
<1>. /\ Issues(is) /\ new \in Seq(Issue) /\ DOMAIN is \subseteq DOMAIN new
     /\ \A q \in DOMAIN new :
           \/ q \in DOMAIN is /\ new[q] = is[q]
           \/ /\ new[q].status # "posted" /\ new[q].reversalOf = 0 /\ ~new[q].reversed
              /\ \A n \in DOMAIN new[q].items : new[q].items[n].returned = 0
              /\ q \in DOMAIN is => is[q].status # "posted"
  BY DEF UnpostedChange
<1>1. DOMAIN is = 1..Len(is) /\ Len(is) \in Nat
  BY IssueFacts
<1>2. ASSUME NEW q \in DOMAIN is, is[q].status = "posted" \/ is[q].reversalOf # 0
      PROVE  new[q] = is[q]
  BY <1>2 DEF Issues
<1>3. ASSUME NEW q \in DOMAIN new, new[q].status = "posted" \/ new[q].reversalOf # 0
      PROVE  q \in DOMAIN is /\ new[q] = is[q]
  BY <1>3
<1>4. PostedIn(new) = PostedIn(is)
  BY <1>2, <1>3 DEF PostedIn
<1>5. TakenIn(new) = TakenIn(is)
  BY <1>2, <1>3 DEF TakenIn
<1>6. \A q \in PostedIn(is) \cup TakenIn(is) : new[q] = is[q]
  BY <1>2 DEF PostedIn, TakenIn
<1>7. ASSUME NEW q \in DOMAIN is, is[q].reversalOf # 0
      PROVE  /\ is[q].reversalOf \in 1..(q - 1) /\ is[q].reversalOf \in DOMAIN is
             /\ is[q].status = "posted" /\ is[is[q].reversalOf].status = "posted"
             /\ new[is[q].reversalOf] = is[is[q].reversalOf]
  <2>1. /\ is[q].reversalOf \in 1..(q - 1)
        /\ is[q].status = "posted" /\ is[is[q].reversalOf].status = "posted"
    BY <1>7 DEF Issues
  <2>2. q \in 1..Len(is) /\ Len(is) \in Nat
    BY <1>1
  <2>3. is[q].reversalOf \in DOMAIN is
    BY <1>1, <2>1, <2>2
  <2>. QED BY <1>2, <2>1, <2>3
<1>8. \A q \in TakenIn(is) : new[is[q].reversalOf] = is[is[q].reversalOf]
  BY <1>7 DEF TakenIn
<1>9. ASSUME NEW q \in DOMAIN new, new[q].reversalOf # 0
      PROVE  /\ new[q].reversalOf \in 1..(q - 1)
             /\ new[q].status = "posted" /\ new[new[q].reversalOf].status = "posted"
  BY <1>3, <1>7, <1>9
<1>10. ASSUME NEW q \in DOMAIN new, new[q].reversed
       PROVE  \E j \in DOMAIN new : new[j].reversalOf = q
  <2>1. q \in DOMAIN is /\ is[q].reversed
    BY <1>10
  <2>2. PICK j \in DOMAIN is : is[j].reversalOf = q
    BY <2>1 DEF Issues
  <2>3. new[j] = is[j]
    BY <1>1, <1>2, <2>1, <2>2
  <2>. QED BY <2>2, <2>3
<1>11. ASSUME NEW q \in DOMAIN new, NEW n \in DOMAIN new[q].items
       PROVE  /\ new[q].items[n].returned <= new[q].items[n].picked
              /\ new[q].status # "posted" => new[q].items[n].returned = 0
  <2>1. CASE q \in DOMAIN is /\ new[q] = is[q]
    BY <1>11, <2>1 DEF Issues
  <2>2. CASE /\ new[q].status # "posted"
             /\ \A m \in DOMAIN new[q].items : new[q].items[m].returned = 0
    <3>1. new[q].items[n].picked \in Nat
      <4>1. new[q].items \in Items
        <5>1. new[q] \in Issue
          BY <1>11, SequenceDomain
        <5>. QED BY <5>1 DEF Issue
      <4>. QED BY <1>11, <4>1 DEF Items, Item
    <3>. QED BY <1>11, <2>2, <3>1
  <2>. QED BY <2>1, <2>2
<1>12. Issues(new)
  BY <1>9, <1>10, <1>11 DEF Issues
<1>13. SameCounts(is, new)
  BY <1>4, <1>5, <1>6, <1>8 DEF SameCounts, CountsAs
<1>. QED BY <1>12, <1>13

(* One issue is replaced by another version of it. *)
Replaces(is, i, y, new) ==
    Issues(is) /\ i \in DOMAIN is /\ y \in Issue /\ new = [is EXCEPT ![i] = y]

LEMMA Replaced ==
    ASSUME NEW is, NEW i, NEW y, NEW new, Replaces(is, i, y, new)
    PROVE  /\ new \in Seq(Issue) /\ DOMAIN new = DOMAIN is /\ i \in DOMAIN is
           /\ new[i] = y /\ \A q \in DOMAIN is \ {i} : new[q] = is[q]
<1>1. is \in Seq(Issue) /\ i \in DOMAIN is /\ y \in Issue /\ new = [is EXCEPT ![i] = y]
  BY DEF Replaces, Issues
<1>. QED BY ONLY <1>1

(* What was returned is counted in a posted issue. *)
LEMMA OneReturned ==
    ASSUME NEW is, NEW i, NEW y, NEW new, Replaces(is, i, y, new),
           is[i].status = "posted", y.status = "posted", CountsAs(y, is[i]),
           \A n \in DOMAIN y.items : y.items[n].returned <= y.items[n].picked
    PROVE  Issues(new) /\ SameCounts(is, new)
<1>1. /\ new \in Seq(Issue) /\ DOMAIN new = DOMAIN is /\ i \in DOMAIN is
      /\ new[i] = y /\ \A q \in DOMAIN is \ {i} : new[q] = is[q]
  BY Replaced
<1>2. Issues(is) /\ DOMAIN is = 1..Len(is) /\ Len(is) \in Nat
  BY IssueFacts DEF Replaces
<1>3. /\ y.request = is[i].request /\ y.reversalOf = is[i].reversalOf
      /\ y.reversed = is[i].reversed
  BY DEF CountsAs
<1>4. \A q \in DOMAIN is : CountsAs(new[q], is[q]) /\ new[q].status = is[q].status
  <2>1. CountsAs(new[i], is[i])
    BY <1>1
  <2>2. \A q \in DOMAIN is : CountsAs(is[q], is[q])
    BY DEF CountsAs
  <2>. QED BY <1>1, <2>1, <2>2
<1>5. \A q \in DOMAIN is : /\ new[q].reversalOf = is[q].reversalOf
                           /\ new[q].reversed = is[q].reversed
                           /\ new[q].status = is[q].status
  BY <1>4 DEF CountsAs
<1>6. ASSUME NEW q \in DOMAIN is, is[q].reversalOf # 0
      PROVE  /\ is[q].reversalOf \in 1..(q - 1) /\ is[q].reversalOf \in DOMAIN is
             /\ is[q].status = "posted" /\ is[is[q].reversalOf].status = "posted"
  BY <1>2, <1>6 DEF Issues
<1>7. Issues(new)
  <2>1. ASSUME NEW q \in DOMAIN is, new[q].reversalOf # 0
        PROVE  /\ new[q].reversalOf \in 1..(q - 1)
               /\ new[q].status = "posted" /\ new[new[q].reversalOf].status = "posted"
    BY <1>5, <1>6, <2>1
  <2>2. ASSUME NEW q \in DOMAIN is, new[q].reversed
        PROVE  \E j \in DOMAIN is : new[j].reversalOf = q
    <3>1. is[q].reversed
      BY <1>5, <2>2, Zenon
    <3>2. \E j \in DOMAIN is : is[j].reversalOf = q
      BY <1>2, <3>1 DEF Issues
    <3>. QED BY <1>5, <3>2
  <2>3. ASSUME NEW q \in DOMAIN is, NEW n \in DOMAIN new[q].items
        PROVE  /\ new[q].items[n].returned <= new[q].items[n].picked
               /\ new[q].status # "posted" => new[q].items[n].returned = 0
    BY <1>1, <1>2, <2>3 DEF Issues
  <2>. QED BY <1>1, <2>1, <2>2, <2>3 DEF Issues
<1>8. PostedIn(new) = PostedIn(is) /\ TakenIn(new) = TakenIn(is)
  BY <1>1, <1>5 DEF PostedIn, TakenIn
<1>9. \A q \in TakenIn(is) : new[is[q].reversalOf].reversalOf = is[is[q].reversalOf].reversalOf
  BY <1>5, <1>6 DEF TakenIn
<1>10. SameCounts(is, new)
  BY <1>4, <1>8, <1>9, IssueFacts, <1>2 DEF SameCounts
<1>. QED BY <1>7, <1>10

(* An issue is posted. *)
Posting(is, i, y, new) ==
    /\ Replaces(is, i, y, new) /\ is[i].status # "posted" /\ y.status = "posted"
    /\ y.request = is[i].request /\ y.reversalOf = is[i].reversalOf
    /\ y.reversed = is[i].reversed /\ y.items = is[i].items

LEMMA OnePosted ==
    ASSUME NEW is, NEW i, NEW y, NEW new, Posting(is, i, y, new)
    PROVE  /\ Issues(new)
           /\ \A b : /\ PickedIn(new, b) = PickedIn(is, b) + OnRow(is[i].items, b)
                     /\ GivenBackIn(new, b) = GivenBackIn(is, b)
           /\ OnceIn(new) => OnceIn(is)
           /\ \A r, p : NetIn(new, r, p) = NetIn(is, r, p)
                            + IF is[i].request = r THEN OfProduct(is[i].items, p) ELSE 0
<1>. /\ Replaces(is, i, y, new) /\ is[i].status # "posted" /\ y.status = "posted"
     /\ y.request = is[i].request /\ y.reversalOf = is[i].reversalOf
     /\ y.reversed = is[i].reversed /\ y.items = is[i].items
  BY DEF Posting
<1>1. /\ new \in Seq(Issue) /\ DOMAIN new = DOMAIN is /\ i \in DOMAIN is
      /\ new[i] = y /\ \A q \in DOMAIN is \ {i} : new[q] = is[q]
  BY Replaced
<1>2. Issues(is)
  BY DEF Replaces
<1>3. /\ DOMAIN is = 1..Len(is) /\ Len(is) \in Nat
      /\ IsFiniteSet(PostedIn(is)) /\ PostedIn(is) \in SUBSET DOMAIN is
      /\ IsFiniteSet(TakenIn(is)) /\ TakenIn(is) \in SUBSET DOMAIN is
      /\ \A r : IsFiniteSet(KeptIn(is, r)) /\ KeptIn(is, r) \in SUBSET PostedIn(is)
      /\ \A q \in DOMAIN is : /\ is[q] \in Issue
                              /\ \A b : OnRow(is[q].items, b) \in Nat
                              /\ \A p : OfProduct(is[q].items, p) \in Nat
  BY <1>2, IssueFacts
<1>4. is[i].reversalOf = 0
  BY <1>1, <1>2 DEF Issues
<1>5. ~is[i].reversed
  <2> SUFFICES ASSUME is[i].reversed PROVE FALSE
    OBVIOUS
  <2>1. PICK j \in DOMAIN is : is[j].reversalOf = i
    BY <1>1, <1>2 DEF Issues
  <2>2. is[j].reversalOf # 0
    BY <1>1, <1>3, <2>1
  <2>. QED BY <1>2, <2>1, <2>2 DEF Issues
<1>6. /\ \A q \in DOMAIN is : /\ new[q].request = is[q].request
                              /\ new[q].reversalOf = is[q].reversalOf
                              /\ new[q].reversed = is[q].reversed
                              /\ new[q].items = is[q].items
                              /\ is[q].status = "posted" => new[q].status = "posted"
  BY <1>1
<1>7. ASSUME NEW q \in DOMAIN is, is[q].reversalOf # 0
      PROVE  /\ is[q].reversalOf \in 1..(q - 1) /\ is[q].reversalOf \in DOMAIN is
             /\ is[q].status = "posted" /\ is[is[q].reversalOf].status = "posted"
  BY <1>2, <1>3, <1>7 DEF Issues
<1>8. Issues(new)
  <2>1. ASSUME NEW q \in DOMAIN is, new[q].reversalOf # 0
        PROVE  /\ new[q].reversalOf \in 1..(q - 1)
               /\ new[q].status = "posted" /\ new[new[q].reversalOf].status = "posted"
    BY <1>6, <1>7, <2>1
  <2>2. ASSUME NEW q \in DOMAIN is, new[q].reversed
        PROVE  \E j \in DOMAIN is : new[j].reversalOf = q
    <3>1. is[q].reversed
      BY <1>6, <2>2, Zenon
    <3>2. \E j \in DOMAIN is : is[j].reversalOf = q
      BY <1>2, <3>1 DEF Issues
    <3>. QED BY <1>6, <3>2
  <2>3. ASSUME NEW q \in DOMAIN is, NEW n \in DOMAIN new[q].items
        PROVE  /\ new[q].items[n].returned <= new[q].items[n].picked
               /\ new[q].status # "posted" => new[q].items[n].returned = 0
    <3>1. new[q].items = is[q].items /\ n \in DOMAIN is[q].items
      BY <1>6, <2>3
    <3>2. /\ is[q].items[n].returned <= is[q].items[n].picked
          /\ is[q].status # "posted" => is[q].items[n].returned = 0
      BY <1>2, <3>1 DEF Issues
    <3>. QED BY <1>6, <3>1, <3>2
  <2>. QED BY <1>1, <2>1, <2>2, <2>3 DEF Issues
<1>9. PostedIn(new) = PostedIn(is) \cup {i} /\ i \notin PostedIn(is)
  BY <1>1, <1>4 DEF PostedIn
<1>10. TakenIn(new) = TakenIn(is)
  BY <1>1, <1>6 DEF TakenIn
<1>11. ASSUME NEW b
       PROVE  /\ PickedIn(new, b) = PickedIn(is, b) + OnRow(is[i].items, b)
              /\ GivenBackIn(new, b) = GivenBackIn(is, b)
  <2> DEFINE f == [q \in PostedIn(is) |-> OnRow(is[q].items, b)]
             g == [q \in PostedIn(new) |-> OnRow(new[q].items, b)]
  <2>1. DOMAIN f = PostedIn(is) /\ DOMAIN g = DOMAIN f \cup {i}
    BY <1>9
  <2>2. \A q \in DOMAIN f : /\ f[q] = OnRow(is[q].items, b) /\ g[q] = OnRow(new[q].items, b)
    BY <1>9
  <2>3. g[i] = OnRow(new[i].items, b)
    BY <1>9
  <2>4. PickedIn(is, b) = SumFunction(f) /\ PickedIn(new, b) = SumFunction(g)
    BY DEF PickedIn
  <2>. HIDE DEF f, g
  <2>5. g[i] = OnRow(is[i].items, b) /\ g[i] \in Int
    BY <1>1, <1>3, <2>3
  <2>6. \A q \in DOMAIN f : f[q] \in Int /\ g[q] = f[q]
    <3>1. ASSUME NEW q \in DOMAIN f PROVE f[q] \in Int /\ g[q] = f[q]
      <4>1. q \in DOMAIN is
        BY <1>3, <2>1
      <4>. QED BY <1>3, <1>6, <2>2, <4>1
    <3>. QED BY <3>1
  <2>7. SumFunction(g) = SumFunction(f) + g[i]
    BY <1>3, <1>9, <2>1, <2>5, <2>6, TotalAdd
  <2>8. [q \in TakenIn(new) |-> OnRow(new[q].items, b)]
          = [q \in TakenIn(is) |-> OnRow(is[q].items, b)]
    BY <1>3, <1>6, <1>10
  <2>. QED BY <2>4, <2>5, <2>7, <2>8 DEF GivenBackIn
<1>12. ASSUME OnceIn(new) PROVE OnceIn(is)
  <2>1. \A q \in TakenIn(is) : /\ q \in DOMAIN is /\ is[q].reversalOf \in DOMAIN is
    BY <1>3, <1>7 DEF TakenIn
  <2>2. \A q \in TakenIn(is) : /\ new[q].reversalOf = is[q].reversalOf
                               /\ new[new[q].reversalOf].reversalOf
                                      = is[is[q].reversalOf].reversalOf
    BY <1>6, <2>1
  <2>3. \A q, s \in TakenIn(is) : /\ new[new[q].reversalOf].reversalOf = 0
                                  /\ new[q].reversalOf = new[s].reversalOf => q = s
    BY <1>10, <1>12 DEF OnceIn
  <2>. QED BY <2>2, <2>3 DEF OnceIn
<1>13. ASSUME NEW r, NEW p
       PROVE  NetIn(new, r, p) = NetIn(is, r, p)
                  + IF is[i].request = r THEN OfProduct(is[i].items, p) ELSE 0
  <2> DEFINE f == [q \in KeptIn(is, r) |-> OfProduct(is[q].items, p)]
             g == [q \in KeptIn(new, r) |-> OfProduct(new[q].items, p)]
  <2>1. KeptIn(is, r) \in SUBSET DOMAIN is /\ i \notin KeptIn(is, r)
    BY <1>3, <1>9
  <2>2. KeptIn(new, r) = IF is[i].request = r THEN KeptIn(is, r) \cup {i} ELSE KeptIn(is, r)
    <3>1. ASSUME NEW q
          PROVE  q \in KeptIn(new, r) <=> q \in KeptIn(is, r) \/ (q = i /\ is[i].request = r)
      BY <1>1, <1>3, <1>5, <1>6, <1>9, <2>1, Zenon DEF KeptIn
    <3>. QED BY <3>1
  <2>3. DOMAIN f = KeptIn(is, r) /\ DOMAIN g = KeptIn(new, r)
    OBVIOUS
  <2>4. NetIn(is, r, p) = SumFunction(f) /\ NetIn(new, r, p) = SumFunction(g)
    BY DEF NetIn
  <2>5. (\A q \in KeptIn(is, r) : f[q] = OfProduct(is[q].items, p))
        /\ \A q \in KeptIn(new, r) : g[q] = OfProduct(new[q].items, p)
    OBVIOUS
  <2>. HIDE DEF f, g
  <2>6. \A q \in DOMAIN f : f[q] \in Int /\ g[q] = f[q]
    <3>1. ASSUME NEW q \in DOMAIN f PROVE f[q] \in Int /\ g[q] = f[q]
      <4>1. q \in DOMAIN is /\ q \in KeptIn(is, r) /\ q \in KeptIn(new, r)
        BY <2>1, <2>2, <2>3
      <4>. QED BY <1>3, <1>6, <2>5, <4>1
    <3>. QED BY <3>1
  <2>7. CASE is[i].request = r
    <3>1. DOMAIN g = DOMAIN f \cup {i} /\ i \notin DOMAIN f /\ IsFiniteSet(DOMAIN f)
      BY <1>3, <2>1, <2>2, <2>3, <2>7
    <3>2. g[i] = OfProduct(is[i].items, p) /\ g[i] \in Int
      <4>1. g[i] = OfProduct(new[i].items, p)
        BY <2>2, <2>5, <2>7
      <4>. QED BY <1>1, <1>3, <4>1
    <3>3. SumFunction(g) = SumFunction(f) + g[i]
      BY <2>6, <3>1, <3>2, TotalAdd
    <3>. QED BY <2>4, <2>7, <3>2, <3>3
  <2>8. CASE is[i].request # r
    <3>1. DOMAIN g = DOMAIN f /\ IsFiniteSet(DOMAIN f)
      BY <1>3, <2>2, <2>3, <2>8
    <3>2. SumFunction(g) = SumFunction(f) /\ SumFunction(f) \in Int
      BY <2>6, <3>1, TotalSame, TotalInt
    <3>. QED BY <2>4, <2>8, <3>2
  <2>. QED BY <2>7, <2>8
<1>. QED BY <1>8, <1>11, <1>12, <1>13

(* An issue is reversed: stamped, and followed by its reversal. *)
Reversing(is, i, y, reversal, new) ==
    /\ Issues(is) /\ i \in DOMAIN is /\ is[i].status = "posted"
    /\ y \in Issue /\ y.status = "posted" /\ y.reversed
    /\ y.request = is[i].request /\ y.reversalOf = is[i].reversalOf /\ y.items = is[i].items
    /\ reversal \in Issue /\ reversal.status = "posted" /\ ~reversal.reversed
    /\ reversal.request = is[i].request /\ reversal.reversalOf = i
    /\ reversal.items = is[i].items
    /\ new = Append([is EXCEPT ![i] = y], reversal)

LEMMA OneReversed ==
    ASSUME NEW is, NEW i, NEW y, NEW reversal, NEW new, Reversing(is, i, y, reversal, new)
    PROVE  /\ Issues(new)
           /\ \A b : /\ PickedIn(new, b) = PickedIn(is, b)
                     /\ GivenBackIn(new, b) = GivenBackIn(is, b) + OnRow(is[i].items, b)
           /\ OnceIn(new) =>
                 /\ OnceIn(is)
                 /\ \A r, p :
                       /\ NetIn(new, r, p) = NetIn(is, r, p)
                              - IF is[i].request = r THEN OfProduct(is[i].items, p) ELSE 0
                       /\ is[i].request = r => OfProduct(is[i].items, p) <= NetIn(is, r, p)
<1>. /\ Issues(is) /\ i \in DOMAIN is /\ is[i].status = "posted"
     /\ y \in Issue /\ y.status = "posted" /\ y.reversed
     /\ y.request = is[i].request /\ y.reversalOf = is[i].reversalOf /\ y.items = is[i].items
     /\ reversal \in Issue /\ reversal.status = "posted" /\ ~reversal.reversed
     /\ reversal.request = is[i].request /\ reversal.reversalOf = i
     /\ reversal.items = is[i].items
  BY DEF Reversing
<1>. PICK n : n = Len(is) + 1
  OBVIOUS
<1>1. /\ new \in Seq(Issue) /\ DOMAIN new = DOMAIN is \cup {n} /\ n \notin DOMAIN is
      /\ new[n] = reversal /\ new[i] = y /\ \A q \in DOMAIN is \ {i} : new[q] = is[q]
  <2>1. /\ is \in Seq(Issue) /\ i \in DOMAIN is /\ y \in Issue /\ reversal \in Issue
        /\ new = Append([is EXCEPT ![i] = y], reversal)
    BY DEF Reversing, Issues
  <2>2. PICK mid : mid = [is EXCEPT ![i] = y]
    OBVIOUS
  <2>3. /\ mid \in Seq(Issue) /\ DOMAIN mid = DOMAIN is /\ Len(mid) = Len(is)
        /\ mid[i] = y /\ \A q \in DOMAIN is \ {i} : mid[q] = is[q]
    BY ONLY <2>1, <2>2
  <2>4. new = Append(mid, reversal) /\ DOMAIN mid = 1..Len(mid) /\ Len(mid) \in Nat
    BY <2>1, <2>2, <2>3
  <2>5. /\ new \in Seq(Issue) /\ DOMAIN new = 1..(Len(mid) + 1)
        /\ new[Len(mid) + 1] = reversal /\ \A q \in 1..Len(mid) : new[q] = mid[q]
    <3>1. mid \in Seq(Issue) /\ reversal \in Issue /\ new = Append(mid, reversal)
      BY <2>1, <2>3, <2>4
    <3>. QED BY ONLY <3>1
  <2>6. 1..(Len(mid) + 1) = 1..Len(mid) \cup {Len(mid) + 1} /\ Len(mid) + 1 \notin 1..Len(mid)
    BY <2>4
  <2>. QED BY <2>1, <2>3, <2>4, <2>5, <2>6
<1>2. /\ DOMAIN is = 1..Len(is) /\ Len(is) \in Nat
      /\ IsFiniteSet(PostedIn(is)) /\ PostedIn(is) \in SUBSET DOMAIN is
      /\ IsFiniteSet(TakenIn(is)) /\ TakenIn(is) \in SUBSET DOMAIN is
      /\ \A r : IsFiniteSet(KeptIn(is, r)) /\ KeptIn(is, r) \in SUBSET PostedIn(is)
      /\ \A q \in DOMAIN is : /\ is[q] \in Issue
                              /\ \A b : OnRow(is[q].items, b) \in Nat
                              /\ \A p : OfProduct(is[q].items, p) \in Nat
  BY IssueFacts
<1>3. i \in 1..(n - 1) /\ i # 0 /\ n \in Nat
  BY <1>2
<1>4. \A q \in DOMAIN is : /\ new[q].request = is[q].request
                           /\ new[q].reversalOf = is[q].reversalOf
                           /\ new[q].status = is[q].status
                           /\ new[q].items = is[q].items
                           /\ q # i => new[q].reversed = is[q].reversed
  BY <1>1
<1>5. ASSUME NEW q \in DOMAIN is, is[q].reversalOf # 0
      PROVE  /\ is[q].reversalOf \in 1..(q - 1) /\ is[q].reversalOf \in DOMAIN is
             /\ is[q].status = "posted" /\ is[is[q].reversalOf].status = "posted"
  BY <1>2, <1>5 DEF Issues
<1>6. Issues(new)
  <2>1. ASSUME NEW q \in DOMAIN new, new[q].reversalOf # 0
        PROVE  /\ new[q].reversalOf \in 1..(q - 1)
               /\ new[q].status = "posted" /\ new[new[q].reversalOf].status = "posted"
    <3>1. CASE q = n
      BY <1>1, <1>3, <1>4, <3>1
    <3>2. CASE q \in DOMAIN is
      BY <1>4, <1>5, <2>1, <3>2
    <3>. QED BY <1>1, <3>1, <3>2
  <2>2. ASSUME NEW q \in DOMAIN new, new[q].reversed
        PROVE  \E j \in DOMAIN new : new[j].reversalOf = q
    <3>1. CASE q = n
      BY <1>1, <2>2, <3>1
    <3>2. CASE q = i
      BY <1>1, <3>2
    <3>3. CASE q \in DOMAIN is /\ q # i
      <4>1. is[q].reversed
        BY <1>1, <2>2, <3>3
      <4>2. \E j \in DOMAIN is : is[j].reversalOf = q
        BY <4>1, <3>3 DEF Issues
      <4>. QED BY <1>1, <1>4, <4>2
    <3>. QED BY <1>1, <3>1, <3>2, <3>3
  <2>3. ASSUME NEW q \in DOMAIN new, NEW m \in DOMAIN new[q].items
        PROVE  /\ new[q].items[m].returned <= new[q].items[m].picked
               /\ new[q].status # "posted" => new[q].items[m].returned = 0
    <3>1. PICK s \in DOMAIN is : new[q].items = is[s].items /\ new[q].status = is[s].status
      BY <1>1, <1>4
    <3>. QED BY <2>3, <3>1 DEF Issues
  <2>. QED BY <1>1, <2>1, <2>2, <2>3 DEF Issues
<1>7. PostedIn(new) = PostedIn(is)
  BY <1>1, <1>3, <1>4 DEF PostedIn
<1>8. TakenIn(new) = TakenIn(is) \cup {n} /\ n \notin TakenIn(is)
  BY <1>1, <1>2, <1>3, <1>4 DEF TakenIn
<1>9. ASSUME NEW b
      PROVE  /\ PickedIn(new, b) = PickedIn(is, b)
             /\ GivenBackIn(new, b) = GivenBackIn(is, b) + OnRow(is[i].items, b)
  <2>1. [q \in PostedIn(new) |-> OnRow(new[q].items, b)]
          = [q \in PostedIn(is) |-> OnRow(is[q].items, b)]
    BY <1>2, <1>4, <1>7
  <2> DEFINE f == [q \in TakenIn(is) |-> OnRow(is[q].items, b)]
             g == [q \in TakenIn(new) |-> OnRow(new[q].items, b)]
  <2>2. DOMAIN f = TakenIn(is) /\ DOMAIN g = DOMAIN f \cup {n}
    BY <1>8
  <2>3. g[n] = OnRow(new[n].items, b)
    BY <1>8
  <2>4. \A q \in DOMAIN f : f[q] = OnRow(is[q].items, b) /\ g[q] = OnRow(new[q].items, b)
    BY <1>8
  <2>5. GivenBackIn(is, b) = SumFunction(f) /\ GivenBackIn(new, b) = SumFunction(g)
    BY DEF GivenBackIn
  <2>. HIDE DEF f, g
  <2>6. g[n] = OnRow(is[i].items, b) /\ g[n] \in Int
    BY <1>1, <1>2, <2>3
  <2>7. \A q \in DOMAIN f : f[q] \in Int /\ g[q] = f[q]
    <3>1. ASSUME NEW q \in DOMAIN f PROVE f[q] \in Int /\ g[q] = f[q]
      <4>1. q \in DOMAIN is
        BY <1>2, <2>2
      <4>. QED BY <1>2, <1>4, <2>4, <4>1
    <3>. QED BY <3>1
  <2>8. SumFunction(g) = SumFunction(f) + g[n]
    BY <1>2, <1>8, <2>2, <2>6, <2>7, TotalAdd
  <2>. QED BY <2>1, <2>5, <2>6, <2>8 DEF PickedIn
<1>10. ASSUME OnceIn(new)
       PROVE  OnceIn(is) /\ i \in PostedIn(is) /\ ~is[i].reversed
  <2>1. \A q, s \in TakenIn(new) : /\ new[new[q].reversalOf].reversalOf = 0
                                   /\ new[q].reversalOf = new[s].reversalOf => q = s
    BY <1>10 DEF OnceIn
  <2>2. \A q \in TakenIn(is) : q \in DOMAIN is /\ is[q].reversalOf \in DOMAIN is
    BY <1>2, <1>5 DEF TakenIn
  <2>3. \A q \in TakenIn(is) : /\ q \in TakenIn(new) /\ new[q].reversalOf = is[q].reversalOf
                               /\ new[new[q].reversalOf].reversalOf
                                      = is[is[q].reversalOf].reversalOf
    BY <1>4, <1>8, <2>2
  <2>4. OnceIn(is)
    BY <2>1, <2>3 DEF OnceIn
  <2>5. n \in TakenIn(new) /\ new[n].reversalOf = i
    BY <1>1, <1>8
  <2>6. is[i].reversalOf = 0
    BY <1>4, <2>1, <2>5
  <2>7. i \in PostedIn(is)
    BY <2>6 DEF PostedIn
  <2>8. ASSUME is[i].reversed PROVE FALSE
    <3>1. PICK j \in DOMAIN is : is[j].reversalOf = i
      BY <2>8 DEF Issues
    <3>2. j \in TakenIn(is)
      BY <1>3, <3>1 DEF TakenIn
    <3>3. j \in TakenIn(new) /\ new[j].reversalOf = i
      BY <2>3, <3>1, <3>2
    <3>4. j = n
      BY <2>1, <2>5, <3>3
    <3>. QED BY <1>1, <3>4
  <2>. QED BY <2>4, <2>7, <2>8
<1>11. ASSUME OnceIn(new), NEW r, NEW p
       PROVE  /\ NetIn(new, r, p) = NetIn(is, r, p)
                     - IF is[i].request = r THEN OfProduct(is[i].items, p) ELSE 0
              /\ is[i].request = r => OfProduct(is[i].items, p) <= NetIn(is, r, p)
  <2>1. i \in PostedIn(is) /\ ~is[i].reversed
    BY <1>10, <1>11
  <2> DEFINE f == [q \in KeptIn(new, r) |-> OfProduct(new[q].items, p)]
             g == [q \in KeptIn(is, r) |-> OfProduct(is[q].items, p)]
  <2>2. KeptIn(is, r) \in SUBSET DOMAIN is
    BY <1>2
  <2>3. KeptIn(is, r) = IF is[i].request = r THEN KeptIn(new, r) \cup {i} ELSE KeptIn(new, r)
    <3>1. ASSUME NEW q
          PROVE  q \in KeptIn(is, r) <=> q \in KeptIn(new, r) \/ (q = i /\ is[i].request = r)
      BY <1>1, <1>2, <1>4, <1>7, <2>1, Zenon DEF KeptIn
    <3>. QED BY <3>1
  <2>4. i \notin KeptIn(new, r)
    BY <1>1 DEF KeptIn
  <2>5. DOMAIN f = KeptIn(new, r) /\ DOMAIN g = KeptIn(is, r)
    OBVIOUS
  <2>6. NetIn(new, r, p) = SumFunction(f) /\ NetIn(is, r, p) = SumFunction(g)
    BY DEF NetIn
  <2>7. (\A q \in KeptIn(new, r) : f[q] = OfProduct(new[q].items, p))
        /\ \A q \in KeptIn(is, r) : g[q] = OfProduct(is[q].items, p)
    OBVIOUS
  <2>. HIDE DEF f, g
  <2>8. \A q \in DOMAIN f : f[q] \in Int /\ g[q] = f[q]
    <3>1. ASSUME NEW q \in DOMAIN f PROVE f[q] \in Int /\ g[q] = f[q]
      <4>1. q \in DOMAIN is /\ q \in KeptIn(is, r) /\ q \in KeptIn(new, r)
        BY <2>2, <2>3, <2>5
      <4>. QED BY <1>2, <1>4, <2>7, <4>1
    <3>. QED BY <3>1
  <2>9. IsFiniteSet(DOMAIN f)
    <3>1. DOMAIN f \in SUBSET KeptIn(is, r) /\ IsFiniteSet(KeptIn(is, r))
      BY <1>2, <2>3, <2>5
    <3>. QED BY <3>1, FS_Subset
  <2>10. SumFunction(f) \in Int
    BY <2>8, <2>9, TotalInt
  <2>11. CASE is[i].request = r
    <3>1. DOMAIN g = DOMAIN f \cup {i} /\ i \notin DOMAIN f
      BY <2>3, <2>4, <2>5, <2>11
    <3>2. g[i] = OfProduct(is[i].items, p) /\ g[i] \in Int
      BY <1>2, <2>3, <2>7, <2>11
    <3>3. SumFunction(g) = SumFunction(f) + g[i]
      BY <2>8, <2>9, <3>1, <3>2, TotalAdd
    <3>4. OfProduct(is[i].items, p) <= NetIn(is, r, p)
      BY <2>3, <2>11, IssueTotals
    <3>. QED BY <2>6, <2>10, <2>11, <3>2, <3>3, <3>4
  <2>12. CASE is[i].request # r
    <3>1. DOMAIN g = DOMAIN f
      BY <2>3, <2>5, <2>12
    <3>2. SumFunction(g) = SumFunction(f)
      BY <2>8, <2>9, <3>1, TotalSame
    <3>. QED BY <2>6, <2>10, <2>12, <3>2
  <2>. QED BY <2>11, <2>12
<1>. QED BY <1>6, <1>9, <1>10, <1>11

-----------------------------------------------------------------------------
(* What returns add up to *)

PostedReturnsIn(ts) == {t \in DOMAIN ts : ts[t].status = "posted"}
ReturnedIn(ts, b, good) ==
    SumFunction([t \in PostedReturnsIn(ts) |-> BackOnRow(ts[t].lines, b, good)])

LEMMA BackTotals ==
    ASSUME NEW lines \in Seq(Back)
    PROVE  /\ \A b, good : BackOnRow(lines, b, good) \in Nat
           /\ \A item : AgainstItem(lines, item) \in Nat
<1>1. /\ IsFiniteSet(DOMAIN lines)
      /\ \A n \in DOMAIN lines : lines[n] \in Back
  BY SequenceDomain
<1>2. \A n \in DOMAIN lines : lines[n].quantity \in Nat
  BY <1>1 DEF Back
<1>3. ASSUME NEW b, NEW good PROVE BackOnRow(lines, b, good) \in Nat
  <2> DEFINE f == [n \in DOMAIN lines |-> IF lines[n].row = b /\ lines[n].good = good
                                          THEN lines[n].quantity ELSE 0]
  <2>1. DOMAIN f = DOMAIN lines /\ \A n \in DOMAIN f : f[n] \in Nat
    BY <1>2
  <2>2. BackOnRow(lines, b, good) = SumFunction(f)
    BY DEF BackOnRow
  <2>. HIDE DEF f
  <2>. QED BY <1>1, <2>1, <2>2, TotalNat
<1>4. ASSUME NEW item PROVE AgainstItem(lines, item) \in Nat
  <2> DEFINE f == [n \in DOMAIN lines |-> IF lines[n].item = item THEN lines[n].quantity ELSE 0]
  <2>1. DOMAIN f = DOMAIN lines /\ \A n \in DOMAIN f : f[n] \in Nat
    BY <1>2
  <2>2. AgainstItem(lines, item) = SumFunction(f)
    BY DEF AgainstItem
  <2>. HIDE DEF f
  <2>. QED BY <1>1, <2>1, <2>2, TotalNat
<1>. QED BY <1>3, <1>4

LEMMA ReturnFacts ==
    ASSUME NEW ts \in Seq(Return)
    PROVE  /\ IsFiniteSet(PostedReturnsIn(ts)) /\ PostedReturnsIn(ts) \in SUBSET DOMAIN ts
           /\ \A t \in DOMAIN ts : /\ ts[t] \in Return /\ ts[t].lines \in Seq(Back)
                                   /\ \A b, good : BackOnRow(ts[t].lines, b, good) \in Nat
<1>1. IsFiniteSet(DOMAIN ts) /\ \A t \in DOMAIN ts : ts[t] \in Return
  BY SequenceDomain
<1>2. \A t \in DOMAIN ts : ts[t].lines \in Seq(Back)
  BY <1>1 DEF Return
<1>3. PostedReturnsIn(ts) \in SUBSET DOMAIN ts
  BY DEF PostedReturnsIn
<1>4. IsFiniteSet(PostedReturnsIn(ts))
  BY <1>1, <1>3, FS_Subset
<1>. QED BY <1>1, <1>2, <1>3, <1>4, BackTotals

(* A return that is drafted counts for nothing. *)
LEMMA ReturnDrafted ==
    ASSUME NEW ts, NEW new, DOMAIN ts \subseteq DOMAIN new,
           \A t \in DOMAIN ts : new[t] = ts[t],
           \A t \in DOMAIN new \ DOMAIN ts : new[t].status # "posted"
    PROVE  \A b, good : ReturnedIn(new, b, good) = ReturnedIn(ts, b, good)
<1>1. PostedReturnsIn(new) = PostedReturnsIn(ts)
  BY DEF PostedReturnsIn
<1>2. \A t \in PostedReturnsIn(ts) : new[t] = ts[t]
  BY DEF PostedReturnsIn
<1>. TAKE b, good
<1>3. [t \in PostedReturnsIn(new) |-> BackOnRow(new[t].lines, b, good)]
        = [t \in PostedReturnsIn(ts) |-> BackOnRow(ts[t].lines, b, good)]
  BY <1>1, <1>2
<1>. QED BY <1>3 DEF ReturnedIn

(* A return that is posted counts for its lines. *)
LEMMA ReturnPosted ==
    ASSUME NEW ts \in Seq(Return), NEW s \in DOMAIN ts, ts[s].status # "posted",
           NEW new, DOMAIN new = DOMAIN ts, new[s].status = "posted",
           new[s].lines = ts[s].lines, \A t \in DOMAIN ts \ {s} : new[t] = ts[t]
    PROVE  \A b, good : ReturnedIn(new, b, good)
                           = ReturnedIn(ts, b, good) + BackOnRow(ts[s].lines, b, good)
<1>. TAKE b, good
<1> DEFINE f == [t \in PostedReturnsIn(ts) |-> BackOnRow(ts[t].lines, b, good)]
           g == [t \in PostedReturnsIn(new) |-> BackOnRow(new[t].lines, b, good)]
<1>1. /\ IsFiniteSet(PostedReturnsIn(ts)) /\ PostedReturnsIn(ts) \in SUBSET DOMAIN ts
      /\ \A t \in DOMAIN ts : BackOnRow(ts[t].lines, b, good) \in Nat
  BY ReturnFacts
<1>2. PostedReturnsIn(new) = PostedReturnsIn(ts) \cup {s} /\ s \notin PostedReturnsIn(ts)
  BY DEF PostedReturnsIn
<1>3. DOMAIN f = PostedReturnsIn(ts) /\ DOMAIN g = DOMAIN f \cup {s}
  BY <1>2
<1>4. (\A t \in DOMAIN f : f[t] = BackOnRow(ts[t].lines, b, good))
      /\ \A t \in DOMAIN g : g[t] = BackOnRow(new[t].lines, b, good)
  OBVIOUS
<1>5. ReturnedIn(ts, b, good) = SumFunction(f) /\ ReturnedIn(new, b, good) = SumFunction(g)
  BY DEF ReturnedIn
<1>. HIDE DEF f, g
<1>6. g[s] = BackOnRow(ts[s].lines, b, good) /\ g[s] \in Int
  BY <1>1, <1>3, <1>4
<1>7. \A t \in DOMAIN f : f[t] \in Int /\ g[t] = f[t]
  <2>1. ASSUME NEW t \in DOMAIN f PROVE f[t] \in Int /\ g[t] = f[t]
    <3>1. t \in DOMAIN ts /\ t # s /\ t \in DOMAIN g
      BY <1>1, <1>2, <1>3
    <3>. QED BY <1>1, <1>4, <3>1
  <2>. QED BY <2>1
<1>8. SumFunction(g) = SumFunction(f) + g[s]
  BY <1>1, <1>2, <1>3, <1>6, <1>7, TotalAdd
<1>. QED BY <1>5, <1>6, <1>8

-----------------------------------------------------------------------------
(* What request lines hold *)

HeldBy(lines, p) == SumFunctionOnSet([l \in Lines |-> lines[l].reserved], LinesOf(p))
HeldIn(rs, p)    == SumFunction([r \in DOMAIN rs |-> HeldBy(rs[r].lines, p)])

(* What lines hold of a product, for any function that says it. *)
LEMMA HeldIsOf ==
    ASSUME NEW lines \in [Lines -> Line], NEW holds, holds \in [Lines -> Nat],
           \A l \in Lines : holds[l] = lines[l].reserved
    PROVE  \A p : HeldBy(lines, p) = Of(holds, Lines, p)
<1>. TAKE p
<1>1. [l \in Lines |-> lines[l].reserved] = holds
  OBVIOUS
<1>2. Lines \cap LinesOf(p) = LinesOf(p)
  BY DEF LinesOf
<1>. QED BY <1>1, <1>2 DEF HeldBy, Of

LEMMA HeldTotals ==
    ASSUME NEW lines \in [Lines -> Line], NEW p
    PROVE  /\ HeldBy(lines, p) \in Nat
           /\ (\A l \in Lines : lines[l].reserved = 0) => HeldBy(lines, p) = 0
<1> DEFINE f == [l \in Lines |-> lines[l].reserved]
<1>1. \A l \in Lines : f[l] = lines[l].reserved /\ f[l] \in Nat
  BY DEF Line
<1>2. HeldBy(lines, p) = SumFunctionOnSet(f, LinesOf(p))
  BY DEF HeldBy
<1>. HIDE DEF f
<1>3. LinesOf(p) \in SUBSET Lines /\ IsFiniteSet(LinesOf(p))
  BY RowsAndLines
<1>4. \A l \in LinesOf(p) : f[l] \in Nat /\ f[l] = lines[l].reserved
  BY <1>1, <1>3
<1>5. LinesOf(p) \in SUBSET LinesOf(p)
  OBVIOUS
<1>6. SumFunctionOnSet(f, LinesOf(p)) \in Nat
  BY <1>3, <1>4, <1>5, SumNat
<1>7. ASSUME \A l \in Lines : lines[l].reserved = 0 PROVE SumFunctionOnSet(f, LinesOf(p)) = 0
  <2>1. \A l \in LinesOf(p) : f[l] = 0
    BY <1>3, <1>4, <1>7
  <2>. QED BY <1>3, <2>1, SumZero
<1>. QED BY <1>2, <1>6, <1>7

(* Lines that hold less, by what was given back. *)
LEMMA HeldGivesBack ==
    ASSUME NEW lines \in [Lines -> Line], NEW new \in [Lines -> Line], NEW gives \in [Lines -> Nat],
           \A l \in Lines : lines[l].reserved = new[l].reserved + gives[l]
    PROVE  \A p : HeldBy(lines, p) = HeldBy(new, p) + Of(gives, Lines, p)
<1>. TAKE p
<1> DEFINE f == [l \in Lines |-> lines[l].reserved]
           g == [l \in Lines |-> new[l].reserved]
<1>1. \A l \in Lines : /\ f[l] = lines[l].reserved /\ g[l] = new[l].reserved
                       /\ f[l] \in Int /\ g[l] \in Int /\ gives[l] \in Int
  BY DEF Line
<1>2. /\ HeldBy(lines, p) = SumFunctionOnSet(f, LinesOf(p))
      /\ HeldBy(new, p) = SumFunctionOnSet(g, LinesOf(p))
  BY DEF HeldBy
<1>. HIDE DEF f, g
<1>3. \A l \in LinesOf(p) : g[l] \in Int /\ gives[l] \in Int /\ f[l] = g[l] + gives[l]
  BY <1>1, RowsAndLines
<1>4. SumFunctionOnSet(f, LinesOf(p))
        = SumFunctionOnSet(g, LinesOf(p)) + SumFunctionOnSet(gives, LinesOf(p))
  BY <1>3, RowsAndLines, SumPlus
<1>5. Lines \cap LinesOf(p) = LinesOf(p)
  BY DEF LinesOf
<1>. QED BY <1>2, <1>4, <1>5 DEF Of

LEMMA RequestFacts ==
    ASSUME NEW rs \in Seq(Request)
    PROVE  /\ IsFiniteSet(DOMAIN rs) /\ DOMAIN rs = 1..Len(rs) /\ Len(rs) \in Nat
           /\ \A r \in DOMAIN rs : /\ rs[r] \in Request /\ rs[r].status \in RequestStatus
                                   /\ rs[r].ver \in Nat /\ rs[r].lines \in [Lines -> Line]
                                   /\ \A l \in Lines : rs[r].lines[l] \in Line
                                   /\ \A p : HeldBy(rs[r].lines, p) \in Nat
<1>1. /\ IsFiniteSet(DOMAIN rs) /\ DOMAIN rs = 1..Len(rs) /\ Len(rs) \in Nat
      /\ \A r \in DOMAIN rs : rs[r] \in Request
  BY SequenceDomain
<1>2. \A r \in DOMAIN rs : /\ rs[r].status \in RequestStatus
                           /\ rs[r].ver \in Nat /\ rs[r].lines \in [Lines -> Line]
  BY <1>1 DEF Request
<1>. QED BY <1>1, <1>2, HeldTotals

(* One request is replaced by another version of it. *)
ReplacesRequest(rs, r, x, new) ==
    rs \in Seq(Request) /\ r \in DOMAIN rs /\ x \in Request /\ new = [rs EXCEPT ![r] = x]

LEMMA RequestReplaced ==
    ASSUME NEW rs, NEW r, NEW x, NEW new, ReplacesRequest(rs, r, x, new)
    PROVE  /\ new \in Seq(Request) /\ DOMAIN new = DOMAIN rs /\ r \in DOMAIN rs
           /\ new[r] = x /\ \A q \in DOMAIN rs \ {r} : new[q] = rs[q]
           /\ \A p : HeldIn(new, p) = HeldIn(rs, p) - HeldBy(rs[r].lines, p) + HeldBy(x.lines, p)
<1>1. rs \in Seq(Request) /\ r \in DOMAIN rs /\ x \in Request /\ new = [rs EXCEPT ![r] = x]
  BY DEF ReplacesRequest
<1>2. /\ new \in Seq(Request) /\ DOMAIN new = DOMAIN rs
      /\ new[r] = x /\ \A q \in DOMAIN rs \ {r} : new[q] = rs[q]
  BY ONLY <1>1
<1>3. ASSUME NEW p
      PROVE  HeldIn(new, p) = HeldIn(rs, p) - HeldBy(rs[r].lines, p) + HeldBy(x.lines, p)
  <2> DEFINE f == [q \in DOMAIN rs |-> HeldBy(rs[q].lines, p)]
             g == [q \in DOMAIN new |-> HeldBy(new[q].lines, p)]
             S == DOMAIN rs
  <2>1. HeldIn(rs, p) = SumFunctionOnSet(f, S) /\ HeldIn(new, p) = SumFunctionOnSet(g, S)
    <3>1. DOMAIN f = S /\ DOMAIN g = S
      BY <1>2
    <3>. QED BY <3>1 DEF HeldIn, SumFunction
  <2>2. \A q \in S : f[q] = HeldBy(rs[q].lines, p) /\ g[q] = HeldBy(new[q].lines, p)
    BY <1>2
  <2>3. IsFiniteSet(S) /\ r \in S
    BY <1>1, RequestFacts
  <2>. HIDE DEF f, g
  <2>4. \A q \in S : f[q] \in Int /\ g[q] \in Int
    <3>1. \A q \in S : HeldBy(rs[q].lines, p) \in Nat
      BY <1>1, RequestFacts
    <3>2. \A q \in DOMAIN new : HeldBy(new[q].lines, p) \in Nat
      BY <1>2, RequestFacts
    <3>. QED BY <1>2, <2>2, <3>1, <3>2
  <2>5. f[r] = HeldBy(rs[r].lines, p) /\ g[r] = HeldBy(x.lines, p)
    BY <1>2, <2>2, <2>3
  <2>6. \A q \in S \ {r} : g[q] = f[q]
    BY <1>2, <2>2
  <2>. HIDE DEF S
  <2>7. SumFunctionOnSet(g, S) = SumFunctionOnSet(f, S) - f[r] + g[r]
    BY <2>3, <2>4, <2>6, SumChange
  <2>. QED BY <2>1, <2>5, <2>7
<1>. QED BY <1>1, <1>2, <1>3

(* A request is added, and holds nothing back. *)
AddsRequest(rs, x, new) ==
    /\ rs \in Seq(Request) /\ x \in Request /\ new = Append(rs, x)
    /\ \A l \in Lines : x.lines[l].reserved = 0

RequestAt(n, rs, x, new) ==
    /\ new \in Seq(Request) /\ DOMAIN new = DOMAIN rs \cup {n} /\ n \notin DOMAIN rs
    /\ new[n] = x /\ \A q \in DOMAIN rs : new[q] = rs[q]
    /\ \A p : HeldIn(new, p) = HeldIn(rs, p)

LEMMA RequestAdded ==
    ASSUME NEW rs, NEW x, NEW new, AddsRequest(rs, x, new)
    PROVE  \E n : RequestAt(n, rs, x, new)
<1> PICK n : n = Len(rs) + 1
  OBVIOUS
<1>. /\ rs \in Seq(Request) /\ x \in Request /\ new = Append(rs, x)
     /\ \A l \in Lines : x.lines[l].reserved = 0
  BY DEF AddsRequest
<1>1. /\ new \in Seq(Request) /\ DOMAIN new = 1..n /\ n \in Nat
      /\ new[n] = x /\ \A q \in 1..Len(rs) : new[q] = rs[q]
  OBVIOUS
<1>2. DOMAIN rs = 1..Len(rs) /\ DOMAIN new = DOMAIN rs \cup {n} /\ n \notin DOMAIN rs
  BY <1>1
<1>3. ASSUME NEW p PROVE HeldIn(new, p) = HeldIn(rs, p)
  <2> DEFINE f == [q \in DOMAIN rs |-> HeldBy(rs[q].lines, p)]
             g == [q \in DOMAIN new |-> HeldBy(new[q].lines, p)]
  <2>1. HeldIn(rs, p) = SumFunction(f) /\ HeldIn(new, p) = SumFunction(g)
    BY DEF HeldIn
  <2>2. DOMAIN f = DOMAIN rs /\ DOMAIN g = DOMAIN f \cup {n} /\ n \notin DOMAIN f
    BY <1>2
  <2>3. g[n] = HeldBy(x.lines, p)
    BY <1>1, <1>2
  <2>4. \A q \in DOMAIN f : f[q] = HeldBy(rs[q].lines, p) /\ g[q] = f[q]
    BY <1>1, <1>2
  <2>. HIDE DEF f, g
  <2>5. g[n] = 0
    <3>1. x.lines \in [Lines -> Line]
      BY DEF Request
    <3>. QED BY <2>3, <3>1, HeldTotals
  <2>6. IsFiniteSet(DOMAIN f) /\ \A q \in DOMAIN f : f[q] \in Int
    <3>1. IsFiniteSet(DOMAIN rs) /\ \A q \in DOMAIN rs : HeldBy(rs[q].lines, p) \in Nat
      BY RequestFacts
    <3>. QED BY <2>2, <2>4, <3>1
  <2>7. SumFunction(g) = SumFunction(f) + g[n] /\ SumFunction(f) \in Int
    BY <2>2, <2>4, <2>5, <2>6, TotalAdd, TotalInt
  <2>. QED BY <2>1, <2>5, <2>7
<1>. QED BY <1>1, <1>2, <1>3 DEF RequestAt

-----------------------------------------------------------------------------
(* The invariant, in terms of the sums above *)

BalancesFit(on, sc, is, ts) ==
    \A b \in Rows :
        /\ on[b] = Opening[b] - PickedIn(is, b) + GivenBackIn(is, b) + ReturnedIn(ts, b, TRUE)
        /\ sc[b] = ReturnedIn(ts, b, FALSE)

HoldsFit(res, rs) ==
    \A p \in Products : SumFunctionOnSet(res, RowsOf(p)) = HeldIn(rs, p)

RequestsFit(rs, is) ==
    OnceIn(is) =>
        \A r \in DOMAIN rs : \A l \in Lines :
            rs[r].lines[l].fulfilled = NetIn(is, r, ProductOf[l])

FitsSums ==
    /\ HoldsFit(reserved, requests)
    /\ BalancesFit(onHand, scrap, issues, returns)
    /\ RequestsFit(requests, issues)

LEMMA SumsInTerms ==
    ASSUME StockInv
    PROVE  FitsSums <=> ReservationsNet /\ StockMatchesDocuments /\ RequestMatchesIssues
<1>1. ReservationsNet <=> HoldsFit(reserved, requests)
  BY DEF ReservationsNet, HoldsFit, HeldIn, HeldBy
<1>2. StockMatchesDocuments <=> BalancesFit(onHand, scrap, issues, returns)
  <2>1. \A b \in Rows : onHand[b] >= 0 /\ reserved[b] >= 0 /\ scrap[b] >= 0
    BY DEF StockInv
  <2>2. \A b : /\ PickedFrom(b) = PickedIn(issues, b) /\ GivenBack(b) = GivenBackIn(issues, b)
               /\ \A good : ReturnedTo(b, good) = ReturnedIn(returns, b, good)
    BY DEF PickedFrom, PickedIn, GivenBack, GivenBackIn, ReturnedTo, ReturnedIn, Posted, PostedIn,
           Taken, TakenIn, PostedReturns, PostedReturnsIn
  <2>. QED BY <2>1, <2>2 DEF StockMatchesDocuments, BalancesFit
<1>3. RequestMatchesIssues <=> RequestsFit(requests, issues)
  <2>1. ReversedOnce <=> OnceIn(issues)
    <3>1. Taken = TakenIn(issues)
      BY DEF Taken, TakenIn
    <3>2. ReversedOnce => OnceIn(issues)
      BY <3>1 DEF ReversedOnce, OnceIn
    <3>3. OnceIn(issues) => ReversedOnce
      BY <3>1 DEF ReversedOnce, OnceIn
    <3>. QED BY <3>2, <3>3
  <2>2. \A r, p : NetIssued(r, p) = NetIn(issues, r, p)
    BY DEF NetIssued, NetIn, KeptIn, Posted, PostedIn
  <2>. QED BY <2>1, <2>2 DEF RequestMatchesIssues, RequestsFit
<1>. QED BY <1>1, <1>2, <1>3 DEF FitsSums

LEMMA InTerms ==
    /\ IInv <=> /\ StockInv /\ RequestsInv /\ IssuesInv /\ ReturnsInv /\ CallsInv /\ FitsSums
    /\ IInv' <=> /\ StockInv' /\ RequestsInv' /\ IssuesInv' /\ ReturnsInv' /\ CallsInv'
                 /\ FitsSums'
<1>1. StockInv => (FitsSums <=> ReservationsNet /\ StockMatchesDocuments /\ RequestMatchesIssues)
  BY SumsInTerms
<1>2. StockInv' => (FitsSums' <=> /\ ReservationsNet' /\ StockMatchesDocuments'
                                  /\ RequestMatchesIssues')
  BY <1>1, PTL
<1>. QED BY <1>1, <1>2, Zenon DEF IInv

(* Issues, and the requests they are drawn up against. *)
LEMMA IssuesInTerms ==
    /\ IssuesInv <=> Issues(issues) /\ \A i \in DOMAIN issues : issues[i].request \in Issuable
    /\ IssuesInv' <=> Issues(issues') /\ \A i \in DOMAIN issues' : issues'[i].request \in Issuable'
BY DEF IssuesInv, Issues

(* A call keeps what it has read while documents stay where they are. *)
LEMMA CallsStay ==
    ASSUME CallsInv, NEW c,
           client' = client \/ client' = [client EXCEPT ![c] = Idle],
           DOMAIN requests \subseteq DOMAIN requests', DOMAIN issues \subseteq DOMAIN issues',
           Issuable \subseteq Issuable', PostedIssues \subseteq PostedIssues'
    PROVE  CallsInv'
<1>1. ASSUME NEW call, CallInv(call)
      PROVE  CallInv(call)'
  BY <1>1 DEF CallInv, TypedCall
<1>2. CallInv(Idle)' /\ DOMAIN Idle = {"op", "doc", "data"}
  BY DEF CallInv, TypedCall, Idle
<1>3. DOMAIN client = Clients
  BY DEF CallsInv
<1>4. DOMAIN client' = Clients /\ \A d \in Clients : client'[d] \in {client[d], Idle}
  BY <1>3
<1>5. ASSUME NEW d \in Clients, NEW call, call = client'[d]
      PROVE  DOMAIN call = {"op", "doc", "data"} /\ CallInv(call)'
  <2>1. PICK was : was = client[d]
    OBVIOUS
  <2>2. DOMAIN was = {"op", "doc", "data"} /\ CallInv(was)
    BY <2>1 DEF CallsInv
  <2>3. CallInv(was)'
    BY <1>1, <2>2
  <2>4. call \in {was, Idle}
    BY <1>4, <1>5, <2>1
  <2>. QED BY <1>2, <2>2, <2>3, <2>4
<1>. QED BY <1>4, <1>5 DEF CallsInv

(* What a call reads changes nothing but the call. *)
LEMMA CallRead ==
    ASSUME IInv, NEW c \in Clients, NEW op, NEW doc, NEW data, Read(c, op, doc, data),
           CallInv([op |-> op, doc |-> doc, data |-> data])
    PROVE  IInv'
<1>1. PICK call : call = [op |-> op, doc |-> doc, data |-> data]
  OBVIOUS
<1>2. /\ client' = [client EXCEPT ![c] = call]
      /\ onHand' = onHand /\ reserved' = reserved /\ scrap' = scrap
      /\ requests' = requests /\ issues' = issues /\ returns' = returns
  BY <1>1 DEF Read, stock, documents
<1>3. CallInv(call) /\ DOMAIN call = {"op", "doc", "data"}
  BY <1>1
<1>4. CallsInv
  BY DEF IInv
<1>5. /\ DOMAIN client' = Clients
      /\ \A d \in Clients : client'[d] = IF d = c THEN call ELSE client[d]
  BY <1>2, <1>4 DEF CallsInv
<1>6. \A d \in Clients : DOMAIN client'[d] = {"op", "doc", "data"} /\ CallInv(client'[d])
  BY <1>3, <1>4, <1>5 DEF CallsInv
<1>7. CallsInv'
  BY <1>2, <1>5, <1>6 DEF CallsInv, CallInv, TypedCall, Issuable, PostedIssues
<1>8. /\ StockInv' /\ RequestsInv' /\ ReturnsInv' /\ FitsSums'
  BY <1>2, InTerms DEF StockInv, RequestsInv, ReturnsInv, PostedIssues, FitsSums
<1>9. IssuesInv'
  BY <1>2, InTerms DEF IssuesInv, Issuable
<1>. QED BY <1>7, <1>8, <1>9, InTerms

-----------------------------------------------------------------------------
(* Steps of one request *)

(* Statuses a request is issued against, and the ones it may have after. *)
Approved == {"approved", "partially_fulfilled", "fulfilled"}

LEMMA RequestsFacts ==
    ASSUME IInv
    PROVE  /\ requests \in Seq(Request) /\ Issuable \in SUBSET DOMAIN requests
           /\ \A r \in DOMAIN requests :
                 /\ requests[r] \in Request /\ requests[r].status \in RequestStatus
                 /\ requests[r].lines \in [Lines -> Line]
                 /\ r \in Issuable <=> requests[r].status \in Approved \cup {"cancelled"}
                 /\ requests[r].status \notin Approved =>
                       \A l \in Lines : requests[r].lines[l].reserved = 0
<1>1. requests \in Seq(Request)
  BY DEF IInv, RequestsInv
<1>2. \A r \in DOMAIN requests : /\ requests[r] \in Request /\ requests[r].status \in RequestStatus
                                 /\ requests[r].lines \in [Lines -> Line]
  BY <1>1, RequestFacts
<1>3. \A r \in DOMAIN requests :
          /\ r \in Issuable <=> requests[r].status \in Approved \cup {"cancelled"}
          /\ requests[r].status \notin Approved =>
                \A l \in Lines : requests[r].lines[l].reserved = 0
  BY DEF IInv, RequestsInv, Issuable, Approved
<1>4. Issuable \in SUBSET DOMAIN requests
  BY DEF Issuable
<1>. QED BY <1>1, <1>2, <1>3, <1>4

(* Nothing was issued against a request that was never approved. *)
LEMMA NoIssues ==
    ASSUME IInv, NEW r, r \notin Issuable
    PROVE  \A p : NetIn(issues, r, p) = 0
<1>. TAKE p
<1>1. \A i \in DOMAIN issues : issues[i].request # r
  BY DEF IInv, IssuesInv
<1>2. KeptIn(issues, r) = {}
  BY <1>1 DEF KeptIn, PostedIn
<1> DEFINE f == [i \in KeptIn(issues, r) |-> OfProduct(issues[i].items, p)]
<1>3. DOMAIN f = {} /\ NetIn(issues, r, p) = SumFunction(f)
  BY <1>2 DEF NetIn
<1>. HIDE DEF f
<1>. QED BY <1>3, TotalEmpty

LEMMA BookedTotals ==
    ASSUME NEW rows \in [Rows -> Nat]
    PROVE  \A p : SumFunctionOnSet(rows, RowsOf(p)) \in Nat
<1>1. IsFiniteSet(Rows) /\ \A b \in Rows : rows[b] \in Nat
  BY RowsAndLines
<1>2. \A T \in SUBSET Rows : SumFunctionOnSet(rows, T) \in Nat
  BY <1>1, SumNat
<1>. QED BY <1>2, RowsAndLines

(* Request r becomes x; the other documents, and what is on hand, stay. *)
RequestChange(r, x) ==
    /\ ReplacesRequest(requests, r, x, requests')
    /\ onHand' = onHand /\ scrap' = scrap /\ issues' = issues /\ returns' = returns
    /\ x.status \notin Approved => \A l \in Lines : x.lines[l].reserved = 0
    /\ r \in Issuable => x.status \in Approved \cup {"cancelled"}
    /\ \A l \in Lines : \/ x.lines[l].fulfilled = requests[r].lines[l].fulfilled
                        \/ r \notin Issuable /\ x.lines[l].fulfilled = 0

(* What is reserved on the rows changes by what the request's lines hold. *)
Rebooked(r, x) ==
    /\ reserved' \in [Rows -> Nat]
    /\ \A p \in Products :
          SumFunctionOnSet(reserved', RowsOf(p)) + HeldBy(requests[r].lines, p)
              = SumFunctionOnSet(reserved, RowsOf(p)) + HeldBy(x.lines, p)

(* Requests keep their place, and do not become unfit for issues. *)
LEMMA RequestsKept ==
    ASSUME IInv, NEW r, NEW x, ReplacesRequest(requests, r, x, requests'),
           x.status \notin Approved => \A l \in Lines : x.lines[l].reserved = 0,
           r \in Issuable => x.status \in Approved \cup {"cancelled"}
    PROVE  RequestsInv' /\ Issuable \subseteq Issuable' /\ DOMAIN requests' = DOMAIN requests
<1>1. /\ requests' \in Seq(Request) /\ DOMAIN requests' = DOMAIN requests /\ r \in DOMAIN requests
      /\ requests'[r] = x /\ \A q \in DOMAIN requests \ {r} : requests'[q] = requests[q]
  BY RequestReplaced
<1>2. \A q \in DOMAIN requests' : requests'[q].status \notin Approved =>
          \A l \in Lines : requests'[q].lines[l].reserved = 0
  BY <1>1, RequestsFacts
<1>3. RequestsInv'
  BY <1>1, <1>2 DEF RequestsInv, Approved
<1>4. \A q \in Issuable : requests'[q].status \in Approved \cup {"cancelled"}
  BY <1>1, RequestsFacts
<1>5. Issuable \subseteq Issuable'
  BY <1>1, <1>4 DEF Issuable, Approved
<1>. QED BY <1>1, <1>3, <1>5

(* What is reserved on the rows is still what the requests hold. *)
LEMMA HeldByRequests ==
    ASSUME IInv, NEW r, NEW x, ReplacesRequest(requests, r, x, requests'), Rebooked(r, x)
    PROVE  HoldsFit(reserved', requests')
<1>1. \A p : HeldIn(requests', p) = HeldIn(requests, p) - HeldBy(requests[r].lines, p)
                                      + HeldBy(x.lines, p)
  BY RequestReplaced
<1>2. r \in DOMAIN requests /\ x \in Request
  BY DEF ReplacesRequest
<1>3. StockInv /\ HoldsFit(reserved, requests)
  BY InTerms DEF FitsSums
<1>. SUFFICES ASSUME NEW p \in Products
              PROVE  SumFunctionOnSet(reserved', RowsOf(p)) = HeldIn(requests', p)
  BY DEF HoldsFit
<1>4. SumFunctionOnSet(reserved, RowsOf(p)) = HeldIn(requests, p)
  BY <1>3 DEF HoldsFit
<1>5. SumFunctionOnSet(reserved', RowsOf(p)) + HeldBy(requests[r].lines, p)
        = SumFunctionOnSet(reserved, RowsOf(p)) + HeldBy(x.lines, p)
  BY DEF Rebooked
<1>6. HeldBy(requests[r].lines, p) \in Int /\ HeldBy(x.lines, p) \in Int
  <2>1. requests[r].lines \in [Lines -> Line] /\ x.lines \in [Lines -> Line]
    BY <1>2, RequestsFacts DEF Request
  <2>. QED BY <2>1, HeldTotals
<1>7. SumFunctionOnSet(reserved', RowsOf(p)) \in Int /\ SumFunctionOnSet(reserved, RowsOf(p)) \in Int
  <2>1. reserved \in [Rows -> Nat] /\ reserved' \in [Rows -> Nat]
    BY <1>3 DEF Rebooked, StockInv
  <2>. QED BY <2>1, BookedTotals
<1>8. HeldIn(requests', p) = HeldIn(requests, p) - HeldBy(requests[r].lines, p)
                               + HeldBy(x.lines, p)
  BY <1>1
<1>9. \A s, t, a, b, h, k \in Int : s = h /\ t + a = s + b /\ k = h - a + b => t = k
  OBVIOUS
<1>. QED BY ONLY <1>4, <1>5, <1>6, <1>7, <1>8, <1>9

LEMMA OneRequest ==
    ASSUME IInv, NEW r, NEW x, RequestChange(r, x), Rebooked(r, x), NEW c,
           client' = client \/ client' = [client EXCEPT ![c] = Idle]
    PROVE  IInv'
<1>1. /\ ReplacesRequest(requests, r, x, requests')
      /\ onHand' = onHand /\ scrap' = scrap /\ issues' = issues /\ returns' = returns
      /\ x.status \notin Approved => \A l \in Lines : x.lines[l].reserved = 0
      /\ r \in Issuable => x.status \in Approved \cup {"cancelled"}
      /\ \A l \in Lines : \/ x.lines[l].fulfilled = requests[r].lines[l].fulfilled
                          \/ r \notin Issuable /\ x.lines[l].fulfilled = 0
  BY DEF RequestChange
<1>2. RequestsInv' /\ Issuable \subseteq Issuable' /\ DOMAIN requests' = DOMAIN requests
  BY <1>1, RequestsKept
<1>3. /\ requests'[r] = x /\ \A q \in DOMAIN requests \ {r} : requests'[q] = requests[q]
      /\ \A p : HeldIn(requests', p) = HeldIn(requests, p) - HeldBy(requests[r].lines, p)
                                         + HeldBy(x.lines, p)
  BY <1>1, RequestReplaced
<1>4. r \in DOMAIN requests /\ x \in Request
  BY <1>1 DEF ReplacesRequest
<1>5. /\ StockInv /\ IssuesInv /\ ReturnsInv /\ CallsInv
      /\ HoldsFit(reserved, requests) /\ BalancesFit(onHand, scrap, issues, returns)
      /\ RequestsFit(requests, issues)
  BY InTerms DEF FitsSums
<1>6. HoldsFit(reserved', requests')
  BY <1>1, HeldByRequests DEF RequestChange
<1>7. RequestsFit(requests', issues)
  <2>. SUFFICES ASSUME OnceIn(issues), NEW q \in DOMAIN requests', NEW l \in Lines
                PROVE  requests'[q].lines[l].fulfilled = NetIn(issues, q, ProductOf[l])
    BY DEF RequestsFit
  <2>1. requests[q].lines[l].fulfilled = NetIn(issues, q, ProductOf[l])
    BY <1>2, <1>5 DEF RequestsFit
  <2>2. CASE q = r /\ r \notin Issuable /\ x.lines[l].fulfilled = 0
    BY <1>3, <2>2, NoIssues
  <2>3. CASE q = r /\ x.lines[l].fulfilled = requests[r].lines[l].fulfilled
    BY <1>3, <2>1, <2>3
  <2>4. CASE q # r
    BY <1>2, <1>3, <2>1, <2>4
  <2>. QED BY <1>1, <2>2, <2>3, <2>4
<1>8. PostedIssues' = PostedIssues
  BY <1>1 DEF PostedIssues
<1>9. CallsInv'
  BY <1>1, <1>2, <1>5, <1>8, CallsStay
<1>10. StockInv'
  BY <1>1, <1>5 DEF StockInv, Rebooked
<1>11. IssuesInv'
  BY <1>1, <1>2, <1>5, IssuesInTerms
<1>12. ReturnsInv'
  BY <1>1, <1>5, <1>8 DEF ReturnsInv
<1>13. FitsSums'
  BY <1>1, <1>5, <1>6, <1>7 DEF FitsSums
<1>. QED BY <1>2, <1>9, <1>10, <1>11, <1>12, <1>13, InTerms

LEMMA FreshRequest ==
    ASSUME NEW asked \in [Lines -> Quantities], NEW lines,
           lines = [l \in Lines |-> RequestLine(asked[l])]
    PROVE  lines \in [Lines -> Line] /\
              \A l \in Lines : lines[l].reserved = 0 /\ lines[l].fulfilled = 0
BY FulfilmentAssumption DEF RequestLine, Line

LEMMA RequestCreated ==
    ASSUME IInv, NEW c \in Clients, NEW asked \in [Lines -> Quantities], CreateRequest(c, asked)
    PROVE  IInv'
<1>1. PICK lines : lines = [l \in Lines |-> RequestLine(asked[l])]
  OBVIOUS
<1>2. PICK x, rs : x = [status |-> "draft", ver |-> 0, lines |-> lines] /\ rs = requests
  OBVIOUS
<1>3. /\ requests' = Append(rs, x) /\ client' = client
      /\ onHand' = onHand /\ reserved' = reserved /\ scrap' = scrap
      /\ issues' = issues /\ returns' = returns
  BY <1>1, <1>2 DEF CreateRequest, InOneTransaction, stock
<1>4. /\ x \in Request /\ x.status = "draft"
      /\ \A l \in Lines : x.lines[l].reserved = 0 /\ x.lines[l].fulfilled = 0
  BY <1>1, <1>2, FreshRequest DEF Request, RequestStatus
<1>5. rs \in Seq(Request)
  BY <1>2, RequestsFacts
<1>6. PICK new : new = Append(rs, x)
  OBVIOUS
<1>7. PICK n :
         /\ new \in Seq(Request) /\ DOMAIN new = DOMAIN rs \cup {n} /\ n \notin DOMAIN rs
         /\ new[n] = x /\ \A q \in DOMAIN rs : new[q] = rs[q]
         /\ \A p : HeldIn(new, p) = HeldIn(rs, p)
  <2>1. AddsRequest(rs, x, new)
    BY <1>4, <1>5, <1>6 DEF AddsRequest
  <2>2. PICK n : RequestAt(n, rs, x, new)
    BY <2>1, RequestAdded
  <2>. QED BY <2>2 DEF RequestAt
<1>8. requests' = new
  BY <1>3, <1>6
<1>9. /\ StockInv /\ IssuesInv /\ ReturnsInv /\ CallsInv
      /\ HoldsFit(reserved, rs) /\ BalancesFit(onHand, scrap, issues, returns)
      /\ RequestsFit(rs, issues)
  BY <1>2, InTerms DEF FitsSums
<1>10. \A q \in DOMAIN new : new[q].status \notin Approved =>
           \A l \in Lines : new[q].lines[l].reserved = 0
  BY <1>2, <1>4, <1>7, RequestsFacts
<1>11. RequestsInv'
  BY <1>7, <1>8, <1>10 DEF RequestsInv, Approved
<1>12. Issuable \subseteq Issuable'
  BY <1>2, <1>7, <1>8 DEF Issuable
<1>13. HoldsFit(reserved', new)
  BY <1>3, <1>7, <1>9 DEF HoldsFit
<1>14. n \notin Issuable
  BY <1>2, <1>7, RequestsFacts
<1>15. RequestsFit(new, issues)
  <2>. SUFFICES ASSUME OnceIn(issues), NEW q \in DOMAIN new, NEW l \in Lines
                PROVE  new[q].lines[l].fulfilled = NetIn(issues, q, ProductOf[l])
    BY DEF RequestsFit
  <2>1. CASE q = n
    BY <1>4, <1>7, <1>14, <2>1, NoIssues
  <2>2. CASE q \in DOMAIN rs
    BY <1>7, <1>9, <2>2 DEF RequestsFit
  <2>. QED BY <1>7, <2>1, <2>2
<1>16. PostedIssues' = PostedIssues
  BY <1>3 DEF PostedIssues
<1>17. CallsInv'
  BY <1>2, <1>3, <1>7, <1>8, <1>9, <1>12, <1>16, CallsStay
<1>18. StockInv' /\ ReturnsInv'
  BY <1>3, <1>9, <1>16 DEF StockInv, ReturnsInv
<1>19. IssuesInv'
  BY <1>3, <1>9, <1>12, IssuesInTerms
<1>20. FitsSums'
  BY <1>3, <1>8, <1>9, <1>13, <1>15 DEF FitsSums
<1>. QED BY <1>11, <1>17, <1>18, <1>19, <1>20, InTerms

(* A request that was not approved yet is changed, and holds nothing back. *)
UnapprovedChange(r, x) ==
    /\ ReplacesRequest(requests, r, x, requests')
    /\ requests[r].status \notin Approved \cup {"cancelled"}
    /\ \A l \in Lines : /\ x.lines[l].reserved = 0
                        /\ x.lines[l].fulfilled \in {requests[r].lines[l].fulfilled, 0}
    /\ UNCHANGED <<stock, issues, returns>>

LEMMA RequestUnapproved ==
    ASSUME IInv, NEW c, client' = client \/ client' = [client EXCEPT ![c] = Idle],
           NEW r, NEW x, UnapprovedChange(r, x)
    PROVE  IInv'
<1>1. /\ ReplacesRequest(requests, r, x, requests')
      /\ requests[r].status \notin Approved \cup {"cancelled"}
      /\ \A l \in Lines : /\ x.lines[l].reserved = 0
                          /\ x.lines[l].fulfilled \in {requests[r].lines[l].fulfilled, 0}
      /\ UNCHANGED <<stock, issues, returns>>
  BY DEF UnapprovedChange
<1>2. r \in DOMAIN requests /\ x \in Request /\ r \notin Issuable
  BY <1>1, RequestsFacts DEF ReplacesRequest
<1>3. RequestChange(r, x)
  BY <1>1, <1>2 DEF RequestChange, stock
<1>4. \A l \in Lines : requests[r].lines[l].reserved = 0
  BY <1>1, <1>2, RequestsFacts
<1>5. \A p : HeldBy(requests[r].lines, p) = 0 /\ HeldBy(x.lines, p) = 0
  BY <1>1, <1>2, <1>4, RequestsFacts, HeldTotals DEF Request
<1>6. Rebooked(r, x)
  BY <1>1, <1>5 DEF Rebooked, stock, IInv, StockInv
<1>. QED BY <1>1, <1>3, <1>6, OneRequest

LEMMA RequestEdited ==
    ASSUME IInv, NEW c \in Clients, SaveUpdateRequest(c), StillAllowed(c)
    PROVE  IInv'
<1>1. PICK r, data : r = client[c].doc /\ data = client[c].data
  OBVIOUS
<1>2. PICK was, lines : was = requests[r] /\ lines = [l \in Lines |-> RequestLine(data.asked[l])]
  OBVIOUS
<1>3. /\ client[c].op = "updateRequest" /\ client' = [client EXCEPT ![c] = Idle]
      /\ UNCHANGED <<stock, issues, returns>>
      /\ \/ requests' = requests
         \/ requests' = [requests EXCEPT ![r].ver = @ + 1, ![r].lines = lines]
  BY <1>1, <1>2, Zenon DEF SaveUpdateRequest, Saving
<1>4. CallInv(client[c])
  BY DEF IInv, CallsInv
<1>5. r \in DOMAIN requests /\ was.status = "draft" /\ data.asked \in [Lines -> Quantities]
  BY <1>1, <1>2, <1>3, <1>4 DEF CallInv, TypedCall, StillAllowed
<1>6. was \in Request /\ was.ver \in Nat
  BY <1>2, <1>5, RequestsFacts DEF Request
<1>7. lines \in [Lines -> Line] /\ \A l \in Lines : lines[l].reserved = 0 /\ lines[l].fulfilled = 0
  <2>1. PICK asked : asked = data.asked
    OBVIOUS
  <2>. QED BY <1>2, <1>5, <2>1, FreshRequest
<1>8. CASE requests' = requests
  <2>1. requests' = [requests EXCEPT ![r] = was]
    BY <1>2, <1>5, <1>8, RequestsFacts
  <2>2. \A l \in Lines : was.lines[l].reserved = 0
    BY <1>2, <1>5, RequestsFacts DEF Approved
  <2>3. UnapprovedChange(r, was)
    BY <1>2, <1>3, <1>5, <1>6, <2>1, <2>2, RequestsFacts
       DEF UnapprovedChange, ReplacesRequest, Approved
  <2>. QED BY <1>3, <2>3, RequestUnapproved
<1>9. CASE requests' = [requests EXCEPT ![r].ver = @ + 1, ![r].lines = lines]
  <2>1. PICK ver : ver = was.ver + 1
    OBVIOUS
  <2>2. ver \in Nat
    BY <1>6, <2>1
  <2>3. PICK x : x = [was EXCEPT !.ver = ver, !.lines = lines]
    OBVIOUS
  <2>4. x \in Request /\ x.lines = lines
    BY <1>6, <1>7, <2>2, <2>3 DEF Request
  <2>5. requests' = [requests EXCEPT ![r] = x]
    <3>1. was = requests[r] /\ r \in DOMAIN requests
      BY <1>2, <1>5
    <3>. QED BY ONLY <1>9, <2>1, <2>3, <3>1
  <2>6. UnapprovedChange(r, x)
    BY <1>2, <1>3, <1>5, <1>7, <2>4, <2>5, RequestsFacts
       DEF UnapprovedChange, ReplacesRequest, Approved
  <2>. QED BY <1>3, <2>6, RequestUnapproved
<1>. QED BY <1>3, <1>8, <1>9

LEMMA RequestMoved ==
    ASSUME IInv, NEW c \in Clients, SaveRequestStatus(c), StillAllowed(c)
    PROVE  IInv'
<1>1. PICK r, to : r = client[c].doc /\ to = client[c].data
  OBVIOUS
<1>2. /\ client[c].op = "requestStatus" /\ client' = [client EXCEPT ![c] = Idle]
      /\ UNCHANGED <<stock, issues, returns>>
      /\ requests' = [requests EXCEPT ![r].status = to]
  BY <1>1 DEF SaveRequestStatus, Saving
<1>3. CallInv(client[c])
  BY DEF IInv, CallsInv
<1>4. PICK was : was = requests[r]
  OBVIOUS
<1>5. /\ r \in DOMAIN requests /\ to \in {"submitted", "rejected"}
      /\ RequestMay(was.status, to)
  BY <1>1, <1>2, <1>3, <1>4 DEF CallInv, TypedCall, StillAllowed
<1>6. was.status \in {"draft", "submitted"}
  BY <1>5 DEF RequestMay
<1>7. was \in Request /\ \A l \in Lines : was.lines[l].reserved = 0
  BY <1>4, <1>5, <1>6, RequestsFacts DEF Approved
<1>8. PICK x : x = [was EXCEPT !.status = to]
  OBVIOUS
<1>9. x \in Request /\ x.lines = was.lines
  BY <1>5, <1>7, <1>8 DEF Request, RequestStatus
<1>10. requests' = [requests EXCEPT ![r] = x]
  BY <1>2, <1>4, <1>5, <1>8
<1>11. UnapprovedChange(r, x)
  BY <1>2, <1>4, <1>5, <1>6, <1>7, <1>9, <1>10, RequestsFacts
     DEF UnapprovedChange, ReplacesRequest, Approved
<1>. QED BY <1>2, <1>11, RequestUnapproved

LEMMA ApprovedLinesFit ==
    ASSUME NEW old \in [Lines -> Line], \A l \in Lines : old[l].reserved = 0,
           NEW approved \in [Lines -> Nat], NEW lines, lines = ApprovedLines(old, approved)
    PROVE  /\ lines \in [Lines -> Line]
           /\ \A l \in Lines : /\ lines[l].reserved = approved[l]
                               /\ lines[l].fulfilled = old[l].fulfilled
<1> DEFINE line(l) == [old[l] EXCEPT !.approved = approved[l],
                                  !.reserved = IF approved[l] > 0 THEN approved[l] ELSE @]
<1>1. lines = [l \in Lines |-> line(l)]
  BY Zenon DEF ApprovedLines
<1>2. ASSUME NEW l \in Lines
      PROVE  /\ line(l) \in Line /\ line(l).reserved = approved[l]
             /\ line(l).fulfilled = old[l].fulfilled
  <2>1. old[l] \in Line /\ old[l].reserved = 0 /\ approved[l] \in Nat
    OBVIOUS
  <2>2. PICK n : n = IF approved[l] > 0 THEN approved[l] ELSE old[l].reserved
    OBVIOUS
  <2>3. n = approved[l]
    BY <2>1, <2>2
  <2>4. line(l) = [old[l] EXCEPT !.approved = approved[l], !.reserved = n]
    BY <2>2
  <2>. HIDE DEF line
  <2>. QED BY <2>1, <2>3, <2>4 DEF Line
<1>. HIDE DEF line
<1>. QED BY <1>1, <1>2

LEMMA RequestApproved ==
    ASSUME IInv, NEW c \in Clients, NEW r \in DOMAIN requests,
           NEW approved \in [Lines -> Quantities \cup {0}], ApproveRequest(c, r, approved)
    PROVE  IInv'
<1>1. PICK was, result : was = requests[r] /\ result = ReserveLines(approved)
  OBVIOUS
<1>2. PICK old, lines : old = was.lines /\ lines = ApprovedLines(old, approved)
  OBVIOUS
<1>3. /\ RequestMay(was.status, "approved") /\ result.ok /\ reserved' = result.rows
      /\ client' = client /\ onHand' = onHand /\ scrap' = scrap
      /\ issues' = issues /\ returns' = returns
  BY <1>1, Zenon DEF ApproveRequest, InOneTransaction
<1>4. requests' = [requests EXCEPT ![r].status = "approved", ![r].lines = lines]
  <2>1. requests' = [requests EXCEPT ![r].status = "approved",
                                     ![r].lines = ApprovedLines(@, approved)]
    BY Zenon DEF ApproveRequest
  <2>. QED BY <1>1, <1>2, <2>1
<1>5. was.status = "submitted"
  BY <1>3 DEF RequestMay
<1>6. /\ was \in Request /\ old \in [Lines -> Line]
      /\ \A l \in Lines : old[l].reserved = 0
  BY <1>1, <1>2, <1>5, RequestsFacts DEF Approved
<1>7. approved \in [Lines -> Nat]
  <2>1. Quantities \cup {0} \subseteq Nat
    BY FulfilmentAssumption
  <2>. QED BY <2>1
<1>8. /\ lines \in [Lines -> Line]
      /\ \A l \in Lines : /\ lines[l].reserved = approved[l]
                          /\ lines[l].fulfilled = old[l].fulfilled
  BY <1>2, <1>6, <1>7, ApprovedLinesFit
<1>9. PICK x : x = [was EXCEPT !.status = "approved", !.lines = lines]
  OBVIOUS
<1>10. x \in Request /\ x.lines = lines /\ x.status = "approved"
  BY <1>6, <1>8, <1>9 DEF Request, RequestStatus
<1>11. requests' = [requests EXCEPT ![r] = x]
  BY <1>1, <1>4, <1>9
<1>12. RequestChange(r, x)
  BY <1>1, <1>2, <1>3, <1>8, <1>10, <1>11, RequestsFacts
     DEF RequestChange, ReplacesRequest, Approved
<1>13. Rebooked(r, x)
  <2>1. onHand \in [Rows -> Nat] /\ reserved \in [Rows -> Nat]
    BY DEF IInv, StockInv
  <2>2. /\ result.rows \in [Rows -> Nat]
        /\ \A p : SumFunctionOnSet(result.rows, RowsOf(p))
                    = SumFunctionOnSet(reserved, RowsOf(p)) + Of(approved, Lines, p)
    BY <1>1, <1>3, <1>7, <2>1, Reserves
  <2>3. \A p : HeldBy(lines, p) = Of(approved, Lines, p) /\ HeldBy(old, p) = 0
    BY <1>6, <1>7, <1>8, HeldIsOf, HeldTotals
  <2>4. \A p : SumFunctionOnSet(reserved, RowsOf(p)) \in Nat /\ HeldBy(lines, p) \in Nat
    BY <1>8, <2>1, BookedTotals, HeldTotals
  <2>. QED BY <1>1, <1>2, <1>3, <1>10, <2>2, <2>3, <2>4 DEF Rebooked
<1>. QED BY <1>3, <1>12, <1>13, OneRequest

LEMMA RequestCancelled ==
    ASSUME IInv, NEW c \in Clients, NEW r \in DOMAIN requests, CancelRequest(c, r)
    PROVE  IInv'
<1>1. PICK was, old : was = requests[r] /\ old = was.lines
  OBVIOUS
<1>2. PICK gives, lines : gives = [l \in Lines |-> old[l].reserved] /\ lines = CancelledLines(old)
  OBVIOUS
<1>3. PICK result : result = ReleaseLines(gives)
  OBVIOUS
<1>4. /\ result.ok /\ reserved' = result.rows
      /\ client' = client /\ onHand' = onHand /\ scrap' = scrap
      /\ issues' = issues /\ returns' = returns
      /\ requests' = [requests EXCEPT ![r].status = "cancelled", ![r].lines = CancelledLines(@)]
  BY <1>1, <1>2, <1>3, Zenon DEF CancelRequest, InOneTransaction
<1>5. was \in Request /\ old \in [Lines -> Line] /\ \A l \in Lines : old[l] \in Line
  BY <1>1, RequestsFacts
<1>6. gives \in [Lines -> Nat] /\ \A l \in Lines : gives[l] = old[l].reserved
  BY <1>2, <1>5 DEF Line
<1>7. /\ lines \in [Lines -> Line]
      /\ \A l \in Lines : lines[l].reserved = 0 /\ lines[l].fulfilled = old[l].fulfilled
  BY <1>2, <1>5 DEF Line, CancelledLines
<1>8. PICK x : x = [was EXCEPT !.status = "cancelled", !.lines = lines]
  OBVIOUS
<1>9. x \in Request /\ x.lines = lines /\ x.status = "cancelled"
  BY <1>5, <1>7, <1>8 DEF Request, RequestStatus
<1>10. requests' = [requests EXCEPT ![r] = x]
  BY <1>1, <1>2, <1>4, <1>8
<1>11. RequestChange(r, x)
  BY <1>1, <1>4, <1>7, <1>9, <1>10, RequestsFacts DEF RequestChange, ReplacesRequest
<1>12. Rebooked(r, x)
  <2>1. reserved \in [Rows -> Nat]
    BY DEF IInv, StockInv
  <2>2. /\ result.rows \in [Rows -> Nat]
        /\ \A p : SumFunctionOnSet(result.rows, RowsOf(p)) + Of(gives, Lines, p)
                    = SumFunctionOnSet(reserved, RowsOf(p))
    BY ONLY <1>3, <1>4, <1>6, <2>1, Releases
  <2>3. \A p : HeldBy(old, p) = Of(gives, Lines, p) /\ HeldBy(lines, p) = 0
    BY <1>5, <1>6, <1>7, HeldIsOf, HeldTotals
  <2>4. \A p : SumFunctionOnSet(reserved, RowsOf(p)) \in Nat /\ HeldBy(old, p) \in Nat
               /\ SumFunctionOnSet(result.rows, RowsOf(p)) \in Nat
    BY <1>5, <2>1, <2>2, BookedTotals, HeldTotals
  <2>. QED BY <1>1, <1>4, <1>9, <2>2, <2>3, <2>4 DEF Rebooked
<1>. QED BY <1>4, <1>11, <1>12, OneRequest

-----------------------------------------------------------------------------
(* What an issue does to its request *)

Given(lines, delta) ==
    [l \in Lines |-> IF delta[l] > 0 THEN Min({delta[l], lines[l].reserved}) ELSE 0]

LEMMA IssuedLinesFit ==
    ASSUME NEW old \in [Lines -> Line], NEW delta \in [Lines -> Int],
           NEW lines, lines = IssuedLines(old, delta), NEW gives, gives = Given(old, delta)
    PROVE  /\ lines \in [Lines -> Line] /\ gives \in [Lines -> Nat]
           /\ \A l \in Lines :
                 /\ old[l].reserved = lines[l].reserved + gives[l]
                 /\ lines[l].fulfilled = Max({0, old[l].fulfilled + delta[l]})
<1> DEFINE line(l) == [old[l] EXCEPT
                          !.reserved = IF delta[l] > 0 THEN Max({0, @ - delta[l]}) ELSE @,
                          !.fulfilled = Max({0, @ + delta[l]})]
           given(l) == IF delta[l] > 0 THEN Min({delta[l], old[l].reserved}) ELSE 0
<1>1. lines = [l \in Lines |-> line(l)] /\ gives = [l \in Lines |-> given(l)]
  BY Zenon DEF IssuedLines, Given
<1>2. ASSUME NEW l \in Lines
      PROVE  /\ line(l) \in Line /\ given(l) \in Nat
             /\ old[l].reserved = line(l).reserved + given(l)
             /\ line(l).fulfilled = Max({0, old[l].fulfilled + delta[l]})
  <2>1. PICK was, d : was = old[l] /\ d = delta[l]
    OBVIOUS
  <2>2. was \in Line /\ d \in Int
    BY <2>1
  <2>3. was.reserved \in Nat /\ was.fulfilled \in Nat
    BY <2>2 DEF Line
  <2>4. PICK m, n, k : /\ m = (IF d > 0 THEN Max({0, was.reserved - d}) ELSE was.reserved)
                       /\ n = Max({0, was.fulfilled + d})
                       /\ k = (IF d > 0 THEN Min({d, was.reserved}) ELSE 0)
    OBVIOUS
  <2>5. m \in Nat /\ k \in Nat /\ was.reserved = m + k
    <3>1. Max({0, was.reserved - d}) = IF 0 <= was.reserved - d THEN was.reserved - d ELSE 0
      BY <2>2, <2>3, MaxOfTwo
    <3>2. Min({d, was.reserved}) = IF d <= was.reserved THEN d ELSE was.reserved
      BY <2>2, <2>3, MinOfTwo
    <3>. QED BY <2>2, <2>3, <2>4, <3>1, <3>2
  <2>6. n \in Nat
    <3>1. Max({0, was.fulfilled + d}) = IF 0 <= was.fulfilled + d THEN was.fulfilled + d ELSE 0
      BY <2>2, <2>3, MaxOfTwo
    <3>. QED BY <2>2, <2>3, <2>4, <3>1
  <2>7. line(l) = [was EXCEPT !.reserved = m, !.fulfilled = n] /\ given(l) = k
    BY <2>1, <2>4
  <2>8. n = Max({0, old[l].fulfilled + delta[l]})
    BY <2>1, <2>4
  <2>. HIDE DEF line, given
  <2>. QED BY <2>1, <2>2, <2>5, <2>6, <2>7, <2>8 DEF Line
<1>. HIDE DEF line, given
<1>. QED BY <1>1, <1>2

LEMMA OfTotal ==
    ASSUME NEW wants \in [Lines -> Nat]
    PROVE  \A p : Of(wants, Lines, p) \in Nat
<1>. TAKE p
<1> PICK T : T = Lines \cap LinesOf(p)
  OBVIOUS
<1>1. IsFiniteSet(Lines) /\ T \in SUBSET Lines /\ \A l \in Lines : wants[l] \in Nat
  BY RowsAndLines
<1>2. \A U \in SUBSET Lines : SumFunctionOnSet(wants, U) \in Nat
  BY <1>1, SumNat
<1>. QED BY <1>1, <1>2 DEF Of

(* Request r is told of what was issued, and becomes x. *)
Told(r, delta, x) ==
    /\ ReplacesRequest(requests, r, x, requests') /\ Rebooked(r, x)
    /\ x.status \in Approved \cup {"cancelled"}
    /\ x.status \notin Approved => \A l \in Lines : x.lines[l].reserved = 0
    /\ \A l \in Lines :
          x.lines[l].fulfilled = Max({0, requests[r].lines[l].fulfilled + delta[l]})

LEMMA Applied ==
    ASSUME IInv, NEW r \in Issuable, NEW delta \in [Lines -> Int], ApplyIssued(r, delta)
    PROVE  \E x : Told(r, delta, x)
<1>1. PICK was, old : was = requests[r] /\ old = was.lines
  OBVIOUS
<1>2. PICK lines, gives : lines = IssuedLines(old, delta) /\ gives = Given(old, delta)
  OBVIOUS
<1>3. PICK result, status : result = ReleaseLines(gives) /\ status = IssuedStatus(was.status, lines)
  OBVIOUS
<1>4. /\ result.ok /\ reserved' = result.rows
      /\ requests' = [requests EXCEPT ![r].lines = lines, ![r].status = IssuedStatus(@, lines)]
  BY <1>1, <1>2, <1>3, Zenon DEF ApplyIssued, Given
<1>5. r \in DOMAIN requests /\ was \in Request /\ old \in [Lines -> Line]
  BY <1>1, RequestsFacts
<1>6. /\ was.status \in Approved \cup {"cancelled"}
      /\ was.status \notin Approved => \A l \in Lines : old[l].reserved = 0
  BY <1>1, RequestsFacts
<1>7. /\ lines \in [Lines -> Line] /\ gives \in [Lines -> Nat]
      /\ \A l \in Lines : /\ old[l].reserved = lines[l].reserved + gives[l]
                          /\ lines[l].fulfilled = Max({0, old[l].fulfilled + delta[l]})
  <2>1. old \in [Lines -> Line] /\ delta \in [Lines -> Int]
    BY <1>5
  <2>. QED BY ONLY <1>2, <2>1, IssuedLinesFit
<1>8. status \in Approved \/ status = was.status
  BY <1>3, Zenon DEF IssuedStatus, Approved
<1>9. PICK x : x = [was EXCEPT !.lines = lines, !.status = status]
  OBVIOUS
<1>10. x \in Request /\ x.lines = lines /\ x.status = status
  BY <1>5, <1>6, <1>7, <1>8, <1>9 DEF Request, RequestStatus, Approved
<1>11. requests' = [requests EXCEPT ![r] = x]
  BY <1>1, <1>3, <1>4, <1>5, <1>9
<1>12. ReplacesRequest(requests, r, x, requests')
  BY <1>5, <1>10, <1>11, RequestsFacts DEF ReplacesRequest
<1>13. Rebooked(r, x)
  <2>1. reserved \in [Rows -> Nat]
    BY DEF IInv, StockInv
  <2>2. /\ result.rows \in [Rows -> Nat]
        /\ \A p : SumFunctionOnSet(result.rows, RowsOf(p)) + Of(gives, Lines, p)
                    = SumFunctionOnSet(reserved, RowsOf(p))
    BY ONLY <1>3, <1>4, <1>7, <2>1, Releases
  <2>3. \A p : HeldBy(old, p) = HeldBy(lines, p) + Of(gives, Lines, p)
    BY <1>5, <1>7, HeldGivesBack
  <2>4. \A p : SumFunctionOnSet(reserved, RowsOf(p)) \in Nat /\ HeldBy(old, p) \in Nat
               /\ SumFunctionOnSet(result.rows, RowsOf(p)) \in Nat /\ HeldBy(lines, p) \in Nat
    BY <1>5, <1>7, <2>1, <2>2, BookedTotals, HeldTotals
  <2>5. \A p : SumFunctionOnSet(result.rows, RowsOf(p)) + HeldBy(old, p)
                 = SumFunctionOnSet(reserved, RowsOf(p)) + HeldBy(lines, p)
    <3>. TAKE p
    <3>1. Of(gives, Lines, p) \in Int
      BY <1>7, OfTotal
    <3>. QED BY ONLY <2>2, <2>3, <2>4, <3>1
  <2>. QED BY <1>1, <1>4, <1>10, <2>2, <2>5 DEF Rebooked
<1>14. x.status \notin Approved => \A l \in Lines : x.lines[l].reserved = 0
  <2>. SUFFICES ASSUME x.status \notin Approved, NEW l \in Lines PROVE lines[l].reserved = 0
    BY <1>10
  <2>1. old[l].reserved = 0
    BY <1>6, <1>8, <1>10
  <2>2. lines[l].reserved \in Nat /\ gives[l] \in Nat
    BY <1>7 DEF Line
  <2>3. old[l].reserved = lines[l].reserved + gives[l]
    BY <1>7
  <2>. QED BY ONLY <2>1, <2>2, <2>3
<1>15. \A l \in Lines : x.lines[l].fulfilled = Max({0, requests[r].lines[l].fulfilled + delta[l]})
  BY <1>1, <1>7, <1>10
<1>16. x.status \in Approved \cup {"cancelled"}
  BY <1>6, <1>8, <1>10
<1>. QED BY <1>12, <1>13, <1>14, <1>15, <1>16 DEF Told

-----------------------------------------------------------------------------
(* Steps of one issue that is not posted *)

LEMMA IssuesFacts ==
    ASSUME IInv
    PROVE  /\ Issues(issues) /\ issues \in Seq(Issue) /\ DOMAIN issues = 1..Len(issues)
           /\ \A i \in DOMAIN issues :
                 /\ issues[i] \in Issue /\ issues[i].items \in Items
                 /\ issues[i].request \in Issuable
                 /\ issues[i].status # "posted" =>
                       /\ issues[i].reversalOf = 0 /\ ~issues[i].reversed
                       /\ \A n \in DOMAIN issues[i].items : issues[i].items[n].returned = 0
<1>1. IssuesInv
  BY DEF IInv
<1>2. Issues(issues) /\ \A i \in DOMAIN issues : issues[i].request \in Issuable
  BY <1>1, IssuesInTerms
<1>3. /\ issues \in Seq(Issue) /\ DOMAIN issues = 1..Len(issues)
      /\ \A i \in DOMAIN issues : issues[i] \in Issue
  BY <1>2, IssueFacts
<1>4. ASSUME NEW i \in DOMAIN issues, issues[i].status # "posted"
      PROVE  /\ issues[i].reversalOf = 0 /\ ~issues[i].reversed
             /\ \A n \in DOMAIN issues[i].items : issues[i].items[n].returned = 0
  <2>1. issues[i].reversalOf = 0
    BY <1>2, <1>4 DEF Issues
  <2>2. \A n \in DOMAIN issues[i].items : issues[i].items[n].returned = 0
    BY <1>2, <1>4 DEF Issues
  <2>3. \A j \in DOMAIN issues : issues[j].reversalOf # i
    <3>1. i # 0
      BY <1>3
    <3>. QED BY <1>2, <1>4, <3>1 DEF Issues
  <2>4. issues[i].reversed => \E j \in DOMAIN issues : issues[j].reversalOf = i
    BY <1>2 DEF Issues
  <2>. QED BY <2>1, <2>2, <2>3, <2>4
<1>5. \A i \in DOMAIN issues : issues[i].items \in Items
  BY <1>3 DEF Issue
<1>. QED BY <1>2, <1>3, <1>4, <1>5

LEMMA IssuesChanged ==
    ASSUME IInv, NEW c, client' = [client EXCEPT ![c] = Idle], UnpostedChange(issues, issues'),
           \A q \in DOMAIN issues' : issues'[q].request \in Issuable,
           UNCHANGED <<stock, requests, returns>>
    PROVE  IInv'
<1>1. Issues(issues') /\ SameCounts(issues, issues')
  BY NonePosted
<1>2. /\ \A b : /\ PickedIn(issues', b) = PickedIn(issues, b)
                /\ GivenBackIn(issues', b) = GivenBackIn(issues, b)
      /\ OnceIn(issues') => OnceIn(issues)
      /\ \A r, p : NetIn(issues', r, p) = NetIn(issues, r, p)
  BY <1>1, NothingPosted
<1>3. /\ StockInv /\ RequestsInv /\ ReturnsInv /\ CallsInv
      /\ HoldsFit(reserved, requests) /\ BalancesFit(onHand, scrap, issues, returns)
      /\ RequestsFit(requests, issues)
  BY InTerms DEF FitsSums
<1>4. /\ onHand' = onHand /\ reserved' = reserved /\ scrap' = scrap
      /\ requests' = requests /\ returns' = returns
  BY DEF stock
<1>5. BalancesFit(onHand, scrap, issues', returns)
  BY <1>2, <1>3 DEF BalancesFit
<1>6. RequestsFit(requests, issues')
  BY <1>2, <1>3 DEF RequestsFit
<1>7. FitsSums'
  BY <1>3, <1>4, <1>5, <1>6 DEF FitsSums
<1>8. Issuable' = Issuable
  BY <1>4 DEF Issuable
<1>9. DOMAIN issues \subseteq DOMAIN issues' /\ PostedIssues \subseteq PostedIssues'
  BY DEF UnpostedChange, PostedIssues
<1>10. CallsInv'
  BY <1>3, <1>4, <1>8, <1>9, CallsStay
<1>11. IssuesInv'
  BY <1>1, <1>8, IssuesInTerms
<1>12. StockInv' /\ RequestsInv' /\ ReturnsInv'
  BY <1>3, <1>4, <1>9 DEF StockInv, RequestsInv, ReturnsInv
<1>. QED BY <1>7, <1>10, <1>11, <1>12, InTerms

(* An issue that is not posted is replaced by one that is not posted. *)
IssueChange(i, y) ==
    /\ i \in DOMAIN issues /\ issues[i].status # "posted"
    /\ y \in Issue /\ y.status # "posted" /\ y.reversalOf = 0 /\ ~y.reversed
    /\ y.request = issues[i].request
    /\ \A n \in DOMAIN y.items : y.items[n].returned = 0
    /\ issues' = [issues EXCEPT ![i] = y]
    /\ UNCHANGED <<stock, requests, returns>>

LEMMA IssueChanged ==
    ASSUME IInv, NEW c, client' = [client EXCEPT ![c] = Idle], NEW i, NEW y, IssueChange(i, y)
    PROVE  IInv'
<1>1. /\ i \in DOMAIN issues /\ issues[i].status # "posted"
      /\ y \in Issue /\ y.status # "posted" /\ y.reversalOf = 0 /\ ~y.reversed
      /\ y.request = issues[i].request
      /\ \A n \in DOMAIN y.items : y.items[n].returned = 0
      /\ issues' = [issues EXCEPT ![i] = y]
      /\ UNCHANGED <<stock, requests, returns>>
  BY DEF IssueChange
<1>2. Replaces(issues, i, y, issues')
  BY <1>1, IssuesFacts DEF Replaces
<1>3. /\ issues' \in Seq(Issue) /\ DOMAIN issues' = DOMAIN issues
      /\ issues'[i] = y /\ \A q \in DOMAIN issues \ {i} : issues'[q] = issues[q]
  BY <1>2, Replaced
<1>4. UnpostedChange(issues, issues')
  BY <1>1, <1>3, IssuesFacts DEF UnpostedChange
<1>5. \A q \in DOMAIN issues' : issues'[q].request \in Issuable
  BY <1>1, <1>3, IssuesFacts
<1>. QED BY <1>1, <1>4, <1>5, IssuesChanged

LEMMA IssueCreated ==
    ASSUME IInv, NEW c \in Clients, SaveCreateIssue(c)
    PROVE  IInv'
<1>1. PICK r, items, is : r = client[c].doc /\ items = client[c].data /\ is = issues
  OBVIOUS
<1>2. PICK y : y = [request |-> r, status |-> "draft", items |-> items, reversalOf |-> 0,
                    reversed |-> FALSE]
  OBVIOUS
<1>3. /\ client[c].op = "createIssue" /\ client' = [client EXCEPT ![c] = Idle]
      /\ UNCHANGED <<stock, requests, returns>>
      /\ issues' = Append(is, y)
  BY <1>1, <1>2 DEF SaveCreateIssue, Saving
<1>4. CallInv(client[c])
  BY DEF IInv, CallsInv
<1>5. r \in Issuable /\ items \in Items /\ \A n \in DOMAIN items : items[n].returned = 0
  BY <1>1, <1>3, <1>4 DEF CallInv, TypedCall
<1>6. r \in Nat
  <2>1. DOMAIN requests \subseteq Nat
    BY RequestsFacts, RequestFacts
  <2>. QED BY <1>5, <2>1, RequestsFacts
<1>7. /\ y \in Issue /\ y.status = "draft" /\ y.reversalOf = 0 /\ ~y.reversed
      /\ y.request = r /\ y.items = items
  BY <1>2, <1>5, <1>6 DEF Issue, IssueStatus
<1>8. is \in Seq(Issue) /\ DOMAIN is = 1..Len(is) /\ Issues(is)
  BY <1>1, IssuesFacts
<1>9. PICK n, new : n = Len(is) + 1 /\ new = Append(is, y)
  OBVIOUS
<1>10. /\ new \in Seq(Issue) /\ DOMAIN new = DOMAIN is \cup {n} /\ n \notin DOMAIN is
       /\ new[n] = y /\ \A q \in DOMAIN is : new[q] = is[q]
  BY <1>7, <1>8, <1>9
<1>11. UnpostedChange(is, new)
  BY <1>5, <1>7, <1>8, <1>10 DEF UnpostedChange
<1>12. \A q \in DOMAIN new : new[q].request \in Issuable
  BY <1>1, <1>5, <1>7, <1>10, IssuesFacts
<1>. QED BY <1>1, <1>3, <1>9, <1>11, <1>12, IssuesChanged

LEMMA IssueEdited ==
    ASSUME IInv, NEW c \in Clients, SaveUpdateIssue(c), StillAllowed(c)
    PROVE  IInv'
<1>1. PICK i, data : i = client[c].doc /\ data = client[c].data
  OBVIOUS
<1>2. PICK was, old : was = issues[i] /\ old = was.items
  OBVIOUS
<1>3. PICK n, row, picked : n = data.item /\ row = data.row /\ picked = data.picked
  OBVIOUS
<1>4. PICK item : item = [old[n] EXCEPT !.row = row, !.picked = picked]
  OBVIOUS
<1>5. /\ client[c].op = "updateIssue" /\ client' = [client EXCEPT ![c] = Idle]
      /\ UNCHANGED <<stock, requests, returns>>
      /\ issues' = [issues EXCEPT ![i].items[n] = item]
  <2>1. /\ client[c].op = "updateIssue" /\ client' = [client EXCEPT ![c] = Idle]
        /\ UNCHANGED <<stock, requests, returns>>
        /\ issues' = [issues EXCEPT ![client[c].doc].items[client[c].data.item] =
                         [@ EXCEPT !.row = client[c].data.row, !.picked = client[c].data.picked]]
    BY Zenon DEF SaveUpdateIssue, Saving
  <2>. QED BY <1>1, <1>2, <1>3, <1>4, <2>1
<1>6. CallInv(client[c])
  BY DEF IInv, CallsInv
<1>7. /\ i \in DOMAIN issues /\ was.status = "draft" /\ n \in Lines \X Rows
      /\ row \in Rows /\ picked \in Nat
  BY <1>1, <1>2, <1>3, <1>5, <1>6 DEF CallInv, TypedCall, StillAllowed
<1>8. /\ was \in Issue /\ old \in Items /\ was.reversalOf = 0 /\ ~was.reversed
      /\ \A m \in DOMAIN old : old[m].returned = 0
  BY <1>2, <1>7, IssuesFacts
<1>9. item \in Item /\ item.returned = 0
  <2>1. PICK there : there = old[n]
    OBVIOUS
  <2>2. there \in Item /\ there.returned = 0
    BY <1>7, <1>8, <2>1 DEF Items
  <2>3. item = [there EXCEPT !.row = row, !.picked = picked]
    BY <1>4, <2>1
  <2>. QED BY <1>7, <2>2, <2>3 DEF Item
<1>10. PICK items : items = [old EXCEPT ![n] = item]
  OBVIOUS
<1>11. items \in Items /\ \A m \in DOMAIN items : items[m].returned = 0
  BY <1>8, <1>9, <1>10 DEF Items
<1>12. PICK y : y = [was EXCEPT !.items = items]
  OBVIOUS
<1>13. /\ y \in Issue /\ y.status = "draft" /\ y.reversalOf = 0 /\ ~y.reversed
       /\ y.request = was.request /\ y.items = items
  BY <1>7, <1>8, <1>11, <1>12 DEF Issue
<1>14. issues' = [issues EXCEPT ![i] = y]
  BY ONLY <1>2, <1>5, <1>7, <1>10, <1>12
<1>15. IssueChange(i, y)
  BY <1>2, <1>5, <1>7, <1>11, <1>13, <1>14 DEF IssueChange
<1>. QED BY <1>5, <1>15, IssueChanged

LEMMA IssueMoved ==
    ASSUME IInv, NEW c \in Clients, SaveIssueStatus(c), StillAllowed(c)
    PROVE  IInv'
<1>1. PICK i, to : i = client[c].doc /\ to = client[c].data
  OBVIOUS
<1>2. PICK was : was = issues[i]
  OBVIOUS
<1>3. /\ client[c].op = "issueStatus" /\ client' = [client EXCEPT ![c] = Idle]
      /\ UNCHANGED <<stock, requests, returns>>
      /\ issues' = [issues EXCEPT ![i].status = to]
  BY <1>1 DEF SaveIssueStatus, Saving
<1>4. CallInv(client[c])
  BY DEF IInv, CallsInv
<1>5. i \in DOMAIN issues /\ to \in {"picked", "cancelled"} /\ IssueMay(was.status, to)
  BY <1>1, <1>2, <1>3, <1>4 DEF CallInv, TypedCall, StillAllowed
<1>6. was.status \in {"draft", "picked"}
  BY <1>5 DEF IssueMay
<1>7. /\ was \in Issue /\ was.reversalOf = 0 /\ ~was.reversed
      /\ \A n \in DOMAIN was.items : was.items[n].returned = 0
  BY <1>2, <1>5, <1>6, IssuesFacts
<1>8. PICK y : y = [was EXCEPT !.status = to]
  OBVIOUS
<1>9. /\ y \in Issue /\ y.status = to /\ y.reversalOf = 0 /\ ~y.reversed
      /\ y.request = was.request /\ y.items = was.items
  BY <1>5, <1>7, <1>8 DEF Issue, IssueStatus
<1>10. issues' = [issues EXCEPT ![i] = y]
  BY <1>2, <1>3, <1>5, <1>8
<1>11. IssueChange(i, y)
  BY <1>2, <1>3, <1>5, <1>6, <1>7, <1>9, <1>10 DEF IssueChange
<1>. QED BY <1>3, <1>11, IssueChanged

LEMMA ReturnedTotals ==
    ASSUME IInv
    PROVE  \A b, good : ReturnedIn(returns, b, good) \in Nat
<1>. TAKE b, good
<1> PICK ts : ts = returns
  OBVIOUS
<1>1. ts \in Seq(Return)
  BY DEF IInv, ReturnsInv
<1> DEFINE f == [t \in PostedReturnsIn(ts) |-> BackOnRow(ts[t].lines, b, good)]
<1>2. DOMAIN f = PostedReturnsIn(ts)
      /\ \A t \in PostedReturnsIn(ts) : f[t] = BackOnRow(ts[t].lines, b, good)
  OBVIOUS
<1>3. ReturnedIn(ts, b, good) = SumFunction(f)
  BY DEF ReturnedIn
<1>. HIDE DEF f
<1>4. IsFiniteSet(DOMAIN f) /\ \A t \in DOMAIN f : f[t] \in Nat
  BY <1>1, <1>2, ReturnFacts
<1>. QED BY <1>3, <1>4, TotalNat

-----------------------------------------------------------------------------
(* Posting and reversing *)

(* Issues changed, the balances with them, and request r became x. *)
Booked(r, delta, x) ==
    /\ Told(r, delta, x) /\ r \in Issuable
    /\ onHand' \in [Rows -> Nat] /\ BalancesFit(onHand', scrap, issues', returns)
    /\ Issues(issues') /\ \A q \in DOMAIN issues' : issues'[q].request \in Issuable
    /\ DOMAIN issues \subseteq DOMAIN issues' /\ PostedIssues \subseteq PostedIssues'
    /\ OnceIn(issues') =>
          /\ OnceIn(issues)
          /\ \A q : \A l \in Lines :
                NetIn(issues', q, ProductOf[l])
                    = NetIn(issues, q, ProductOf[l]) + (IF q = r THEN delta[l] ELSE 0)
    /\ scrap' = scrap /\ returns' = returns /\ client' = client

LEMMA IssueBooked ==
    ASSUME IInv, NEW r, NEW delta \in [Lines -> Int], NEW x, Booked(r, delta, x)
    PROVE  IInv'
<1>1. /\ Told(r, delta, x) /\ r \in Issuable
      /\ onHand' \in [Rows -> Nat] /\ BalancesFit(onHand', scrap, issues', returns)
      /\ Issues(issues') /\ \A q \in DOMAIN issues' : issues'[q].request \in Issuable
      /\ DOMAIN issues \subseteq DOMAIN issues' /\ PostedIssues \subseteq PostedIssues'
      /\ OnceIn(issues') =>
            /\ OnceIn(issues)
            /\ \A q : \A l \in Lines :
                  NetIn(issues', q, ProductOf[l])
                      = NetIn(issues, q, ProductOf[l]) + (IF q = r THEN delta[l] ELSE 0)
      /\ scrap' = scrap /\ returns' = returns /\ client' = client
  BY DEF Booked
<1>2. /\ ReplacesRequest(requests, r, x, requests') /\ Rebooked(r, x)
      /\ x.status \in Approved \cup {"cancelled"}
      /\ x.status \notin Approved => \A l \in Lines : x.lines[l].reserved = 0
      /\ \A l \in Lines :
            x.lines[l].fulfilled = Max({0, requests[r].lines[l].fulfilled + delta[l]})
  BY <1>1 DEF Told
<1>3. RequestsInv' /\ Issuable \subseteq Issuable' /\ DOMAIN requests' = DOMAIN requests
  BY <1>2, RequestsKept
<1>4. /\ requests'[r] = x /\ \A q \in DOMAIN requests \ {r} : requests'[q] = requests[q]
      /\ \A p : HeldIn(requests', p) = HeldIn(requests, p) - HeldBy(requests[r].lines, p)
                                         + HeldBy(x.lines, p)
  BY <1>2, RequestReplaced
<1>5. r \in DOMAIN requests /\ x \in Request
  BY <1>2 DEF ReplacesRequest
<1>6. /\ StockInv /\ ReturnsInv /\ CallsInv
      /\ HoldsFit(reserved, requests) /\ RequestsFit(requests, issues)
  BY InTerms DEF FitsSums
<1>7. HoldsFit(reserved', requests')
  BY <1>2, <1>4, <1>5, <1>6, HeldByRequests
<1>8. RequestsFit(requests', issues')
  <2>. SUFFICES ASSUME OnceIn(issues'), NEW q \in DOMAIN requests', NEW l \in Lines
                PROVE  requests'[q].lines[l].fulfilled = NetIn(issues', q, ProductOf[l])
    BY DEF RequestsFit
  <2>1. /\ OnceIn(issues)
        /\ NetIn(issues', q, ProductOf[l])
             = NetIn(issues, q, ProductOf[l]) + (IF q = r THEN delta[l] ELSE 0)
    BY <1>1
  <2>2. requests[q].lines[l].fulfilled = NetIn(issues, q, ProductOf[l])
    BY <1>3, <1>6, <2>1 DEF RequestsFit
  <2>3. NetIn(issues, q, ProductOf[l]) \in Nat /\ NetIn(issues', q, ProductOf[l]) \in Nat
    BY <1>1, IssuesFacts, IssueTotals
  <2>4. CASE q = r
    <3>1. requests'[q].lines[l].fulfilled
            = Max({0, NetIn(issues, q, ProductOf[l]) + delta[l]})
      BY <1>2, <1>4, <2>2, <2>4
    <3>2. NetIn(issues, q, ProductOf[l]) + delta[l] = NetIn(issues', q, ProductOf[l])
      BY <2>1, <2>4
    <3>3. Max({0, NetIn(issues', q, ProductOf[l])}) = NetIn(issues', q, ProductOf[l])
      BY <2>3, MaxOfTwo
    <3>. QED BY <3>1, <3>2, <3>3
  <2>5. CASE q # r
    <3>1. requests'[q].lines[l].fulfilled = requests[q].lines[l].fulfilled
      BY <1>3, <1>4, <2>5
    <3>. QED BY <2>1, <2>2, <2>3, <2>5, <3>1
  <2>. QED BY <2>4, <2>5
<1>9. CallsInv'
  BY <1>1, <1>3, <1>6, CallsStay
<1>10. StockInv'
  BY <1>1, <1>2, <1>6 DEF StockInv, Rebooked
<1>11. IssuesInv'
  BY <1>1, <1>3, IssuesInTerms
<1>12. ReturnsInv'
  BY <1>1, <1>6 DEF ReturnsInv
<1>13. FitsSums'
  BY <1>1, <1>7, <1>8 DEF FitsSums
<1>. QED BY <1>3, <1>9, <1>10, <1>11, <1>12, <1>13, InTerms

(* The quantities of an issue, by line. *)
LEMMA IssuedDelta ==
    ASSUME NEW items \in Items, NEW delta, delta = [l \in Lines |-> OfProduct(items, ProductOf[l])]
    PROVE  /\ delta \in [Lines -> Int]
           /\ \A l \in Lines : delta[l] = OfProduct(items, ProductOf[l])
BY ItemTotals

LEMMA IssuePosted ==
    ASSUME IInv, NEW c \in Clients, NEW i \in DOMAIN issues, PostIssue(c, i)
    PROVE  IInv'
<1>1. PICK was, is : was = issues[i] /\ is = issues
  OBVIOUS
<1>2. PICK items, r : items = was.items /\ r = was.request
  OBVIOUS
<1>3. PICK delta : delta = [l \in Lines |-> OfProduct(items, ProductOf[l])]
  OBVIOUS
<1>4. /\ IssueMay(was.status, "posted") /\ Covered(items)
      /\ onHand' = [b \in Rows |-> onHand[b] - OnRow(items, b)]
      /\ ApplyIssued(r, delta)
      /\ issues' = [issues EXCEPT ![i].status = "posted"]
      /\ scrap' = scrap /\ returns' = returns /\ client' = client
  BY <1>1, <1>2, <1>3, Zenon DEF PostIssue, InOneTransaction
<1>5. was.status = "picked"
  BY <1>4 DEF IssueMay
<1>6. /\ was \in Issue /\ items \in Items /\ r \in Issuable
      /\ Issues(is) /\ i \in DOMAIN is
  BY <1>1, <1>2, IssuesFacts
<1>7. delta \in [Lines -> Int] /\ \A l \in Lines : delta[l] = OfProduct(items, ProductOf[l])
  BY <1>3, <1>6, IssuedDelta
<1>8. PICK x : Told(r, delta, x)
  BY <1>4, <1>6, <1>7, Applied
<1>9. PICK y, new : y = [was EXCEPT !.status = "posted"] /\ new = [is EXCEPT ![i] = y]
  OBVIOUS
<1>10. /\ y \in Issue /\ y.status = "posted" /\ y.request = r /\ y.items = items
       /\ y.reversalOf = was.reversalOf /\ y.reversed = was.reversed
  BY <1>2, <1>6, <1>9, Zenon DEF Issue, IssueStatus
<1>11. issues' = new
  BY <1>1, <1>4, <1>6, <1>9
<1>12. Posting(is, i, y, new)
  BY <1>1, <1>2, <1>5, <1>6, <1>9, <1>10 DEF Posting, Replaces
<1>13. /\ Issues(new)
       /\ \A b : /\ PickedIn(new, b) = PickedIn(is, b) + OnRow(items, b)
                 /\ GivenBackIn(new, b) = GivenBackIn(is, b)
       /\ OnceIn(new) => OnceIn(is)
       /\ \A q, p : NetIn(new, q, p) = NetIn(is, q, p)
                        + IF r = q THEN OfProduct(items, p) ELSE 0
  BY <1>1, <1>2, <1>12, OnePosted
<1>14. /\ DOMAIN new = DOMAIN is /\ new[i] = y
       /\ \A q \in DOMAIN is \ {i} : new[q] = is[q]
  BY <1>12, Replaced DEF Posting
<1>15. onHand' \in [Rows -> Nat]
  <2>1. \A b \in Rows : onHand[b] \in Nat /\ OnRow(items, b) \in Nat
    BY <1>6, ItemTotals DEF IInv, StockInv
  <2>. QED BY <1>4, <2>1 DEF Covered
<1>16. BalancesFit(onHand', scrap, new, returns)
  <2>. SUFFICES ASSUME NEW b \in Rows
                PROVE  /\ onHand'[b] = Opening[b] - PickedIn(new, b) + GivenBackIn(new, b)
                                         + ReturnedIn(returns, b, TRUE)
                       /\ scrap[b] = ReturnedIn(returns, b, FALSE)
    BY DEF BalancesFit
  <2>1. PICK back : back = ReturnedIn(returns, b, TRUE)
    OBVIOUS
  <2>2. /\ onHand[b] = Opening[b] - PickedIn(is, b) + GivenBackIn(is, b) + back
        /\ scrap[b] = ReturnedIn(returns, b, FALSE)
    BY <1>1, <2>1, InTerms DEF FitsSums, BalancesFit
  <2>3. onHand'[b] = onHand[b] - OnRow(items, b)
    BY <1>4
  <2>4. /\ Opening[b] \in Int /\ PickedIn(is, b) \in Int /\ GivenBackIn(is, b) \in Int
        /\ back \in Int /\ OnRow(items, b) \in Int
    <3>1. Opening[b] \in Int
      BY FulfilmentAssumption
    <3>2. PickedIn(is, b) \in Int /\ GivenBackIn(is, b) \in Int
      BY <1>6, IssueTotals
    <3>3. back \in Nat
      BY <2>1, ReturnedTotals, Zenon
    <3>4. OnRow(items, b) \in Int
      BY <1>6, ItemTotals
    <3>. QED BY <3>1, <3>2, <3>3, <3>4
  <2>5. /\ PickedIn(new, b) = PickedIn(is, b) + OnRow(items, b)
        /\ GivenBackIn(new, b) = GivenBackIn(is, b)
    BY <1>13
  <2>6. onHand'[b] = Opening[b] - PickedIn(new, b) + GivenBackIn(new, b) + back
    BY ONLY <2>2, <2>3, <2>4, <2>5
  <2>. QED BY <2>1, <2>2, <2>6
<1>17. \A q \in DOMAIN new : new[q].request \in Issuable
  BY <1>1, <1>2, <1>6, <1>10, <1>14, IssuesFacts
<1>18. PostedIssues \subseteq PostedIssues'
  BY <1>1, <1>10, <1>11, <1>14 DEF PostedIssues
<1>19. OnceIn(new) =>
          /\ OnceIn(is)
          /\ \A q : \A l \in Lines :
                NetIn(new, q, ProductOf[l])
                    = NetIn(is, q, ProductOf[l]) + (IF q = r THEN delta[l] ELSE 0)
  BY <1>7, <1>13
<1>20. Booked(r, delta, x)
  <2>1. /\ BalancesFit(onHand', scrap, issues', returns) /\ Issues(issues')
        /\ \A q \in DOMAIN issues' : issues'[q].request \in Issuable
        /\ DOMAIN issues \subseteq DOMAIN issues'
    BY <1>1, <1>11, <1>13, <1>14, <1>16, <1>17
  <2>2. OnceIn(issues') =>
          /\ OnceIn(issues)
          /\ \A q : \A l \in Lines :
                NetIn(issues', q, ProductOf[l])
                    = NetIn(issues, q, ProductOf[l]) + (IF q = r THEN delta[l] ELSE 0)
    BY <1>1, <1>11, <1>19
  <2>. QED BY <1>4, <1>6, <1>8, <1>15, <1>18, <2>1, <2>2 DEF Booked
<1>. QED BY <1>7, <1>20, IssueBooked

LEMMA ReversedDelta ==
    ASSUME NEW items \in Items, NEW delta,
           delta = [l \in Lines |-> -OfProduct(items, ProductOf[l])]
    PROVE  /\ delta \in [Lines -> Int]
           /\ \A l \in Lines : delta[l] = 0 - OfProduct(items, ProductOf[l])
BY ItemTotals

LEMMA IssueReversed ==
    ASSUME IInv, NEW c \in Clients, NEW i \in DOMAIN issues, ReverseIssue(c, i)
    PROVE  IInv'
<1>1. PICK was, is : was = issues[i] /\ is = issues
  OBVIOUS
<1>2. PICK items, r : items = was.items /\ r = was.request
  OBVIOUS
<1>3. PICK delta : delta = [l \in Lines |-> -OfProduct(items, ProductOf[l])]
  OBVIOUS
<1>4. PICK reversal : reversal = [request |-> r, status |-> "posted", items |-> items,
                                  reversalOf |-> i, reversed |-> FALSE]
  OBVIOUS
<1>5. /\ was.status = "posted"
      /\ onHand' = [b \in Rows |-> onHand[b] + OnRow(items, b)]
      /\ ApplyIssued(r, delta)
      /\ issues' = Append([issues EXCEPT ![i].reversed = TRUE], reversal)
      /\ scrap' = scrap /\ returns' = returns /\ client' = client
  BY <1>1, <1>2, <1>3, <1>4, Zenon DEF ReverseIssue, InOneTransaction
<1>6. /\ was \in Issue /\ items \in Items /\ r \in Issuable
      /\ Issues(is) /\ is \in Seq(Issue) /\ i \in DOMAIN is
  BY <1>1, <1>2, IssuesFacts
<1>7. /\ delta \in [Lines -> Int]
      /\ \A l \in Lines : delta[l] = 0 - OfProduct(items, ProductOf[l])
  BY <1>3, <1>6, ReversedDelta
<1>8. PICK x : Told(r, delta, x)
  BY <1>5, <1>6, <1>7, Applied
<1>9. PICK y, stamped : y = [was EXCEPT !.reversed = TRUE] /\ stamped = [is EXCEPT ![i] = y]
  OBVIOUS
<1>10. /\ y \in Issue /\ y.status = "posted" /\ y.request = r /\ y.items = items
       /\ y.reversalOf = was.reversalOf /\ y.reversed
  BY <1>2, <1>5, <1>6, <1>9, Zenon DEF Issue
<1>11. /\ reversal \in Issue /\ reversal.status = "posted" /\ ~reversal.reversed
       /\ reversal.request = r /\ reversal.reversalOf = i /\ reversal.items = items
  <2>1. r \in Nat /\ i \in Nat
    <3>1. DOMAIN requests \subseteq Nat /\ DOMAIN is \subseteq Nat
      BY <1>6, RequestsFacts, RequestFacts, IssueFacts
    <3>. QED BY <1>6, <3>1, RequestsFacts
  <2>. QED BY <1>4, <1>6, <2>1 DEF Issue, IssueStatus
<1>12. PICK new : new = Append(stamped, reversal)
  OBVIOUS
<1>13. issues' = new
  <2>1. stamped = [issues EXCEPT ![i].reversed = TRUE]
    BY <1>1, <1>6, <1>9, Zenon
  <2>. QED BY <1>5, <1>12, <2>1
<1>14. Reversing(is, i, y, reversal, new)
  BY <1>1, <1>2, <1>5, <1>6, <1>9, <1>10, <1>11, <1>12 DEF Reversing
<1>15. /\ Issues(new)
       /\ \A b : /\ PickedIn(new, b) = PickedIn(is, b)
                 /\ GivenBackIn(new, b) = GivenBackIn(is, b) + OnRow(items, b)
       /\ OnceIn(new) =>
             /\ OnceIn(is)
             /\ \A q, p : NetIn(new, q, p) = NetIn(is, q, p)
                              - IF r = q THEN OfProduct(items, p) ELSE 0
  BY <1>1, <1>2, <1>14, OneReversed
<1>16. \A q \in DOMAIN new : \/ q \in DOMAIN is \ {i} /\ new[q] = is[q]
                             \/ q = i /\ new[q] = y
                             \/ q \notin DOMAIN is /\ new[q] = reversal
  <2>1. /\ stamped \in Seq(Issue) /\ DOMAIN stamped = DOMAIN is
        /\ stamped[i] = y /\ \A q \in DOMAIN is \ {i} : stamped[q] = is[q]
    BY <1>6, <1>9, <1>10
  <2>. QED BY <1>11, <1>12, <2>1
<1>17. DOMAIN is \subseteq DOMAIN new
  <2>1. /\ stamped \in Seq(Issue) /\ DOMAIN stamped = DOMAIN is
    BY <1>6, <1>9, <1>10
  <2>. QED BY <1>11, <1>12, <2>1
<1>18. onHand' \in [Rows -> Nat]
  <2>1. \A b \in Rows : onHand[b] \in Nat /\ OnRow(items, b) \in Nat
    BY <1>6, ItemTotals DEF IInv, StockInv
  <2>. QED BY <1>5, <2>1
<1>19. BalancesFit(onHand', scrap, new, returns)
  <2>. SUFFICES ASSUME NEW b \in Rows
                PROVE  /\ onHand'[b] = Opening[b] - PickedIn(new, b) + GivenBackIn(new, b)
                                         + ReturnedIn(returns, b, TRUE)
                       /\ scrap[b] = ReturnedIn(returns, b, FALSE)
    BY DEF BalancesFit
  <2>1. PICK back : back = ReturnedIn(returns, b, TRUE)
    OBVIOUS
  <2>2. /\ onHand[b] = Opening[b] - PickedIn(is, b) + GivenBackIn(is, b) + back
        /\ scrap[b] = ReturnedIn(returns, b, FALSE)
    BY <1>1, <2>1, InTerms DEF FitsSums, BalancesFit
  <2>3. onHand'[b] = onHand[b] + OnRow(items, b)
    BY <1>5
  <2>4. /\ Opening[b] \in Int /\ PickedIn(is, b) \in Int /\ GivenBackIn(is, b) \in Int
        /\ back \in Int /\ OnRow(items, b) \in Int
    <3>1. Opening[b] \in Int
      BY FulfilmentAssumption
    <3>2. PickedIn(is, b) \in Int /\ GivenBackIn(is, b) \in Int
      BY <1>6, IssueTotals
    <3>3. back \in Nat
      BY <2>1, ReturnedTotals, Zenon
    <3>4. OnRow(items, b) \in Int
      BY <1>6, ItemTotals
    <3>. QED BY <3>1, <3>2, <3>3, <3>4
  <2>5. /\ PickedIn(new, b) = PickedIn(is, b)
        /\ GivenBackIn(new, b) = GivenBackIn(is, b) + OnRow(items, b)
    BY <1>15
  <2>6. onHand'[b] = Opening[b] - PickedIn(new, b) + GivenBackIn(new, b) + back
    BY ONLY <2>2, <2>3, <2>4, <2>5
  <2>. QED BY <2>1, <2>2, <2>6
<1>20. \A q \in DOMAIN new : new[q].request \in Issuable
  BY <1>1, <1>6, <1>10, <1>11, <1>16, IssuesFacts
<1>21. PostedIssues \subseteq PostedIssues'
  BY <1>1, <1>10, <1>13, <1>16, <1>17 DEF PostedIssues
<1>22. OnceIn(new) =>
          /\ OnceIn(is)
          /\ \A q : \A l \in Lines :
                NetIn(new, q, ProductOf[l])
                    = NetIn(is, q, ProductOf[l]) + (IF q = r THEN delta[l] ELSE 0)
  <2>. SUFFICES ASSUME OnceIn(new), NEW q, NEW l \in Lines
                PROVE  NetIn(new, q, ProductOf[l])
                         = NetIn(is, q, ProductOf[l]) + (IF q = r THEN delta[l] ELSE 0)
    BY <1>15
  <2>1. NetIn(new, q, ProductOf[l])
          = NetIn(is, q, ProductOf[l]) - (IF r = q THEN OfProduct(items, ProductOf[l]) ELSE 0)
    BY <1>15
  <2>2. NetIn(is, q, ProductOf[l]) \in Int /\ OfProduct(items, ProductOf[l]) \in Int
    BY <1>6, IssueTotals, ItemTotals
  <2>3. delta[l] = 0 - OfProduct(items, ProductOf[l])
    BY <1>7
  <2>. QED BY ONLY <2>1, <2>2, <2>3
<1>23. Booked(r, delta, x)
  <2>1. /\ BalancesFit(onHand', scrap, issues', returns) /\ Issues(issues')
        /\ \A q \in DOMAIN issues' : issues'[q].request \in Issuable
        /\ DOMAIN issues \subseteq DOMAIN issues'
    BY <1>1, <1>13, <1>15, <1>17, <1>19, <1>20
  <2>2. OnceIn(issues') =>
          /\ OnceIn(issues)
          /\ \A q : \A l \in Lines :
                NetIn(issues', q, ProductOf[l])
                    = NetIn(issues, q, ProductOf[l]) + (IF q = r THEN delta[l] ELSE 0)
    BY <1>1, <1>13, <1>22
  <2>. QED BY <1>5, <1>6, <1>8, <1>18, <1>21, <2>1, <2>2 DEF Booked
<1>. QED BY <1>7, <1>23, IssueBooked

-----------------------------------------------------------------------------
(* Steps of one return *)

LEMMA ReturnsFacts ==
    ASSUME IInv
    PROVE  /\ returns \in Seq(Return) /\ DOMAIN returns = 1..Len(returns)
           /\ \A t \in DOMAIN returns :
                 /\ returns[t] \in Return /\ returns[t].lines \in Seq(Back)
                 /\ returns[t].issue \in PostedIssues
<1>1. returns \in Seq(Return) /\ \A t \in DOMAIN returns : returns[t].issue \in PostedIssues
  BY DEF IInv, ReturnsInv
<1>2. \A t \in DOMAIN returns : returns[t] \in Return /\ returns[t].lines \in Seq(Back)
  BY <1>1, ReturnFacts
<1>. QED BY <1>1, <1>2

LEMMA ReturnCreated ==
    ASSUME IInv, NEW c \in Clients, SaveCreateReturn(c)
    PROVE  IInv'
<1>1. PICK i, lines, ts : i = client[c].doc /\ lines = client[c].data /\ ts = returns
  OBVIOUS
<1>2. PICK y : y = [issue |-> i, status |-> "draft", lines |-> lines]
  OBVIOUS
<1>3. /\ client[c].op = "createReturn" /\ client' = [client EXCEPT ![c] = Idle]
      /\ onHand' = onHand /\ reserved' = reserved /\ scrap' = scrap
      /\ requests' = requests /\ issues' = issues
      /\ returns' = Append(ts, y)
  BY <1>1, <1>2 DEF SaveCreateReturn, Saving, stock
<1>4. CallInv(client[c])
  BY DEF IInv, CallsInv
<1>5. i \in PostedIssues /\ lines \in Seq(Back)
  BY <1>1, <1>3, <1>4 DEF CallInv, TypedCall
<1>6. i \in Nat
  <2>1. DOMAIN issues \subseteq Nat
    BY IssuesFacts, IssueFacts
  <2>. QED BY <1>5, <2>1 DEF PostedIssues
<1>7. y \in Return /\ y.status = "draft" /\ y.issue = i
  BY <1>2, <1>5, <1>6 DEF Return
<1>8. ts \in Seq(Return) /\ DOMAIN ts = 1..Len(ts)
  BY <1>1, ReturnsFacts
<1>9. PICK n, new : n = Len(ts) + 1 /\ new = Append(ts, y)
  OBVIOUS
<1>10. /\ new \in Seq(Return) /\ DOMAIN new = DOMAIN ts \cup {n} /\ n \notin DOMAIN ts
       /\ new[n] = y /\ \A t \in DOMAIN ts : new[t] = ts[t]
  BY <1>7, <1>8, <1>9
<1>11. \A b, good : ReturnedIn(new, b, good) = ReturnedIn(ts, b, good)
  <2>1. \A t \in DOMAIN new \ DOMAIN ts : new[t].status # "posted"
    BY <1>7, <1>10
  <2>2. DOMAIN ts \subseteq DOMAIN new /\ \A t \in DOMAIN ts : new[t] = ts[t]
    BY <1>10
  <2>. QED BY ONLY <2>1, <2>2, ReturnDrafted
<1>12. returns' = new
  BY <1>3, <1>9
<1>13. /\ StockInv /\ RequestsInv /\ IssuesInv /\ CallsInv
       /\ HoldsFit(reserved, requests) /\ BalancesFit(onHand, scrap, issues, ts)
       /\ RequestsFit(requests, issues)
  BY <1>1, InTerms DEF FitsSums
<1>14. BalancesFit(onHand, scrap, issues, new)
  <2>1. \A b : /\ ReturnedIn(new, b, TRUE) = ReturnedIn(ts, b, TRUE)
               /\ ReturnedIn(new, b, FALSE) = ReturnedIn(ts, b, FALSE)
    BY <1>11, Zenon
  <2>. QED BY <1>13, <2>1 DEF BalancesFit
<1>15. FitsSums'
  BY <1>3, <1>12, <1>13, <1>14 DEF FitsSums
<1>16. PostedIssues' = PostedIssues /\ Issuable' = Issuable
  BY <1>3 DEF PostedIssues, Issuable
<1>17. CallsInv'
  BY <1>3, <1>13, <1>16, CallsStay
<1>18. \A t \in DOMAIN new : new[t].issue \in PostedIssues
  BY <1>1, <1>5, <1>7, <1>10, ReturnsFacts
<1>19. ReturnsInv'
  BY <1>10, <1>12, <1>16, <1>18 DEF ReturnsInv
<1>20. StockInv' /\ RequestsInv'
  BY <1>3, <1>13 DEF StockInv, RequestsInv
<1>21. IssuesInv'
  BY <1>3, <1>13, <1>16, IssuesInTerms
<1>. QED BY <1>15, <1>17, <1>19, <1>20, <1>21, InTerms

(* What a return adds to the items of its issue. *)
LEMMA ReturnedItemsFit ==
    ASSUME NEW items \in Items, NEW lines \in Seq(Back), ReturnFits(items, lines),
           \A n \in DOMAIN items : items[n].returned <= items[n].picked,
           NEW new, new = ReturnedItems(items, lines)
    PROVE  /\ new \in Items
           /\ \A n \in DOMAIN items : /\ new[n].row = items[n].row
                                      /\ new[n].picked = items[n].picked
           /\ \A n \in DOMAIN new : new[n].returned <= new[n].picked
<1> DEFINE item(n) == [items[n] EXCEPT !.returned = @ + AgainstItem(lines, n)]
<1>1. new = [n \in DOMAIN items |-> item(n)]
  BY Zenon DEF ReturnedItems
<1>2. DOMAIN items = Lines \X Rows /\ \A n \in DOMAIN items : items[n] \in Item
  BY DEF Items
<1>3. ASSUME NEW n \in DOMAIN items
      PROVE  /\ item(n) \in Item /\ item(n).row = items[n].row
             /\ item(n).picked = items[n].picked /\ item(n).returned <= items[n].picked
  <2>1. PICK was, k : was = items[n] /\ k = AgainstItem(lines, n)
    OBVIOUS
  <2>2. k \in Nat
    BY <2>1, BackTotals
  <2>3. was \in Item /\ was.returned <= was.picked
    BY <1>2, <2>1
  <2>4. was.returned \in Nat /\ was.picked \in Nat
    BY <2>3 DEF Item
  <2>5. k > 0 => was.returned + k <= was.picked
    BY <2>1 DEF ReturnFits
  <2>6. PICK sum : sum = was.returned + k
    OBVIOUS
  <2>7. sum \in Nat /\ sum <= was.picked
    BY <2>2, <2>3, <2>4, <2>5, <2>6
  <2>8. item(n) = [was EXCEPT !.returned = sum]
    BY <2>1, <2>6
  <2>. HIDE DEF item
  <2>. QED BY <2>1, <2>3, <2>7, <2>8 DEF Item
<1>. HIDE DEF item
<1>4. new \in Items
  BY <1>1, <1>2, <1>3 DEF Items
<1>. QED BY <1>1, <1>3, <1>4

LEMMA ReturnBooked ==
    ASSUME IInv, NEW c \in Clients, NEW t \in DOMAIN returns, PostReturn(c, t)
    PROVE  IInv'
<1>1. PICK ts, there : ts = returns /\ there = returns[t]
  OBVIOUS
<1>2. PICK lines, i : lines = there.lines /\ i = there.issue
  OBVIOUS
<1>3. PICK is, was : is = issues /\ was = issues[i]
  OBVIOUS
<1>4. PICK old, items : old = was.items /\ items = ReturnedItems(old, lines)
  OBVIOUS
<1>5. /\ there.status = "draft" /\ ReturnFits(old, lines)
      /\ onHand' = [b \in Rows |-> onHand[b] + BackOnRow(lines, b, TRUE)]
      /\ scrap' = [b \in Rows |-> scrap[b] + BackOnRow(lines, b, FALSE)]
      /\ issues' = [issues EXCEPT ![i].items = ReturnedItems(@, lines)]
      /\ returns' = [returns EXCEPT ![t].status = "posted"]
      /\ reserved' = reserved /\ requests' = requests /\ client' = client
  BY <1>1, <1>2, <1>3, <1>4, Zenon DEF PostReturn, InOneTransaction
<1>6. /\ ts \in Seq(Return) /\ t \in DOMAIN ts /\ there \in Return
      /\ lines \in Seq(Back) /\ i \in PostedIssues
  BY <1>1, <1>2, ReturnsFacts
<1>7. i \in DOMAIN is /\ was.status = "posted"
  BY <1>3, <1>6 DEF PostedIssues
<1>8. /\ Issues(is) /\ was \in Issue /\ old \in Items
      /\ \A n \in DOMAIN old : old[n].returned <= old[n].picked
  <2>1. Issues(is) /\ was \in Issue /\ old \in Items
    BY <1>3, <1>4, <1>7, IssuesFacts
  <2>. QED BY <1>3, <1>4, <1>7, <2>1 DEF Issues
<1>9. /\ items \in Items
      /\ \A n \in DOMAIN old : items[n].row = old[n].row /\ items[n].picked = old[n].picked
      /\ \A n \in DOMAIN items : items[n].returned <= items[n].picked
  BY <1>4, <1>5, <1>6, <1>8, ReturnedItemsFit
<1>10. PICK y, new : y = [was EXCEPT !.items = items] /\ new = [is EXCEPT ![i] = y]
  OBVIOUS
<1>11. /\ y \in Issue /\ y.items = items /\ y.status = "posted" /\ y.request = was.request
       /\ y.reversalOf = was.reversalOf /\ y.reversed = was.reversed
  BY <1>7, <1>8, <1>9, <1>10, Zenon DEF Issue
<1>12. issues' = new
  BY <1>3, <1>4, <1>5, <1>7, <1>10
<1>13. CountsAs(y, was)
  <2>1. DOMAIN items = DOMAIN old
    BY <1>8, <1>9, ItemPlaces
  <2>2. /\ \A b : OnRow(items, b) = OnRow(old, b)
        /\ \A p : OfProduct(items, p) = OfProduct(old, p)
    BY <1>9, <2>1, ItemsAlike
  <2>. QED BY <1>4, <1>11, <2>2 DEF CountsAs
<1>14. Replaces(is, i, y, new)
  BY <1>7, <1>8, <1>10, <1>11 DEF Replaces
<1>15. Issues(new) /\ SameCounts(is, new)
  BY <1>3, <1>7, <1>9, <1>11, <1>13, <1>14, OneReturned
<1>16. /\ \A b : PickedIn(new, b) = PickedIn(is, b) /\ GivenBackIn(new, b) = GivenBackIn(is, b)
       /\ OnceIn(new) => OnceIn(is)
       /\ \A r, p : NetIn(new, r, p) = NetIn(is, r, p)
  BY <1>15, NothingPosted
<1>17. PICK posted, after : /\ posted = [there EXCEPT !.status = "posted"]
                            /\ after = [ts EXCEPT ![t] = posted]
  OBVIOUS
<1>18. posted \in Return /\ posted.status = "posted" /\ posted.lines = lines /\ posted.issue = i
  BY <1>2, <1>6, <1>17 DEF Return
<1>19. returns' = after
  BY <1>1, <1>5, <1>17
<1>20. /\ after \in Seq(Return) /\ DOMAIN after = DOMAIN ts /\ after[t] = posted
       /\ \A q \in DOMAIN ts \ {t} : after[q] = ts[q]
  BY <1>6, <1>17, <1>18
<1>21. \A b, good : ReturnedIn(after, b, good) = ReturnedIn(ts, b, good) + BackOnRow(lines, b, good)
  <2>1. /\ t \in DOMAIN ts /\ ts[t].status # "posted" /\ DOMAIN after = DOMAIN ts
        /\ after[t].status = "posted" /\ after[t].lines = ts[t].lines
        /\ ts[t].lines = lines
    BY <1>1, <1>2, <1>5, <1>6, <1>18, <1>20
  <2>2. \A b, good : ReturnedIn(after, b, good)
                        = ReturnedIn(ts, b, good) + BackOnRow(ts[t].lines, b, good)
    BY ONLY <1>6, <1>20, <2>1, ReturnPosted
  <2>. QED BY <2>1, <2>2, Zenon
<1>22. /\ StockInv /\ RequestsInv /\ CallsInv
       /\ HoldsFit(reserved, requests) /\ BalancesFit(onHand, scrap, is, ts)
       /\ RequestsFit(requests, is)
  BY <1>1, <1>3, InTerms DEF FitsSums
<1>23. \A b \in Rows : /\ onHand'[b] = onHand[b] + BackOnRow(lines, b, TRUE)
                       /\ scrap'[b] = scrap[b] + BackOnRow(lines, b, FALSE)
  BY <1>5
<1>24. \A b : BackOnRow(lines, b, TRUE) \in Nat /\ BackOnRow(lines, b, FALSE) \in Nat
  BY <1>6, BackTotals, Zenon
<1>25. StockInv'
  <2>1. onHand' \in [Rows -> Nat] /\ scrap' \in [Rows -> Nat]
    <3>1. \A b \in Rows : /\ onHand[b] \in Nat /\ scrap[b] \in Nat
                           /\ BackOnRow(lines, b, TRUE) \in Nat
                           /\ BackOnRow(lines, b, FALSE) \in Nat
      BY <1>22, <1>24, Zenon DEF StockInv
    <3>2. PICK m, n : /\ m = [b \in Rows |-> BackOnRow(lines, b, TRUE)]
                      /\ n = [b \in Rows |-> BackOnRow(lines, b, FALSE)]
      OBVIOUS
    <3>3. \A b \in Rows : m[b] \in Nat /\ n[b] \in Nat
      BY <3>1, <3>2, Zenon
    <3>4. /\ onHand' = [b \in Rows |-> onHand[b] + m[b]]
          /\ scrap' = [b \in Rows |-> scrap[b] + n[b]]
      BY <1>5, <3>2
    <3>5. \A b \in Rows : onHand[b] \in Nat /\ scrap[b] \in Nat
      BY <3>1, Zenon
    <3>. QED BY ONLY <3>3, <3>4, <3>5
  <2>. QED BY <1>5, <1>22, <2>1 DEF StockInv
<1>26. BalancesFit(onHand', scrap', new, after)
  <2>. SUFFICES ASSUME NEW b \in Rows
                PROVE  /\ onHand'[b] = Opening[b] - PickedIn(new, b) + GivenBackIn(new, b)
                                         + ReturnedIn(after, b, TRUE)
                       /\ scrap'[b] = ReturnedIn(after, b, FALSE)
    BY DEF BalancesFit
  <2>1. PICK back, lost : back = ReturnedIn(ts, b, TRUE) /\ lost = ReturnedIn(ts, b, FALSE)
    OBVIOUS
  <2>2. PICK m, n : m = BackOnRow(lines, b, TRUE) /\ n = BackOnRow(lines, b, FALSE)
    OBVIOUS
  <2>3. /\ onHand[b] = Opening[b] - PickedIn(is, b) + GivenBackIn(is, b) + back
        /\ scrap[b] = lost
    BY <1>22, <2>1 DEF BalancesFit
  <2>4. ReturnedIn(after, b, TRUE) = back + m /\ ReturnedIn(after, b, FALSE) = lost + n
    BY <1>21, <2>1, <2>2, Zenon
  <2>5. onHand'[b] = onHand[b] + m /\ scrap'[b] = scrap[b] + n
    BY <1>23, <2>2
  <2>6. /\ Opening[b] \in Int /\ PickedIn(is, b) \in Int /\ GivenBackIn(is, b) \in Int
        /\ back \in Int /\ m \in Int
    <3>1. Opening[b] \in Int
      BY FulfilmentAssumption
    <3>2. PickedIn(is, b) \in Int /\ GivenBackIn(is, b) \in Int
      BY <1>8, IssueTotals
    <3>3. back \in Nat
      BY <1>1, <2>1, ReturnedTotals, Zenon
    <3>4. m \in Nat
      BY <1>24, <2>2
    <3>. QED BY <3>1, <3>2, <3>3, <3>4
  <2>7. PickedIn(new, b) = PickedIn(is, b) /\ GivenBackIn(new, b) = GivenBackIn(is, b)
    BY <1>16
  <2>8. onHand'[b] = Opening[b] - PickedIn(new, b) + GivenBackIn(new, b) + (back + m)
    BY ONLY <2>3, <2>5, <2>6, <2>7
  <2>9. scrap'[b] = lost + n
    BY ONLY <2>3, <2>5
  <2>. QED BY <2>4, <2>8, <2>9
<1>27. RequestsFit(requests, new)
  BY <1>16, <1>22 DEF RequestsFit
<1>28. FitsSums'
  BY <1>5, <1>12, <1>19, <1>22, <1>26, <1>27 DEF FitsSums
<1>29. /\ DOMAIN new = DOMAIN is /\ new[i] = y /\ \A q \in DOMAIN is \ {i} : new[q] = is[q]
  BY <1>14, Replaced
<1>30. Issuable' = Issuable
  BY <1>5 DEF Issuable
<1>31. PostedIssues' = PostedIssues
  BY <1>3, <1>7, <1>11, <1>12, <1>29 DEF PostedIssues
<1>32. CallsInv'
  BY <1>3, <1>5, <1>12, <1>22, <1>29, <1>30, <1>31, CallsStay
<1>33. \A q \in DOMAIN new : new[q].request \in Issuable
  BY <1>3, <1>7, <1>11, <1>29, IssuesFacts
<1>34. IssuesInv'
  BY <1>12, <1>15, <1>30, <1>33, IssuesInTerms
<1>35. \A q \in DOMAIN after : after[q].issue \in PostedIssues
  BY <1>1, <1>6, <1>18, <1>20, ReturnsFacts
<1>36. ReturnsInv'
  BY <1>19, <1>20, <1>31, <1>35 DEF ReturnsInv
<1>37. RequestsInv'
  BY <1>5, <1>22 DEF RequestsInv
<1>. QED BY <1>25, <1>28, <1>32, <1>34, <1>36, <1>37, InTerms

-----------------------------------------------------------------------------
(* What calls read *)

LEMMA RequestReads ==
    ASSUME IInv, NEW c \in Clients, NEW r \in DOMAIN requests,
           \/ \E asked \in [Lines -> Quantities] : ReadUpdateRequest(c, r, asked)
           \/ \E to \in {"submitted", "rejected"} : ReadRequestStatus(c, r, to)
           \/ ReadCreateIssue(c, r)
    PROVE  IInv'
<1>1. ASSUME NEW asked \in [Lines -> Quantities], ReadUpdateRequest(c, r, asked)
      PROVE  IInv'
  <2>1. PICK data : data = [ver |-> requests[r].ver, asked |-> asked]
    OBVIOUS
  <2>2. data.asked \in [Lines -> Quantities]
    BY <2>1
  <2>3. CallInv([op |-> "updateRequest", doc |-> r, data |-> data])
    BY <2>2 DEF CallInv, TypedCall
  <2>4. Read(c, "updateRequest", r, data)
    BY <1>1, <2>1 DEF ReadUpdateRequest
  <2>. QED BY <2>3, <2>4, CallRead
<1>2. ASSUME NEW to \in {"submitted", "rejected"}, ReadRequestStatus(c, r, to)
      PROVE  IInv'
  <2>1. CallInv([op |-> "requestStatus", doc |-> r, data |-> to])
    BY DEF CallInv, TypedCall
  <2>2. Read(c, "requestStatus", r, to)
    BY <1>2 DEF ReadRequestStatus
  <2>. QED BY <2>1, <2>2, CallRead
<1>3. ASSUME ReadCreateIssue(c, r)
      PROVE  IInv'
  <2>1. PICK items, lines : items = AllocatedItems(lines) /\ lines = requests[r].lines
    OBVIOUS
  <2>2. /\ requests[r].status \in {"approved", "partially_fulfilled"}
        /\ Read(c, "createIssue", r, items)
    BY <1>3, <2>1 DEF ReadCreateIssue
  <2>3. lines \in [Lines -> Line] /\ r \in Issuable
    BY <2>1, <2>2, RequestsFacts DEF Approved
  <2>4. onHand \in [Rows -> Nat]
    BY DEF IInv, StockInv
  <2>5. items \in Items /\ \A n \in DOMAIN items : items[n].returned = 0
    BY <2>1, <2>3, <2>4, AllocatedItemsType
  <2>6. CallInv([op |-> "createIssue", doc |-> r, data |-> items])
    BY <2>3, <2>5 DEF CallInv, TypedCall
  <2>. QED BY <2>2, <2>6, CallRead
<1>. QED BY <1>1, <1>2, <1>3

LEMMA IssueReads ==
    ASSUME IInv, NEW c \in Clients, NEW i \in DOMAIN issues,
           \/ \E n \in Drawn(issues[i].items), row \in Rows, picked \in Quantities \cup {0} :
                 ReadUpdateIssue(c, i, n, row, picked)
           \/ ReadPickIssue(c, i)
           \/ ReadCancelIssue(c, i)
    PROVE  IInv'
<1>1. ASSUME NEW n \in Drawn(issues[i].items), NEW row \in Rows,
             NEW picked \in Quantities \cup {0}, ReadUpdateIssue(c, i, n, row, picked)
      PROVE  IInv'
  <2>1. PICK data : data = [item |-> n, row |-> row, picked |-> picked]
    OBVIOUS
  <2>2. n \in Lines \X Rows
    <3>1. issues[i].items \in Items
      BY IssuesFacts
    <3>. QED BY <3>1, ItemPlaces DEF Drawn
  <2>3. picked \in Nat
    BY FulfilmentAssumption
  <2>4. data.item \in Lines \X Rows /\ data.row \in Rows /\ data.picked \in Nat
    BY <2>1, <2>2, <2>3
  <2>5. CallInv([op |-> "updateIssue", doc |-> i, data |-> data])
    BY <2>4 DEF CallInv, TypedCall
  <2>6. Read(c, "updateIssue", i, data)
    BY <1>1, <2>1 DEF ReadUpdateIssue
  <2>. QED BY <2>5, <2>6, CallRead
<1>2. ASSUME NEW to \in {"picked", "cancelled"}, Read(c, "issueStatus", i, to)
      PROVE  IInv'
  <2>1. CallInv([op |-> "issueStatus", doc |-> i, data |-> to])
    BY DEF CallInv, TypedCall
  <2>. QED BY <1>2, <2>1, CallRead
<1>. QED BY <1>1, <1>2 DEF ReadPickIssue, ReadCancelIssue

(* Lines of a return name an item of the issue. *)
LEMMA ReturnLinesFit ==
    ASSUME NEW i, NEW items \in Items, items = issues[i].items, NEW lines \in Seq(ReturnLine(i)),
           NEW data, data = [n \in DOMAIN lines |->
                      [item |-> lines[n].item, row |-> items[lines[n].item].row,
                       quantity |-> lines[n].quantity, good |-> lines[n].good]]
    PROVE  data \in Seq(Back)
<1>1. DOMAIN items = Lines \X Rows
  BY ItemPlaces
<1>2. DOMAIN lines = 1..Len(lines) /\ Len(lines) \in Nat
  BY SequenceDomain
<1>3. ASSUME NEW n \in DOMAIN lines
      PROVE  [item |-> lines[n].item, row |-> items[lines[n].item].row,
              quantity |-> lines[n].quantity, good |-> lines[n].good] \in Back
  <2>1. PICK line : line = lines[n]
    OBVIOUS
  <2>2. line \in [item : Drawn(items), quantity : Quantities, good : BOOLEAN]
    <3>1. ReturnLine(i) = [item : Drawn(items), quantity : Quantities, good : BOOLEAN]
      BY DEF ReturnLine
    <3>2. line \in ReturnLine(i)
      BY <2>1
    <3>. QED BY <3>1, <3>2, Zenon
  <2>3. line.item \in Lines \X Rows /\ line.quantity \in Nat /\ line.good \in BOOLEAN
    BY <1>1, <2>2, FulfilmentAssumption DEF Drawn
  <2>4. items[line.item].row \in Rows
    BY <1>1, <2>3 DEF Items, Item
  <2>. QED BY <2>1, <2>3, <2>4, Zenon DEF Back
<1>4. data \in [DOMAIN lines -> Back]
  BY <1>3
<1>. QED BY <1>2, <1>4

LEMMA ReturnRead ==
    ASSUME IInv, NEW c \in Clients, NEW i \in DOMAIN issues,
           NEW lines \in Seq(ReturnLine(i)), ReadCreateReturn(c, i, lines)
    PROVE  IInv'
<1>1. PICK items, data :
        /\ items = issues[i].items
        /\ data = [n \in DOMAIN lines |->
                      [item |-> lines[n].item, row |-> items[lines[n].item].row,
                       quantity |-> lines[n].quantity, good |-> lines[n].good]]
  OBVIOUS
<1>2. issues[i].status = "posted" /\ Read(c, "createReturn", i, data)
  BY <1>1 DEF ReadCreateReturn
<1>3. i \in PostedIssues
  BY <1>2 DEF PostedIssues
<1>4. items \in Items
  BY <1>1, IssuesFacts
<1>5. data \in Seq(Back)
  BY <1>1, <1>4, ReturnLinesFit
<1>6. CallInv([op |-> "createReturn", doc |-> i, data |-> data])
  BY <1>3, <1>5 DEF CallInv, TypedCall
<1>. QED BY <1>2, <1>6, CallRead

-----------------------------------------------------------------------------
(* The invariant is inductive *)

LEMMA Start == Init => IInv
<1> SUFFICES ASSUME Init
             PROVE  IInv
  OBVIOUS
<1>1. /\ onHand = Opening /\ reserved = [b \in Rows |-> 0] /\ scrap = [b \in Rows |-> 0]
      /\ requests = <<>> /\ issues = <<>> /\ returns = <<>>
      /\ client = [c \in Clients |-> Idle]
  BY DEF Init
<1>2. StockInv
  BY <1>1, FulfilmentAssumption DEF StockInv
<1>3. RequestsInv /\ IssuesInv /\ ReturnsInv
  BY <1>1 DEF RequestsInv, IssuesInv, ReturnsInv
<1>4. CallsInv
  BY <1>1 DEF CallsInv, CallInv, TypedCall, Idle
<1>5. ASSUME NEW f, DOMAIN f = {}
      PROVE  SumFunction(f) = 0
  BY <1>5, TotalEmpty
<1>6. HoldsFit(reserved, requests)
  <2>. SUFFICES ASSUME NEW p \in Products
                PROVE  SumFunctionOnSet(reserved, RowsOf(p)) = HeldIn(requests, p)
    BY DEF HoldsFit
  <2>1. HeldIn(requests, p) = 0
    <3> DEFINE f == [r \in DOMAIN requests |-> HeldBy(requests[r].lines, p)]
    <3>1. DOMAIN f = {} /\ HeldIn(requests, p) = SumFunction(f)
      BY <1>1 DEF HeldIn
    <3>. HIDE DEF f
    <3>. QED BY <1>5, <3>1
  <2>2. SumFunctionOnSet(reserved, RowsOf(p)) = 0
    <3>1. IsFiniteSet(RowsOf(p)) /\ RowsOf(p) \in SUBSET Rows
      BY RowsAndLines
    <3>2. \A b \in RowsOf(p) : reserved[b] = 0
      BY <1>1, <3>1
    <3>. QED BY <3>1, <3>2, SumZero
  <2>. QED BY <2>1, <2>2
<1>7. BalancesFit(onHand, scrap, issues, returns)
  <2>. SUFFICES ASSUME NEW b \in Rows
                PROVE  /\ onHand[b] = Opening[b] - PickedIn(issues, b) + GivenBackIn(issues, b)
                                         + ReturnedIn(returns, b, TRUE)
                       /\ scrap[b] = ReturnedIn(returns, b, FALSE)
    BY DEF BalancesFit
  <2>1. PickedIn(issues, b) = 0 /\ GivenBackIn(issues, b) = 0
    <3> DEFINE f == [i \in PostedIn(issues) |-> OnRow(issues[i].items, b)]
               g == [i \in TakenIn(issues) |-> OnRow(issues[i].items, b)]
    <3>1. /\ DOMAIN f = {} /\ PickedIn(issues, b) = SumFunction(f)
          /\ DOMAIN g = {} /\ GivenBackIn(issues, b) = SumFunction(g)
      BY <1>1 DEF PickedIn, GivenBackIn, PostedIn, TakenIn
    <3>. HIDE DEF f, g
    <3>. QED BY <1>5, <3>1
  <2>2. \A good : ReturnedIn(returns, b, good) = 0
    <3>. TAKE good
    <3> DEFINE f == [t \in PostedReturnsIn(returns) |-> BackOnRow(returns[t].lines, b, good)]
    <3>1. DOMAIN f = {} /\ ReturnedIn(returns, b, good) = SumFunction(f)
      BY <1>1 DEF ReturnedIn, PostedReturnsIn
    <3>. HIDE DEF f
    <3>. QED BY <1>5, <3>1
  <2>3. PICK back, lost : back = ReturnedIn(returns, b, TRUE) /\ lost = ReturnedIn(returns, b, FALSE)
    OBVIOUS
  <2>4. back = 0 /\ lost = 0
    BY <2>2, <2>3, Zenon
  <2>5. Opening[b] \in Int /\ onHand[b] = Opening[b] /\ scrap[b] = 0
    BY <1>1, FulfilmentAssumption
  <2>6. onHand[b] = Opening[b] - PickedIn(issues, b) + GivenBackIn(issues, b) + back
    BY ONLY <2>1, <2>4, <2>5
  <2>. QED BY <2>3, <2>4, <2>5, <2>6
<1>8. RequestsFit(requests, issues)
  BY <1>1 DEF RequestsFit
<1>. QED BY <1>2, <1>3, <1>4, <1>6, <1>7, <1>8, InTerms DEF FitsSums

LEMMA Step ==
    ASSUME IInv, [Next]_vars, [\A c \in Clients : Saves(c) => StillAllowed(c)]_vars
    PROVE  IInv'
<1>1. ASSUME Next, \A c \in Clients : Saves(c) => StillAllowed(c)
      PROVE  IInv'
  <2>1. ASSUME NEW c \in Clients,
               \/ SaveUpdateRequest(c) \/ SaveRequestStatus(c)
               \/ SaveUpdateIssue(c) \/ SaveIssueStatus(c)
        PROVE  StillAllowed(c)
    <3>1. client[c].op # "none" /\ client' = [client EXCEPT ![c] = Idle]
      BY <2>1, Zenon DEF SaveUpdateRequest, SaveRequestStatus, SaveUpdateIssue,
                         SaveIssueStatus, Saving
    <3>2. DOMAIN client = Clients
      BY DEF IInv, CallsInv
    <3>3. Saves(c)
      BY <3>1, <3>2 DEF Saves, Idle
    <3>. QED BY <1>1, <3>3
  <2>2. ASSUME NEW c \in Clients, RequestStep(c)
        PROVE  IInv'
    <3>1. CASE \E asked \in [Lines -> Quantities] : CreateRequest(c, asked)
      BY <3>1, RequestCreated
    <3>2. ASSUME NEW r \in DOMAIN requests,
                 \/ \E asked \in [Lines -> Quantities] : ReadUpdateRequest(c, r, asked)
                 \/ \E to \in {"submitted", "rejected"} : ReadRequestStatus(c, r, to)
          PROVE  IInv'
      BY <3>2, RequestReads
    <3>3. ASSUME NEW r \in DOMAIN requests, NEW approved \in [Lines -> Quantities \cup {0}],
                 ApproveRequest(c, r, approved)
          PROVE  IInv'
      BY <3>3, RequestApproved
    <3>4. ASSUME NEW r \in DOMAIN requests, CancelRequest(c, r)
          PROVE  IInv'
      BY <3>4, RequestCancelled
    <3>5. CASE SaveUpdateRequest(c)
      BY <2>1, <3>5, RequestEdited
    <3>6. CASE SaveRequestStatus(c)
      BY <2>1, <3>6, RequestMoved
    <3>. QED BY <2>2, <3>1, <3>2, <3>3, <3>4, <3>5, <3>6, Zenon DEF RequestStep
  <2>3. ASSUME NEW c \in Clients, IssueStep(c)
        PROVE  IInv'
    <3>1. ASSUME NEW r \in DOMAIN requests, ReadCreateIssue(c, r)
          PROVE  IInv'
      BY <3>1, RequestReads
    <3>2. ASSUME NEW i \in DOMAIN issues,
                 \/ \E n \in Drawn(issues[i].items), row \in Rows, picked \in Quantities \cup {0} :
                       ReadUpdateIssue(c, i, n, row, picked)
                 \/ ReadPickIssue(c, i)
                 \/ ReadCancelIssue(c, i)
          PROVE  IInv'
      BY <3>2, IssueReads
    <3>3. ASSUME NEW i \in DOMAIN issues, PostIssue(c, i)
          PROVE  IInv'
      BY <3>3, IssuePosted
    <3>4. ASSUME NEW i \in DOMAIN issues, ReverseIssue(c, i)
          PROVE  IInv'
      BY <3>4, IssueReversed
    <3>5. CASE SaveCreateIssue(c)
      BY <3>5, IssueCreated
    <3>6. CASE SaveUpdateIssue(c)
      BY <2>1, <3>6, IssueEdited
    <3>7. CASE SaveIssueStatus(c)
      BY <2>1, <3>7, IssueMoved
    <3>. QED BY <2>3, <3>1, <3>2, <3>3, <3>4, <3>5, <3>6, <3>7, Zenon DEF IssueStep
  <2>4. ASSUME NEW c \in Clients, ReturnStep(c)
        PROVE  IInv'
    <3>1. ASSUME NEW i \in DOMAIN issues, NEW lines \in Seq(ReturnLine(i)),
                 ReadCreateReturn(c, i, lines)
          PROVE  IInv'
      BY <3>1, ReturnRead
    <3>2. ASSUME NEW i \in DOMAIN issues, NEW line1 \in ReturnLine(i),
                 \/ ReadCreateReturn(c, i, <<line1>>)
                 \/ \E line2 \in ReturnLine(i) : ReadCreateReturn(c, i, <<line1, line2>>)
          PROVE  IInv'
      <4>1. <<line1>> \in Seq(ReturnLine(i))
        OBVIOUS
      <4>2. \A line2 \in ReturnLine(i) : <<line1, line2>> \in Seq(ReturnLine(i))
        OBVIOUS
      <4>. QED BY <3>1, <3>2, <4>1, <4>2
    <3>3. CASE SaveCreateReturn(c)
      BY <3>3, ReturnCreated
    <3>4. ASSUME NEW t \in DOMAIN returns, PostReturn(c, t)
          PROVE  IInv'
      BY <3>4, ReturnBooked
    <3>. QED BY <2>4, <3>2, <3>3, <3>4, Zenon DEF ReturnStep
  <2>. QED BY <1>1, <2>2, <2>3, <2>4, Zenon DEF Next
<1>2. CASE UNCHANGED vars
  <2>1. /\ onHand' = onHand /\ reserved' = reserved /\ scrap' = scrap
        /\ requests' = requests /\ issues' = issues /\ returns' = returns /\ client' = client
    BY <1>2 DEF vars
  <2>2. /\ StockInv /\ RequestsInv /\ IssuesInv /\ ReturnsInv /\ CallsInv /\ FitsSums
    BY InTerms
  <2>3. StockInv' /\ RequestsInv' /\ FitsSums'
    BY <2>1, <2>2 DEF StockInv, RequestsInv, FitsSums
  <2>4. IssuesInv' /\ ReturnsInv'
    BY <2>1, <2>2 DEF IssuesInv, ReturnsInv, Issuable, PostedIssues
  <2>5. CallsInv'
    BY <2>1, <2>2 DEF CallsInv, CallInv, TypedCall, Issuable, PostedIssues
  <2>. QED BY <2>3, <2>4, <2>5, InTerms
<1>. QED BY <1>1, <1>2

-----------------------------------------------------------------------------
(* Theorems: calls overlap, but no save is stale *)

(* The inductive invariant holds in every reachable state.                 *)
THEOREM FulfilmentInvariant == Spec /\ NoStaleSave => []IInv
<1>1. Init => IInv
  BY Start
<1>2. IInv /\ [Next]_vars /\ [\A c \in Clients : Saves(c) => StillAllowed(c)]_vars => IInv'
  BY Step
<1>. QED BY <1>1, <1>2, PTL DEF Spec, NoStaleSave

(* What is reserved on the rows of a product is what request lines hold of *)
(* it: approving, issuing and cancelling net out, whatever rows they find  *)
(* (LedgerService.reserveStock, releaseReservedStock).                     *)
THEOREM ReservationsAreHeld == Spec /\ NoStaleSave => []ReservationsNet
<1>1. IInv => ReservationsNet
  BY DEF IInv
<1>. QED BY <1>1, FulfilmentInvariant, PTL

(* Every balance is its opening quantity and what posted issues, reversals *)
(* and returns say (postStockIssue, reverseStockIssue, postStockReturn).   *)
THEOREM BalancesMatchDocuments == Spec /\ NoStaleSave => []StockMatchesDocuments
<1>1. IInv => StockMatchesDocuments
  BY DEF IInv
<1>. QED BY <1>1, FulfilmentInvariant, PTL

(* What a request line counts as fulfilled was issued of its product and   *)
(* not reversed (applyIssuedQuantities).                                   *)
THEOREM RequestsMatchIssues == Spec /\ NoStaleSave => []RequestMatchesIssues
<1>1. IInv => RequestMatchesIssues
  BY DEF IInv
<1>. QED BY <1>1, FulfilmentInvariant, PTL

(* No more comes back of an item than was picked, however many returns of  *)
(* it were drafted (applyReturnedQuantities).                              *)
THEOREM NothingReturnedTwice == Spec /\ NoStaleSave => []ReturnedAtMostPicked
<1>1. IInv => ReturnedAtMostPicked
  BY DEF IInv, IssuesInv, ReturnedAtMostPicked
<1>. QED BY <1>1, FulfilmentInvariant, PTL

-----------------------------------------------------------------------------
(* What a step may do to an issue *)

(* Issue i of the old state and of the new one. *)
Onward(i) ==
    /\ issues'[i].status # issues[i].status => IssueMay(issues[i].status, issues'[i].status)
    /\ issues[i].status = "posted" =>
          \A n \in DOMAIN issues[i].items :
             /\ issues'[i].items[n].row = issues[i].items[n].row
             /\ issues'[i].items[n].picked = issues[i].items[n].picked

LEMMA IssuesGoOn ==
    ASSUME IInv, [Next]_vars, [\A c \in Clients : Saves(c) => StillAllowed(c)]_vars
    PROVE  \A i \in DOMAIN issues : Onward(i)
<1>1. PICK is, new : is = issues /\ new = issues'
  OBVIOUS
<1>2. is \in Seq(Issue) /\ Issues(is)
  BY <1>1, IssuesFacts
<1>3. ASSUME NEW y, new = Append(is, y)
      PROVE  \A i \in DOMAIN issues : Onward(i)
  <2>1. \A i \in DOMAIN is : new[i] = is[i]
    BY <1>2, <1>3
  <2>. QED BY <1>1, <2>1 DEF Onward
<1>4. ASSUME NEW d \in DOMAIN is, NEW y, new = [is EXCEPT ![d] = y],
             y.status = is[d].status \/ IssueMay(is[d].status, y.status),
             is[d].status = "posted" =>
                \A n \in DOMAIN is[d].items : /\ y.items[n].row = is[d].items[n].row
                                              /\ y.items[n].picked = is[d].items[n].picked
      PROVE  \A i \in DOMAIN issues : Onward(i)
  <2>1. new[d] = y /\ \A i \in DOMAIN is \ {d} : new[i] = is[i]
    BY <1>4
  <2>. QED BY <1>1, <1>4, <2>1 DEF Onward
<1>5. CASE new = is
  BY <1>1, <1>5 DEF Onward
<1>6. ASSUME NEW c \in Clients, RequestStep(c)
      PROVE  new = is
  BY <1>1, <1>6, Zenon DEF RequestStep, CreateRequest, ReadUpdateRequest, ReadRequestStatus, Read,
                           ApproveRequest, CancelRequest, SaveUpdateRequest, SaveRequestStatus,
                           documents
<1>7. ASSUME NEW c \in Clients, client[c].op \in {"updateIssue", "issueStatus"},
             client' = [client EXCEPT ![c] = Idle]
      PROVE  /\ client[c].doc \in DOMAIN is
             /\ client[c].op = "updateIssue" => is[client[c].doc].status = "draft"
             /\ client[c].op = "issueStatus" => IssueMay(is[client[c].doc].status, client[c].data)
  <2>1. CallsInv
    BY DEF IInv
  <2>2. client[c].doc \in DOMAIN is
    BY <1>1, <1>7, <2>1 DEF CallsInv, CallInv, TypedCall
  <2>3. client'[c].op = "none" /\ client[c].op # "none"
    BY <1>7, <2>1 DEF CallsInv, Idle
  <2>4. vars' # vars
    BY <2>3, Zenon DEF vars
  <2>5. StillAllowed(c)
    BY <2>3, <2>4 DEF Saves
  <2>. QED BY <1>1, <1>7, <2>2, <2>5 DEF StillAllowed
<1>8. ASSUME NEW c \in Clients, SaveUpdateIssue(c)
      PROVE  \A i \in DOMAIN issues : Onward(i)
  <2>1. PICK d, n, item, y :
          /\ d = client[c].doc /\ n = client[c].data.item
          /\ item = [is[d].items[n] EXCEPT !.row = client[c].data.row,
                                           !.picked = client[c].data.picked]
          /\ y = [is[d] EXCEPT !.items = [is[d].items EXCEPT ![n] = item]]
    BY Zenon
  <2>2. /\ client[c].op = "updateIssue" /\ client' = [client EXCEPT ![c] = Idle]
        /\ new = [is EXCEPT ![client[c].doc].items[client[c].data.item] =
                     [@ EXCEPT !.row = client[c].data.row, !.picked = client[c].data.picked]]
    BY <1>1, <1>8, Zenon DEF SaveUpdateIssue, Saving
  <2>3. d \in DOMAIN is /\ is[d].status = "draft"
    BY <1>7, <2>1, <2>2
  <2>4. new = [is EXCEPT ![d].items[n] = item]
    BY ONLY <2>1, <2>2
  <2>5. new = [is EXCEPT ![d] = y]
    BY ONLY <2>1, <2>3, <2>4
  <2>6. is[d] \in Issue
    BY <1>2, <2>3
  <2>7. y.status = is[d].status
    BY <2>1, <2>6 DEF Issue
  <2>. QED BY <1>4, <2>3, <2>5, <2>7
<1>9. ASSUME NEW c \in Clients, SaveIssueStatus(c)
      PROVE  \A i \in DOMAIN issues : Onward(i)
  <2>1. PICK d, to, y : /\ d = client[c].doc /\ to = client[c].data
                        /\ y = [is[d] EXCEPT !.status = to]
    OBVIOUS
  <2>2. /\ client[c].op = "issueStatus" /\ client' = [client EXCEPT ![c] = Idle]
        /\ new = [is EXCEPT ![d].status = to]
    BY <1>1, <1>9, <2>1 DEF SaveIssueStatus, Saving
  <2>3. d \in DOMAIN is /\ IssueMay(is[d].status, to)
    BY <1>7, <2>1, <2>2
  <2>4. new = [is EXCEPT ![d] = y]
    BY ONLY <2>1, <2>2, <2>3
  <2>5. is[d] \in Issue
    BY <1>2, <2>3
  <2>6. y.status = to /\ y.items = is[d].items
    BY <2>1, <2>5 DEF Issue
  <2>. QED BY <1>4, <2>3, <2>4, <2>6
<1>10. ASSUME NEW i \in DOMAIN issues, NEW c \in Clients, PostIssue(c, i)
       PROVE  \A j \in DOMAIN issues : Onward(j)
  <2>1. PICK y : y = [is[i] EXCEPT !.status = "posted"]
    OBVIOUS
  <2>2. IssueMay(is[i].status, "posted") /\ new = [is EXCEPT ![i].status = "posted"]
    BY <1>1, <1>10, Zenon DEF PostIssue
  <2>3. i \in DOMAIN is /\ is[i] \in Issue
    BY <1>1, <1>2
  <2>4. new = [is EXCEPT ![i] = y]
    BY ONLY <2>1, <2>2, <2>3
  <2>5. y.status = "posted" /\ y.items = is[i].items
    BY <2>1, <2>3 DEF Issue
  <2>. QED BY <1>4, <2>2, <2>3, <2>4, <2>5
<1>11. ASSUME NEW i \in DOMAIN issues, NEW c \in Clients, ReverseIssue(c, i)
       PROVE  \A j \in DOMAIN issues : Onward(j)
  <2>1. PICK y, stamped, reversal :
          /\ y = [is[i] EXCEPT !.reversed = TRUE]
          /\ stamped = [is EXCEPT ![i] = y]
          /\ reversal = [request |-> is[i].request, status |-> "posted",
                         items |-> is[i].items, reversalOf |-> i, reversed |-> FALSE]
    BY Zenon
  <2>2. new = Append([is EXCEPT ![i].reversed = TRUE], reversal)
    BY <1>1, <1>11, <2>1, Zenon DEF ReverseIssue
  <2>3. i \in DOMAIN is /\ is[i] \in Issue
    BY <1>1, <1>2
  <2>4. new = Append(stamped, reversal)
    BY ONLY <2>1, <2>2, <2>3
  <2>5. y \in Issue /\ y.status = is[i].status /\ y.items = is[i].items
    BY <2>1, <2>3, Zenon DEF Issue
  <2>6. stamped \in Seq(Issue) /\ DOMAIN stamped = DOMAIN is
        /\ stamped[i] = y /\ \A j \in DOMAIN is \ {i} : stamped[j] = is[j]
    BY <1>2, <2>1, <2>3, <2>5
  <2>7. \A j \in DOMAIN is : new[j] = stamped[j]
    BY <2>4, <2>6
  <2>. QED BY <1>1, <2>3, <2>5, <2>6, <2>7 DEF Onward
<1>12. ASSUME NEW c \in Clients, NEW t \in DOMAIN returns, PostReturn(c, t)
       PROVE  \A j \in DOMAIN issues : Onward(j)
  <2>1. PICK i, lines, items, y :
          /\ i = returns[t].issue /\ lines = returns[t].lines
          /\ items = ReturnedItems(is[i].items, lines)
          /\ y = [is[i] EXCEPT !.items = items]
    OBVIOUS
  <2>2. /\ ReturnFits(is[i].items, lines)
        /\ new = [is EXCEPT ![i].items = ReturnedItems(@, lines)]
    BY <1>1, <1>12, <2>1 DEF PostReturn
  <2>3. /\ i \in DOMAIN is /\ is[i] \in Issue /\ is[i].items \in Items /\ lines \in Seq(Back)
        /\ \A n \in DOMAIN is[i].items : is[i].items[n].returned <= is[i].items[n].picked
    <3>1. returns[t] \in Return /\ i \in PostedIssues
      BY <2>1 DEF IInv, ReturnsInv
    <3>2. i \in DOMAIN is
      BY <1>1, <3>1 DEF PostedIssues
    <3>. QED BY <1>1, <1>2, <2>1, <3>1, <3>2, IssuesFacts DEF Return, Issues
  <2>4. new = [is EXCEPT ![i] = y]
    BY ONLY <2>1, <2>2, <2>3
  <2>5. \A n \in DOMAIN is[i].items : /\ items[n].row = is[i].items[n].row
                                      /\ items[n].picked = is[i].items[n].picked
    BY <2>1, <2>2, <2>3, ReturnedItemsFit
  <2>6. y.status = is[i].status /\ y.items = items
    BY <2>1, <2>3 DEF Issue
  <2>. QED BY <1>4, <2>3, <2>4, <2>5, <2>6
<1>13. ASSUME NEW c \in Clients, SaveCreateIssue(c)
       PROVE  \A i \in DOMAIN issues : Onward(i)
  BY <1>1, <1>3, <1>13, Zenon DEF SaveCreateIssue
<1>14. ASSUME NEW c \in Clients, IssueStep(c)
       PROVE  \A i \in DOMAIN issues : Onward(i)
  <2>1. ASSUME \/ \E r : ReadCreateIssue(c, r)
               \/ \E i : \/ \E n, row, picked : ReadUpdateIssue(c, i, n, row, picked)
                         \/ ReadPickIssue(c, i) \/ ReadCancelIssue(c, i)
        PROVE  new = is
    BY <1>1, <2>1, Zenon DEF ReadCreateIssue, ReadUpdateIssue, ReadPickIssue, ReadCancelIssue,
                             Read, documents
  <2>. QED BY <1>5, <1>8, <1>9, <1>10, <1>11, <1>13, <1>14, <2>1, Zenon DEF IssueStep
<1>15. ASSUME NEW c \in Clients, ReturnStep(c)
       PROVE  \A i \in DOMAIN issues : Onward(i)
  <2>1. ASSUME (\E i, lines : ReadCreateReturn(c, i, lines)) \/ SaveCreateReturn(c)
        PROVE  new = is
    BY <1>1, <2>1, Zenon DEF ReadCreateReturn, SaveCreateReturn, Read, documents
  <2>. QED BY <1>5, <1>12, <1>15, <2>1, Zenon DEF ReturnStep
<1>16. CASE UNCHANGED vars
  BY <1>1, <1>5, <1>16 DEF vars
<1>. QED BY <1>5, <1>6, <1>14, <1>15, <1>16, Zenon DEF Next

(* The same of behaviours without a stale save, for IssuesMoveOn below.    *)
LEMMA FreshIssuesMoveOn == Spec /\ NoStaleSave => IssueTransitions /\ PostedIssueUnchanged
<1>1. /\ IInv /\ [Next]_vars /\ [\A c \in Clients : Saves(c) => StillAllowed(c)]_vars
         => \A i \in DOMAIN issues : Onward(i)
  BY IssuesGoOn
<1>2. (\A i \in DOMAIN issues : Onward(i))
        => /\ [\A i \in DOMAIN issues :
                  issues'[i].status # issues[i].status
                      => IssueMay(issues[i].status, issues'[i].status)]_vars
           /\ [\A i \in DOMAIN issues : issues[i].status = "posted" =>
                  \A n \in DOMAIN issues[i].items :
                     /\ issues'[i].items[n].row = issues[i].items[n].row
                     /\ issues'[i].items[n].picked = issues[i].items[n].picked]_vars
  BY DEF Onward
<1>. QED
  BY <1>1, <1>2, FulfilmentInvariant, PTL DEF Spec, NoStaleSave, IssueTransitions,
                                              PostedIssueUnchanged

-----------------------------------------------------------------------------
(* Calls one at a time *)

LEMMA StartAlone == Init => OneAtATimeInv
<1> SUFFICES ASSUME Init
             PROVE  OneAtATimeInv
  OBVIOUS
<1>1. \A c \in Clients : client[c].op = "none"
  BY DEF Init, Idle
<1>. QED BY <1>1, Start DEF OneAtATimeInv, StillAllowed

(* A call that has just been read has just checked its document, and one   *)
(* that is over has nothing to save.                                       *)
LEMMA ReadIsAllowed ==
    ASSUME CallsInv, NEW c \in Clients, NEW op, NEW doc, NEW data, Read(c, op, doc, data),
           op = "updateRequest" => requests[doc].status = "draft",
           op = "requestStatus" => RequestMay(requests[doc].status, data),
           op = "updateIssue" => issues[doc].status = "draft",
           op = "issueStatus" => IssueMay(issues[doc].status, data)
    PROVE  StillAllowed(c)'
<1>1. PICK call : call = [op |-> op, doc |-> doc, data |-> data]
  OBVIOUS
<1>2. /\ client' = [client EXCEPT ![c] = call] /\ requests' = requests /\ issues' = issues
      /\ call.op = op /\ call.doc = doc /\ call.data = data
  BY <1>1 DEF Read, documents
<1>3. client'[c] = call
  BY <1>2 DEF CallsInv
<1>. QED BY <1>2, <1>3 DEF StillAllowed

LEMMA StepAlone ==
    ASSUME OneAtATime, OneAtATimeInv, [Next]_vars
    PROVE  OneAtATimeInv'
<1>1. DOMAIN client = Clients /\ CallsInv
  BY DEF OneAtATimeInv, IInv, CallsInv
<1>2. IInv'
  <2>1. [\A c \in Clients : Saves(c) => StillAllowed(c)]_vars
    BY DEF OneAtATimeInv
  <2>. QED BY <2>1, Step DEF OneAtATimeInv
<1>3. ASSUME NEW c \in Clients, NEW d \in Clients,
             RequestStep(d) \/ IssueStep(d) \/ ReturnStep(d)
      PROVE  StillAllowed(c)'
  <2>1. c = d
    BY DEF OneAtATime
  <2>2. CASE client'[c].op = "none"
    BY <2>2 DEF StillAllowed
  <2>3. ASSUME client' = client /\ client[c].op = "none"
        PROVE  client'[c].op = "none"
    BY <2>3
  <2>4. ASSUME client' = [client EXCEPT ![c] = Idle]
        PROVE  client'[c].op = "none"
    BY <1>1, <2>4 DEF Idle
  <2>5. CASE RequestStep(c)
    <3>1. ASSUME NEW r, NEW asked, ReadUpdateRequest(c, r, asked)
          PROVE  StillAllowed(c)'
      <4>1. PICK data : data = [ver |-> requests[r].ver, asked |-> asked]
        OBVIOUS
      <4>2. requests[r].status = "draft" /\ Read(c, "updateRequest", r, data)
        BY <3>1, <4>1 DEF ReadUpdateRequest
      <4>. QED BY <1>1, <4>2, ReadIsAllowed
    <3>2. ASSUME NEW r, NEW to, ReadRequestStatus(c, r, to)
          PROVE  StillAllowed(c)'
      BY <1>1, <3>2, ReadIsAllowed DEF ReadRequestStatus
    <3>3. ASSUME \/ \E asked : CreateRequest(c, asked)
                 \/ \E r, approved : ApproveRequest(c, r, approved)
                 \/ \E r : CancelRequest(c, r)
          PROVE  client' = client /\ client[c].op = "none"
      BY <3>3, Zenon DEF CreateRequest, ApproveRequest, CancelRequest, InOneTransaction
    <3>4. ASSUME SaveUpdateRequest(c) \/ SaveRequestStatus(c)
          PROVE  client' = [client EXCEPT ![c] = Idle]
      BY <3>4, Zenon DEF SaveUpdateRequest, SaveRequestStatus, Saving
    <3>. QED BY <2>2, <2>3, <2>4, <2>5, <3>1, <3>2, <3>3, <3>4, Zenon DEF RequestStep
  <2>6. CASE IssueStep(c)
    <3>1. ASSUME NEW r, ReadCreateIssue(c, r)
          PROVE  StillAllowed(c)'
      <4>1. PICK items : items = AllocatedItems(requests[r].lines)
        OBVIOUS
      <4>2. Read(c, "createIssue", r, items)
        BY <3>1, <4>1 DEF ReadCreateIssue
      <4>. QED BY <1>1, <4>2, ReadIsAllowed
    <3>2. ASSUME NEW i, NEW n, NEW row, NEW picked, ReadUpdateIssue(c, i, n, row, picked)
          PROVE  StillAllowed(c)'
      <4>1. PICK data : data = [item |-> n, row |-> row, picked |-> picked]
        OBVIOUS
      <4>2. issues[i].status = "draft" /\ Read(c, "updateIssue", i, data)
        BY <3>2, <4>1 DEF ReadUpdateIssue
      <4>. QED BY <1>1, <4>2, ReadIsAllowed
    <3>3. ASSUME NEW i, ReadPickIssue(c, i) \/ ReadCancelIssue(c, i)
          PROVE  StillAllowed(c)'
      BY <1>1, <3>3, ReadIsAllowed DEF ReadPickIssue, ReadCancelIssue
    <3>4. ASSUME NEW i, PostIssue(c, i) \/ ReverseIssue(c, i)
          PROVE  client' = client /\ client[c].op = "none"
      BY <3>4, Zenon DEF PostIssue, ReverseIssue, InOneTransaction
    <3>5. ASSUME SaveCreateIssue(c) \/ SaveUpdateIssue(c) \/ SaveIssueStatus(c)
          PROVE  client' = [client EXCEPT ![c] = Idle]
      BY <3>5, Zenon DEF SaveCreateIssue, SaveUpdateIssue, SaveIssueStatus, Saving
    <3>. QED BY <2>2, <2>3, <2>4, <2>6, <3>1, <3>2, <3>3, <3>4, <3>5, Zenon DEF IssueStep
  <2>7. CASE ReturnStep(c)
    <3>1. ASSUME NEW i, NEW lines, ReadCreateReturn(c, i, lines)
          PROVE  StillAllowed(c)'
      <4>1. \E data : Read(c, "createReturn", i, data)
        BY <3>1, Zenon DEF ReadCreateReturn
      <4>. QED BY <1>1, <4>1, ReadIsAllowed
    <3>2. ASSUME NEW t, PostReturn(c, t)
          PROVE  client' = client /\ client[c].op = "none"
      BY <3>2, Zenon DEF PostReturn, InOneTransaction
    <3>3. ASSUME SaveCreateReturn(c)
          PROVE  client' = [client EXCEPT ![c] = Idle]
      BY <3>3 DEF SaveCreateReturn, Saving
    <3>. QED BY <2>2, <2>3, <2>4, <2>7, <3>1, <3>2, <3>3, Zenon DEF ReturnStep
  <2>. QED BY <1>3, <2>1, <2>5, <2>6, <2>7
<1>4. ASSUME NEW c \in Clients, UNCHANGED vars
      PROVE  StillAllowed(c)'
  <2>1. requests' = requests /\ issues' = issues /\ client' = client
    BY <1>4 DEF vars
  <2>. QED BY <2>1 DEF OneAtATimeInv, StillAllowed
<1>. QED BY <1>2, <1>3, <1>4, Zenon DEF OneAtATimeInv, Next

(* When calls come one at a time no save is stale: the theorems above hold *)
(* of every behaviour.                                                     *)
THEOREM NoneIsStaleAlone == ASSUME OneAtATime PROVE Spec => NoStaleSave
<1>1. Init => OneAtATimeInv
  BY StartAlone
<1>2. OneAtATimeInv /\ [Next]_vars => OneAtATimeInv'
  BY StepAlone
<1>3. OneAtATimeInv => [\A c \in Clients : Saves(c) => StillAllowed(c)]_vars
  BY DEF OneAtATimeInv
<1>. QED BY <1>1, <1>2, <1>3, PTL DEF Spec, NoStaleSave

(* When calls come one at a time, an issue's status moves along            *)
(* ALLOWED_TRANSITIONS, and what a posted issue took and from where never  *)
(* changes, by whatever posting, reversal, return, pick or cancellation.   *)
(* (Of two calls at once neither is true: MCFulfilmentStale.)              *)
THEOREM IssuesMoveOn ==
  ASSUME OneAtATime
  PROVE  Spec => IssueTransitions /\ PostedIssueUnchanged
BY FreshIssuesMoveOn, NoneIsStaleAlone, PTL
-----------------------------------------------------------------------------
(* However calls cross *)

(* Issues against the requests in R, each reversal after its original. *)
IssueList(is, R) ==
    /\ is \in Seq(Issue)
    /\ \A i \in DOMAIN is : is[i].request \in R /\ is[i].reversalOf \in 0..(i - 1)

(* What the posted ones of the returns ts bring back against item n of issue i. *)
AgainstIn(ts, i) == {t \in PostedReturnsIn(ts) : ts[t].issue = i}
BroughtBack(ts, i, n) == SumFunction([t \in AgainstIn(ts, i) |-> AgainstItem(ts[t].lines, n)])

Counts(is, ts) ==
    \A i \in DOMAIN is : \A n \in DOMAIN is[i].items :
        is[i].reversalOf = 0 => is[i].items[n].returned = BroughtBack(ts, i, n)

LEMMA CrossedParts ==
    /\ IssuesTyped <=> IssueList(issues, DOMAIN requests)
    /\ ReturnsCounted <=> Counts(issues, returns)
BY DEF IssuesTyped, IssueList, ReturnsCounted, Counts, BroughtBack, AgainstIn, PostedReturns,
       PostedReturnsIn

(* An issue is replaced by another version of it, with the same returned. *)
LEMMA VersionReplaced ==
    ASSUME NEW R, NEW is, IssueList(is, R), NEW ts, Counts(is, ts), NEW i \in DOMAIN is,
           NEW y \in Issue, y.request = is[i].request, y.reversalOf = is[i].reversalOf,
           \A n \in Lines \X Rows : y.items[n].returned = is[i].items[n].returned,
           NEW new, new = [is EXCEPT ![i] = y]
    PROVE  IssueList(new, R) /\ Counts(new, ts) /\ DOMAIN new = DOMAIN is
<1>1. is \in Seq(Issue)
  BY DEF IssueList
<1>2. /\ new \in Seq(Issue) /\ DOMAIN new = DOMAIN is
      /\ new[i] = y /\ \A j \in DOMAIN is \ {i} : new[j] = is[j]
  BY <1>1
<1>3. IssueList(new, R)
  BY <1>2 DEF IssueList
<1>4. DOMAIN y.items = Lines \X Rows /\ DOMAIN is[i].items = Lines \X Rows
  <2>1. is[i] \in Issue
    BY <1>1
  <2>2. y.items \in Items /\ is[i].items \in Items
    BY <2>1 DEF Issue
  <2>. QED BY <2>2, ItemPlaces
<1>5. Counts(new, ts)
  BY <1>2, <1>4 DEF Counts
<1>. QED BY <1>2, <1>3, <1>5

(* An issue is added: a reversal, or one of which nothing was returned. *)
LEMMA VersionAdded ==
    ASSUME NEW R, NEW is, IssueList(is, R), NEW ts, Counts(is, ts),
           \A t \in DOMAIN ts : ts[t].issue \in DOMAIN is,
           NEW y \in Issue, y.request \in R, y.reversalOf \in DOMAIN is \cup {0},
           y.reversalOf = 0 => \A n \in DOMAIN y.items : y.items[n].returned = 0,
           NEW new, new = Append(is, y)
    PROVE  IssueList(new, R) /\ Counts(new, ts) /\ DOMAIN is \subseteq DOMAIN new
<1>1. is \in Seq(Issue)
  BY DEF IssueList
<1>2. PICK k : k = Len(is) + 1
  OBVIOUS
<1>3. /\ new \in Seq(Issue) /\ DOMAIN new = DOMAIN is \cup {k} /\ DOMAIN is = 1..(k - 1)
      /\ k \in Nat \ {0} /\ new[k] = y /\ \A j \in DOMAIN is : new[j] = is[j]
  BY <1>1, <1>2
<1>4. IssueList(new, R)
  <2>1. y.reversalOf \in 0..(k - 1)
    BY <1>3
  <2>. QED BY <1>3, <2>1 DEF IssueList
<1>5. \A n : BroughtBack(ts, k, n) = 0
  <2>. TAKE n
  <2>1. AgainstIn(ts, k) = {}
    BY <1>3 DEF AgainstIn, PostedReturnsIn
  <2> DEFINE f == [t \in AgainstIn(ts, k) |-> AgainstItem(ts[t].lines, n)]
  <2>2. DOMAIN f = {} /\ BroughtBack(ts, k, n) = SumFunction(f)
    BY <2>1 DEF BroughtBack
  <2>. HIDE DEF f
  <2>. QED BY <2>2, TotalEmpty
<1>6. Counts(new, ts)
  BY <1>3, <1>5 DEF Counts
<1>. QED BY <1>3, <1>4, <1>6

(* A return that is drafted is not counted yet. *)
LEMMA DraftNotCounted ==
    ASSUME NEW is, NEW ts \in Seq(Return), Counts(is, ts), NEW y \in Return,
           y.status = "draft", NEW new, new = Append(ts, y)
    PROVE  Counts(is, new)
<1>1. DOMAIN ts \subseteq DOMAIN new /\ \A t \in DOMAIN ts : new[t] = ts[t]
  OBVIOUS
<1>2. \A t \in DOMAIN new \ DOMAIN ts : new[t] = y
  OBVIOUS
<1>3. \A i : AgainstIn(new, i) = AgainstIn(ts, i)
  BY <1>1, <1>2 DEF AgainstIn, PostedReturnsIn
<1>4. ASSUME NEW i, NEW n
      PROVE  BroughtBack(new, i, n) = BroughtBack(ts, i, n)
  <2>1. \A t \in AgainstIn(ts, i) : new[t] = ts[t]
    BY <1>1 DEF AgainstIn, PostedReturnsIn
  <2>2. [t \in AgainstIn(new, i) |-> AgainstItem(new[t].lines, n)]
          = [t \in AgainstIn(ts, i) |-> AgainstItem(ts[t].lines, n)]
    BY <1>3, <2>1
  <2>. QED BY <2>2 DEF BroughtBack
<1>. QED BY <1>4 DEF Counts

(* A return that is posted is counted, against the items of its issue. *)
LEMMA PostedIsCounted ==
    ASSUME NEW ts \in Seq(Return), NEW s \in DOMAIN ts, ts[s].status # "posted",
           NEW new, DOMAIN new = DOMAIN ts, new[s].status = "posted",
           new[s].issue = ts[s].issue, new[s].lines = ts[s].lines,
           \A t \in DOMAIN ts \ {s} : new[t] = ts[t]
    PROVE  \A i, n : /\ BroughtBack(ts, i, n) \in Nat
                     /\ BroughtBack(new, i, n) = BroughtBack(ts, i, n)
                           + IF i = ts[s].issue THEN AgainstItem(ts[s].lines, n) ELSE 0
<1>. TAKE i, n
<1> DEFINE f == [t \in AgainstIn(ts, i) |-> AgainstItem(ts[t].lines, n)]
           g == [t \in AgainstIn(new, i) |-> AgainstItem(new[t].lines, n)]
<1>1. /\ IsFiniteSet(AgainstIn(ts, i)) /\ AgainstIn(ts, i) \subseteq DOMAIN ts
      /\ \A t \in DOMAIN ts : AgainstItem(ts[t].lines, n) \in Nat
  <2>1. IsFiniteSet(PostedReturnsIn(ts)) /\ PostedReturnsIn(ts) \in SUBSET DOMAIN ts
    BY ReturnFacts
  <2>2. AgainstIn(ts, i) \subseteq PostedReturnsIn(ts)
    BY DEF AgainstIn
  <2>3. \A t \in DOMAIN ts : ts[t].lines \in Seq(Back)
    BY ReturnFacts
  <2>. QED BY <2>1, <2>2, <2>3, FS_Subset, BackTotals
<1>2. /\ DOMAIN f = AgainstIn(ts, i) /\ DOMAIN g = AgainstIn(new, i)
      /\ \A t \in DOMAIN f : f[t] = AgainstItem(ts[t].lines, n) /\ f[t] \in Nat
      /\ \A t \in DOMAIN g : g[t] = AgainstItem(new[t].lines, n)
  BY <1>1
<1>3. BroughtBack(ts, i, n) = SumFunction(f) /\ BroughtBack(new, i, n) = SumFunction(g)
  BY DEF BroughtBack
<1>. HIDE DEF f, g
<1>4. SumFunction(f) \in Nat
  BY <1>1, <1>2, TotalNat
<1>5. s \notin DOMAIN f
  BY <1>2 DEF AgainstIn, PostedReturnsIn
<1>6. CASE i = ts[s].issue
  <2>1. DOMAIN g = DOMAIN f \cup {s}
    BY <1>2, <1>6 DEF AgainstIn, PostedReturnsIn
  <2>2. \A t \in DOMAIN f : f[t] \in Int /\ g[t] = f[t]
    <3>. SUFFICES ASSUME NEW t \in DOMAIN f PROVE f[t] \in Int /\ g[t] = f[t]
      OBVIOUS
    <3>1. t \in DOMAIN ts \ {s} /\ t \in DOMAIN g
      BY <1>1, <1>2, <1>5, <2>1
    <3>. QED BY <1>2, <3>1
  <2>3. g[s] = AgainstItem(new[s].lines, n)
    BY <1>2, <2>1
  <2>4. g[s] = AgainstItem(ts[s].lines, n) /\ g[s] \in Int
    BY <1>1, <2>3
  <2>5. IsFiniteSet(DOMAIN f)
    BY <1>1, <1>2
  <2>6. SumFunction(g) = SumFunction(f) + g[s]
    BY ONLY <1>5, <2>1, <2>2, <2>4, <2>5, TotalAdd
  <2>. QED BY <1>3, <1>4, <1>6, <2>4, <2>6
<1>7. CASE i # ts[s].issue
  <2>1. DOMAIN g = DOMAIN f
    BY <1>2, <1>7 DEF AgainstIn, PostedReturnsIn
  <2>2. \A t \in DOMAIN f : f[t] \in Int /\ g[t] = f[t]
    <3>. SUFFICES ASSUME NEW t \in DOMAIN f PROVE f[t] \in Int /\ g[t] = f[t]
      OBVIOUS
    <3>1. t \in DOMAIN ts \ {s} /\ t \in DOMAIN g
      BY <1>1, <1>2, <1>5, <2>1
    <3>. QED BY <1>2, <3>1
  <2>3. SumFunction(g) = SumFunction(f)
    BY <1>1, <1>2, <2>1, <2>2, TotalSame
  <2>. QED BY <1>3, <1>4, <1>7, <2>3
<1>. QED BY <1>6, <1>7

LEMMA CrossedFacts ==
    ASSUME CrossedInv
    PROVE  /\ onHand \in [Rows -> Nat] /\ reserved \in [Rows -> Nat] /\ scrap \in [Rows -> Nat]
           /\ requests \in Seq(Request) /\ returns \in Seq(Return)
           /\ IssueList(issues, DOMAIN requests) /\ Counts(issues, returns)
           /\ \A r \in DOMAIN requests :
                 r \in Nat /\ requests[r] \in Request /\ requests[r].lines \in [Lines -> Line]
           /\ \A i \in DOMAIN issues :
                 /\ i \in Nat /\ issues[i] \in Issue /\ issues[i].items \in Items
                 /\ issues[i].request \in DOMAIN requests
           /\ \A t \in DOMAIN returns :
                 /\ returns[t] \in Return /\ returns[t].lines \in Seq(Back)
                 /\ returns[t].issue \in DOMAIN issues
           /\ DOMAIN client = Clients /\ \A c \in Clients : TypedCall(client[c])
<1>1. /\ StockInv /\ requests \in Seq(Request) /\ IssuesTyped /\ ReturnsTyped /\ CallsTyped
      /\ ReturnsCounted
  BY DEF CrossedInv
<1>2. IssueList(issues, DOMAIN requests) /\ Counts(issues, returns)
  BY <1>1, CrossedParts
<1>3. \A r \in DOMAIN requests :
         r \in Nat /\ requests[r] \in Request /\ requests[r].lines \in [Lines -> Line]
  <2>1. \A r \in DOMAIN requests : r \in Nat /\ requests[r] \in Request
    BY <1>1, SequenceDomain
  <2>. QED BY <2>1 DEF Request
<1>4. \A i \in DOMAIN issues :
         /\ i \in Nat /\ issues[i] \in Issue /\ issues[i].items \in Items
         /\ issues[i].request \in DOMAIN requests
  <2>1. issues \in Seq(Issue) /\ \A i \in DOMAIN issues : issues[i].request \in DOMAIN requests
    BY <1>2 DEF IssueList
  <2>2. \A i \in DOMAIN issues : i \in Nat /\ issues[i] \in Issue
    BY <2>1, SequenceDomain
  <2>. QED BY <2>1, <2>2 DEF Issue
<1>5. \A t \in DOMAIN returns :
         /\ returns[t] \in Return /\ returns[t].lines \in Seq(Back)
         /\ returns[t].issue \in DOMAIN issues
  <2>1. returns \in Seq(Return) /\ \A t \in DOMAIN returns : returns[t].issue \in DOMAIN issues
    BY <1>1 DEF ReturnsTyped
  <2>. QED BY <2>1, ReturnFacts
<1>. QED BY <1>1, <1>2, <1>3, <1>4, <1>5 DEF StockInv, ReturnsTyped, CallsTyped

(* A call keeps its types while documents stay where they are, and when it *)
(* is over.                                                                *)
LEMMA TypedCallsStay ==
    ASSUME CallsTyped, NEW c,
           client' = client \/ client' = [client EXCEPT ![c] = Idle],
           DOMAIN requests \subseteq DOMAIN requests', DOMAIN issues \subseteq DOMAIN issues'
    PROVE  CallsTyped'
<1>1. ASSUME NEW call, TypedCall(call)
      PROVE  TypedCall(call)'
  BY <1>1 DEF TypedCall
<1>2. TypedCall(Idle)' /\ DOMAIN Idle = {"op", "doc", "data"}
  BY DEF TypedCall, Idle
<1>3. DOMAIN client' = Clients /\ \A d \in Clients : client'[d] \in {client[d], Idle}
  BY DEF CallsTyped
<1>4. ASSUME NEW d \in Clients, NEW call, call = client'[d]
      PROVE  DOMAIN call = {"op", "doc", "data"} /\ TypedCall(call)'
  <2>1. PICK was : was = client[d]
    OBVIOUS
  <2>2. DOMAIN was = {"op", "doc", "data"} /\ TypedCall(was)
    BY <2>1 DEF CallsTyped
  <2>3. TypedCall(was)'
    BY <1>1, <2>2
  <2>4. call \in {was, Idle}
    BY <1>3, <1>4, <2>1
  <2>. QED BY <1>2, <2>2, <2>3, <2>4
<1>. QED BY <1>3, <1>4 DEF CallsTyped

(* What a step that ends a call, or is one, leaves behind. *)
LEMMA CrossedStays ==
    ASSUME CrossedInv, NEW c, client' = client \/ client' = [client EXCEPT ![c] = Idle],
           onHand' \in [Rows -> Nat], reserved' \in [Rows -> Nat], scrap' \in [Rows -> Nat],
           requests' \in Seq(Request), DOMAIN requests \subseteq DOMAIN requests',
           IssueList(issues', DOMAIN requests'), Counts(issues', returns'),
           DOMAIN issues \subseteq DOMAIN issues', returns' \in Seq(Return),
           \A t \in DOMAIN returns' : returns'[t].issue \in DOMAIN issues'
    PROVE  CrossedInv'
<1>1. CallsTyped'
  BY TypedCallsStay DEF CrossedInv
<1>2. IssuesTyped' /\ ReturnsTyped' /\ StockInv'
  BY DEF IssuesTyped, IssueList, ReturnsTyped, StockInv
<1>3. ReturnsCounted'
  BY DEF ReturnsCounted, Counts, BroughtBack, AgainstIn, PostedReturns, PostedReturnsIn
<1>. QED BY <1>1, <1>2, <1>3 DEF CrossedInv

(* What a call reads changes nothing but the call. *)
LEMMA CrossedRead ==
    ASSUME CrossedInv, NEW c \in Clients, NEW op, NEW doc, NEW data, Read(c, op, doc, data),
           TypedCall([op |-> op, doc |-> doc, data |-> data])
    PROVE  CrossedInv'
<1>1. PICK call : call = [op |-> op, doc |-> doc, data |-> data]
  OBVIOUS
<1>2. /\ client' = [client EXCEPT ![c] = call]
      /\ onHand' = onHand /\ reserved' = reserved /\ scrap' = scrap
      /\ requests' = requests /\ issues' = issues /\ returns' = returns
  BY <1>1 DEF Read, stock, documents
<1>3. TypedCall(call) /\ DOMAIN call = {"op", "doc", "data"}
  BY <1>1
<1>4. /\ DOMAIN client' = Clients
      /\ \A d \in Clients : client'[d] = IF d = c THEN call ELSE client[d]
  BY <1>2 DEF CrossedInv, CallsTyped
<1>5. \A d \in Clients : DOMAIN client'[d] = {"op", "doc", "data"} /\ TypedCall(client'[d])
  BY <1>3, <1>4 DEF CrossedInv, CallsTyped
<1>6. CallsTyped'
  BY <1>2, <1>4, <1>5 DEF CallsTyped, TypedCall
<1>. QED BY <1>2, <1>6 DEF CrossedInv, StockInv, IssuesTyped, ReturnsTyped, ReturnsCounted,
                           PostedReturns

(* One request becomes x; the issues and returns stay. *)
LEMMA CrossedRequest ==
    ASSUME CrossedInv, NEW c, client' = client \/ client' = [client EXCEPT ![c] = Idle],
           NEW r \in DOMAIN requests, NEW x \in Request, requests' = [requests EXCEPT ![r] = x],
           onHand' = onHand, reserved' \in [Rows -> Nat], scrap' = scrap,
           issues' = issues, returns' = returns
    PROVE  CrossedInv'
<1>1. requests' \in Seq(Request) /\ DOMAIN requests' = DOMAIN requests
  BY CrossedFacts
<1>. QED BY <1>1, CrossedFacts, CrossedStays

LEMMA CrossedCreate ==
    ASSUME CrossedInv, NEW c \in Clients, NEW asked \in [Lines -> Quantities],
           CreateRequest(c, asked)
    PROVE  CrossedInv'
<1>1. PICK lines, x : /\ lines = [l \in Lines |-> RequestLine(asked[l])]
                      /\ x = [status |-> "draft", ver |-> 0, lines |-> lines]
  BY Zenon
<1>2. /\ requests' = Append(requests, x) /\ client' = client
      /\ onHand' = onHand /\ reserved' = reserved /\ scrap' = scrap
      /\ issues' = issues /\ returns' = returns
  BY <1>1 DEF CreateRequest, InOneTransaction, stock
<1>3. x \in Request
  <2>1. lines \in [Lines -> Line]
    BY <1>1, FreshRequest
  <2>. QED BY <1>1, <2>1 DEF Request, RequestStatus
<1>4. requests' \in Seq(Request) /\ DOMAIN requests \subseteq DOMAIN requests'
  BY <1>2, <1>3, CrossedFacts
<1>5. IssueList(issues, DOMAIN requests')
  BY <1>4, CrossedFacts DEF IssueList
<1>. QED BY <1>2, <1>4, <1>5, CrossedFacts, CrossedStays

LEMMA CrossedEdit ==
    ASSUME CrossedInv, NEW c \in Clients, SaveUpdateRequest(c)
    PROVE  CrossedInv'
<1>1. PICK r, data : r = client[c].doc /\ data = client[c].data
  OBVIOUS
<1>2. PICK was, lines : was = requests[r] /\ lines = [l \in Lines |-> RequestLine(data.asked[l])]
  OBVIOUS
<1>3. /\ client[c].op = "updateRequest" /\ client' = [client EXCEPT ![c] = Idle]
      /\ UNCHANGED <<stock, issues, returns>>
      /\ \/ requests' = requests
         \/ requests' = [requests EXCEPT ![r].ver = @ + 1, ![r].lines = lines]
  BY <1>1, <1>2, Zenon DEF SaveUpdateRequest, Saving
<1>4. onHand' = onHand /\ reserved' = reserved /\ scrap' = scrap
      /\ issues' = issues /\ returns' = returns
  BY <1>3 DEF stock
<1>5. r \in DOMAIN requests /\ data.asked \in [Lines -> Quantities]
  BY <1>1, <1>3, CrossedFacts DEF TypedCall
<1>6. was \in Request /\ was.ver \in Nat
  BY <1>2, <1>5, CrossedFacts DEF Request
<1>7. lines \in [Lines -> Line]
  <2>1. PICK asked : asked = data.asked
    OBVIOUS
  <2>. QED BY <1>2, <1>5, <2>1, FreshRequest
<1>8. PICK ver : ver = was.ver + 1
  OBVIOUS
<1>9. PICK x : x = [was EXCEPT !.ver = ver, !.lines = lines]
  OBVIOUS
<1>10. x \in Request
  <2>1. ver \in Nat
    BY <1>6, <1>8
  <2>. QED BY <1>6, <1>7, <1>9, <2>1 DEF Request
<1>11. requests' = requests \/ requests' = [requests EXCEPT ![r] = x]
  <2>1. was = requests[r] /\ r \in DOMAIN requests
    BY <1>2, <1>5
  <2>. QED BY ONLY <1>3, <1>8, <1>9, <2>1
<1>12. CASE requests' = requests
  <2>1. requests' = [requests EXCEPT ![r] = was]
    BY <1>2, <1>5, <1>12, CrossedFacts
  <2>. QED BY <1>3, <1>4, <1>5, <1>6, <2>1, CrossedFacts, CrossedRequest
<1>13. CASE requests' = [requests EXCEPT ![r] = x]
  BY <1>3, <1>4, <1>5, <1>10, <1>13, CrossedFacts, CrossedRequest
<1>. QED BY <1>11, <1>12, <1>13

LEMMA CrossedStatus ==
    ASSUME CrossedInv, NEW c \in Clients, SaveRequestStatus(c)
    PROVE  CrossedInv'
<1>1. PICK r, to, was, x : /\ r = client[c].doc /\ to = client[c].data /\ was = requests[r]
                           /\ x = [was EXCEPT !.status = to]
  BY Zenon
<1>2. /\ client[c].op = "requestStatus" /\ client' = [client EXCEPT ![c] = Idle]
      /\ onHand' = onHand /\ reserved' = reserved /\ scrap' = scrap
      /\ issues' = issues /\ returns' = returns
      /\ requests' = [requests EXCEPT ![r].status = to]
  BY <1>1 DEF SaveRequestStatus, Saving, stock
<1>3. r \in DOMAIN requests /\ to \in {"submitted", "rejected"} /\ was \in Request
  BY <1>1, <1>2, CrossedFacts DEF TypedCall
<1>4. x \in Request
  BY <1>1, <1>3 DEF Request, RequestStatus
<1>5. requests' = [requests EXCEPT ![r] = x]
  BY ONLY <1>1, <1>2, <1>3
<1>. QED BY <1>2, <1>3, <1>4, <1>5, CrossedFacts, CrossedRequest

LEMMA CrossedApproval ==
    ASSUME CrossedInv, NEW c \in Clients, NEW r \in DOMAIN requests,
           NEW approved \in [Lines -> Quantities \cup {0}], ApproveRequest(c, r, approved)
    PROVE  CrossedInv'
<1>1. PICK was, old, lines, result :
         /\ was = requests[r] /\ old = was.lines /\ lines = ApprovedLines(old, approved)
         /\ result = ReserveLines(approved)
  BY Zenon
<1>2. /\ reserved' = result.rows /\ client' = client /\ onHand' = onHand /\ scrap' = scrap
      /\ issues' = issues /\ returns' = returns
  BY <1>1, Zenon DEF ApproveRequest, InOneTransaction
<1>3. requests' = [requests EXCEPT ![r].status = "approved", ![r].lines = lines]
  <2>1. requests' = [requests EXCEPT ![r].status = "approved",
                                     ![r].lines = ApprovedLines(@, approved)]
    BY Zenon DEF ApproveRequest
  <2>. QED BY <1>1, <2>1
<1>4. approved \in [Lines -> Nat]
  <2>1. Quantities \cup {0} \subseteq Nat
    BY FulfilmentAssumption
  <2>. QED BY <2>1
<1>5. was \in Request /\ old \in [Lines -> Line]
  BY <1>1, CrossedFacts
<1>6. lines \in [Lines -> Line]
  <2> DEFINE line(l) == [old[l] EXCEPT !.approved = approved[l],
                                    !.reserved = IF approved[l] > 0 THEN approved[l] ELSE @]
  <2>1. lines = [l \in Lines |-> line(l)]
    BY <1>1, Zenon DEF ApprovedLines
  <2>2. ASSUME NEW l \in Lines
        PROVE  line(l) \in Line
    <3>1. PICK n : n = IF approved[l] > 0 THEN approved[l] ELSE old[l].reserved
      OBVIOUS
    <3>2. old[l] \in Line /\ approved[l] \in Nat
      BY <1>4, <1>5
    <3>3. n \in Nat
      BY <3>1, <3>2 DEF Line
    <3>4. line(l) = [old[l] EXCEPT !.approved = approved[l], !.reserved = n]
      BY <3>1
    <3>. HIDE DEF line
    <3>. QED BY <3>2, <3>3, <3>4 DEF Line
  <2>. HIDE DEF line
  <2>. QED BY <2>1, <2>2
<1>7. PICK x : x = [was EXCEPT !.status = "approved", !.lines = lines]
  OBVIOUS
<1>8. x \in Request
  BY <1>5, <1>6, <1>7 DEF Request, RequestStatus
<1>9. requests' = [requests EXCEPT ![r] = x]
  BY ONLY <1>1, <1>3, <1>7
<1>10. reserved' \in [Rows -> Nat]
  BY <1>1, <1>2, <1>4, CrossedFacts, Reserves
<1>. QED BY <1>2, <1>8, <1>9, <1>10, CrossedRequest

LEMMA CrossedCancellation ==
    ASSUME CrossedInv, NEW c \in Clients, NEW r \in DOMAIN requests, CancelRequest(c, r)
    PROVE  CrossedInv'
<1>1. PICK was, old, gives, lines :
         /\ was = requests[r] /\ old = was.lines
         /\ gives = [l \in Lines |-> old[l].reserved] /\ lines = CancelledLines(old)
  BY Zenon
<1>2. PICK result : result = ReleaseLines(gives)
  OBVIOUS
<1>3. /\ reserved' = result.rows /\ client' = client /\ onHand' = onHand /\ scrap' = scrap
      /\ issues' = issues /\ returns' = returns
      /\ requests' = [requests EXCEPT ![r].status = "cancelled", ![r].lines = CancelledLines(@)]
  BY <1>1, <1>2, Zenon DEF CancelRequest, InOneTransaction
<1>4. was \in Request /\ old \in [Lines -> Line] /\ \A l \in Lines : old[l] \in Line
  BY <1>1, CrossedFacts
<1>5. gives \in [Lines -> Nat] /\ lines \in [Lines -> Line]
  BY <1>1, <1>4 DEF Line, CancelledLines
<1>6. PICK x : x = [was EXCEPT !.status = "cancelled", !.lines = lines]
  OBVIOUS
<1>7. x \in Request
  BY <1>4, <1>5, <1>6 DEF Request, RequestStatus
<1>8. requests' = [requests EXCEPT ![r] = x]
  BY ONLY <1>1, <1>3, <1>6
<1>9. reserved' \in [Rows -> Nat]
  BY <1>2, <1>3, <1>5, CrossedFacts, Releases
<1>. QED BY <1>3, <1>7, <1>8, <1>9, CrossedRequest

(* What an issue does to its request. *)
LEMMA CrossedApplied ==
    ASSUME CrossedInv, NEW r \in DOMAIN requests, NEW delta \in [Lines -> Int],
           ApplyIssued(r, delta)
    PROVE  /\ reserved' \in [Rows -> Nat] /\ requests' \in Seq(Request)
           /\ DOMAIN requests' = DOMAIN requests
<1>1. PICK was, old, lines, gives :
         /\ was = requests[r] /\ old = was.lines
         /\ lines = IssuedLines(old, delta) /\ gives = Given(old, delta)
  BY Zenon
<1>2. PICK result, status : result = ReleaseLines(gives) /\ status = IssuedStatus(was.status, lines)
  OBVIOUS
<1>3. /\ reserved' = result.rows
      /\ requests' = [requests EXCEPT ![r].lines = lines, ![r].status = IssuedStatus(@, lines)]
  BY <1>1, <1>2, Zenon DEF ApplyIssued, Given
<1>4. was \in Request /\ old \in [Lines -> Line] /\ was.status \in RequestStatus
  BY <1>1, CrossedFacts DEF Request
<1>5. lines \in [Lines -> Line] /\ gives \in [Lines -> Nat]
  BY ONLY <1>1, <1>4, delta \in [Lines -> Int], IssuedLinesFit
<1>6. status \in RequestStatus
  BY <1>2, <1>4, Zenon DEF IssuedStatus, RequestStatus
<1>7. PICK x : x = [was EXCEPT !.lines = lines, !.status = status]
  OBVIOUS
<1>8. x \in Request
  BY <1>4, <1>5, <1>6, <1>7 DEF Request
<1>9. requests' = [requests EXCEPT ![r] = x]
  BY ONLY <1>1, <1>2, <1>3, <1>7, r \in DOMAIN requests
<1>10. reserved' \in [Rows -> Nat]
  BY <1>2, <1>3, <1>5, CrossedFacts, Releases
<1>. QED BY <1>8, <1>9, <1>10, CrossedFacts

(* An issue becomes y, which is of the same request and counts the same as *)
(* returned.                                                               *)
LEMMA CrossedIssue ==
    ASSUME CrossedInv, NEW c, client' = client \/ client' = [client EXCEPT ![c] = Idle],
           onHand' \in [Rows -> Nat], reserved' \in [Rows -> Nat], scrap' = scrap,
           requests' \in Seq(Request), DOMAIN requests' = DOMAIN requests, returns' = returns,
           NEW i \in DOMAIN issues, NEW y \in Issue, issues' = [issues EXCEPT ![i] = y],
           y.request = issues[i].request, y.reversalOf = issues[i].reversalOf,
           \A n \in Lines \X Rows : y.items[n].returned = issues[i].items[n].returned
    PROVE  CrossedInv'
<1>1. IssueList(issues, DOMAIN requests) /\ Counts(issues, returns)
  BY CrossedFacts
<1>2. PICK is, new : is = issues /\ new = [is EXCEPT ![i] = y]
  OBVIOUS
<1>3. IssueList(new, DOMAIN requests) /\ Counts(new, returns) /\ DOMAIN new = DOMAIN is
  BY <1>1, <1>2, VersionReplaced
<1>. QED BY <1>2, <1>3, CrossedFacts, CrossedStays

LEMMA CrossedIssueCreated ==
    ASSUME CrossedInv, NEW c \in Clients, SaveCreateIssue(c)
    PROVE  CrossedInv'
<1>1. PICK r, items, y :
         /\ r = client[c].doc /\ items = client[c].data
         /\ y = [request |-> r, status |-> "draft", items |-> items, reversalOf |-> 0,
                 reversed |-> FALSE]
  BY Zenon
<1>2. /\ client[c].op = "createIssue" /\ client' = [client EXCEPT ![c] = Idle]
      /\ onHand' = onHand /\ reserved' = reserved /\ scrap' = scrap
      /\ requests' = requests /\ returns' = returns /\ issues' = Append(issues, y)
  BY <1>1 DEF SaveCreateIssue, Saving, stock
<1>3. /\ r \in DOMAIN requests /\ items \in Items
      /\ \A n \in DOMAIN items : items[n].returned = 0
  BY <1>1, <1>2, CrossedFacts DEF TypedCall
<1>4. /\ y \in Issue /\ y.request = r /\ y.reversalOf = 0 /\ y.items = items
  BY <1>1, <1>3, CrossedFacts DEF Issue, IssueStatus
<1>5. /\ IssueList(issues', DOMAIN requests) /\ Counts(issues', returns)
      /\ DOMAIN issues \subseteq DOMAIN issues'
  <2>1. /\ IssueList(issues, DOMAIN requests) /\ Counts(issues, returns)
        /\ \A t \in DOMAIN returns : returns[t].issue \in DOMAIN issues
    BY CrossedFacts
  <2>2. /\ y.request \in DOMAIN requests /\ y.reversalOf \in DOMAIN issues \cup {0}
        /\ \A n \in DOMAIN y.items : y.items[n].returned = 0
    BY <1>3, <1>4
  <2>. QED BY <1>2, <1>4, <2>1, <2>2, VersionAdded
<1>. QED BY <1>2, <1>5, CrossedFacts, CrossedStays

LEMMA CrossedPick ==
    ASSUME CrossedInv, NEW c \in Clients, SaveUpdateIssue(c)
    PROVE  CrossedInv'
<1>1. PICK i, data : i = client[c].doc /\ data = client[c].data
  OBVIOUS
<1>2. PICK was, old, n, row, picked :
         /\ was = issues[i] /\ old = was.items
         /\ n = data.item /\ row = data.row /\ picked = data.picked
  BY Zenon
<1>3. PICK item : item = [old[n] EXCEPT !.row = row, !.picked = picked]
  OBVIOUS
<1>4. /\ client[c].op = "updateIssue" /\ client' = [client EXCEPT ![c] = Idle]
      /\ onHand' = onHand /\ reserved' = reserved /\ scrap' = scrap
      /\ requests' = requests /\ returns' = returns
      /\ issues' = [issues EXCEPT ![i].items[n] = item]
  <2>1. /\ client[c].op = "updateIssue" /\ client' = [client EXCEPT ![c] = Idle]
        /\ UNCHANGED <<stock, requests, returns>>
        /\ issues' = [issues EXCEPT ![client[c].doc].items[client[c].data.item] =
                         [@ EXCEPT !.row = client[c].data.row, !.picked = client[c].data.picked]]
    BY Zenon DEF SaveUpdateIssue, Saving
  <2>2. issues' = [issues EXCEPT ![i].items[n] = item]
    BY <1>1, <1>2, <1>3, <2>1
  <2>. QED BY <2>1, <2>2 DEF stock
<1>5. PICK items, y : items = [old EXCEPT ![n] = item] /\ y = [was EXCEPT !.items = items]
  BY Zenon
<1>6. /\ i \in DOMAIN issues /\ n \in Lines \X Rows /\ row \in Rows /\ picked \in Nat
  BY <1>1, <1>2, <1>4, CrossedFacts DEF TypedCall
<1>7. was \in Issue /\ old \in Items /\ old[n] \in Item
  BY <1>2, <1>6, CrossedFacts DEF Items
<1>8. item \in Item /\ item.returned = old[n].returned
  BY <1>3, <1>6, <1>7 DEF Item
<1>9. items \in Items /\ \A m \in Lines \X Rows : items[m].returned = old[m].returned
  BY <1>5, <1>6, <1>7, <1>8 DEF Items
<1>10. /\ y \in Issue /\ y.request = was.request /\ y.reversalOf = was.reversalOf
      /\ y.items = items
  BY <1>5, <1>7, <1>9 DEF Issue
<1>11. issues' = [issues EXCEPT ![i] = y]
  BY ONLY <1>2, <1>4, <1>5, <1>6
<1>12. \A m \in Lines \X Rows : y.items[m].returned = issues[i].items[m].returned
  BY <1>2, <1>9, <1>10
<1>. QED BY <1>2, <1>4, <1>6, <1>10, <1>11, <1>12, CrossedFacts, CrossedIssue

LEMMA CrossedIssueStatus ==
    ASSUME CrossedInv, NEW c \in Clients, SaveIssueStatus(c)
    PROVE  CrossedInv'
<1>1. PICK i, to, was, y : /\ i = client[c].doc /\ to = client[c].data /\ was = issues[i]
                           /\ y = [was EXCEPT !.status = to]
  BY Zenon
<1>2. /\ client[c].op = "issueStatus" /\ client' = [client EXCEPT ![c] = Idle]
      /\ onHand' = onHand /\ reserved' = reserved /\ scrap' = scrap
      /\ requests' = requests /\ returns' = returns
      /\ issues' = [issues EXCEPT ![i].status = to]
  BY <1>1 DEF SaveIssueStatus, Saving, stock
<1>3. i \in DOMAIN issues /\ to \in {"picked", "cancelled"} /\ was \in Issue
  BY <1>1, <1>2, CrossedFacts DEF TypedCall
<1>4. /\ y \in Issue /\ y.request = was.request /\ y.reversalOf = was.reversalOf
      /\ y.items = was.items
  BY <1>1, <1>3 DEF Issue, IssueStatus
<1>5. issues' = [issues EXCEPT ![i] = y]
  BY ONLY <1>1, <1>2, <1>3
<1>6. /\ y.request = issues[i].request /\ y.reversalOf = issues[i].reversalOf
      /\ y.items = issues[i].items
  BY <1>1, <1>4
<1>7. /\ onHand' \in [Rows -> Nat] /\ reserved' \in [Rows -> Nat]
      /\ requests' \in Seq(Request) /\ DOMAIN requests' = DOMAIN requests
  BY <1>2, CrossedFacts
<1>. QED BY <1>2, <1>3, <1>4, <1>5, <1>6, <1>7, CrossedIssue

LEMMA CrossedPosting ==
    ASSUME CrossedInv, NEW c \in Clients, NEW i \in DOMAIN issues, PostIssue(c, i)
    PROVE  CrossedInv'
<1>1. PICK was, items, r : was = issues[i] /\ items = was.items /\ r = was.request
  BY Zenon
<1>2. PICK delta, y : /\ delta = [l \in Lines |-> OfProduct(items, ProductOf[l])]
                      /\ y = [was EXCEPT !.status = "posted"]
  BY Zenon
<1>3. /\ Covered(items) /\ onHand' = [b \in Rows |-> onHand[b] - OnRow(items, b)]
      /\ ApplyIssued(r, delta) /\ issues' = [issues EXCEPT ![i].status = "posted"]
      /\ scrap' = scrap /\ returns' = returns /\ client' = client
  BY <1>1, <1>2, Zenon DEF PostIssue, InOneTransaction
<1>4. was \in Issue /\ items \in Items /\ r \in DOMAIN requests
  BY <1>1, CrossedFacts
<1>5. delta \in [Lines -> Int]
  BY <1>2, <1>4, IssuedDelta
<1>6. /\ reserved' \in [Rows -> Nat] /\ requests' \in Seq(Request)
      /\ DOMAIN requests' = DOMAIN requests
  BY <1>3, <1>4, <1>5, CrossedApplied
<1>7. onHand' \in [Rows -> Nat]
  <2>1. \A b \in Rows : onHand[b] \in Nat /\ OnRow(items, b) \in Nat
    BY <1>4, ItemTotals, CrossedFacts
  <2>. QED BY <1>3, <2>1 DEF Covered
<1>8. /\ y \in Issue /\ y.request = r /\ y.reversalOf = was.reversalOf /\ y.items = items
  BY <1>1, <1>2, <1>4 DEF Issue, IssueStatus
<1>9. issues' = [issues EXCEPT ![i] = y]
  BY ONLY <1>1, <1>2, <1>3
<1>10. /\ y.request = issues[i].request /\ y.reversalOf = issues[i].reversalOf
       /\ y.items = issues[i].items
  BY <1>1, <1>8
<1>. QED BY <1>3, <1>6, <1>7, <1>8, <1>9, <1>10, CrossedIssue

LEMMA CrossedReversal ==
    ASSUME CrossedInv, NEW c \in Clients, NEW i \in DOMAIN issues, ReverseIssue(c, i)
    PROVE  CrossedInv'
<1>1. PICK was, items, r : was = issues[i] /\ items = was.items /\ r = was.request
  BY Zenon
<1>2. PICK delta, y, stamped, reversal :
         /\ delta = [l \in Lines |-> -OfProduct(items, ProductOf[l])]
         /\ y = [was EXCEPT !.reversed = TRUE] /\ stamped = [issues EXCEPT ![i] = y]
         /\ reversal = [request |-> r, status |-> "posted", items |-> items,
                        reversalOf |-> i, reversed |-> FALSE]
  BY Zenon
<1>3. /\ onHand' = [b \in Rows |-> onHand[b] + OnRow(items, b)]
      /\ ApplyIssued(r, delta)
      /\ issues' = Append([issues EXCEPT ![i].reversed = TRUE], reversal)
      /\ scrap' = scrap /\ returns' = returns /\ client' = client
  BY <1>1, <1>2, Zenon DEF ReverseIssue, InOneTransaction
<1>4. was \in Issue /\ items \in Items /\ r \in DOMAIN requests /\ r \in Nat /\ i \in Nat
  BY <1>1, CrossedFacts
<1>5. delta \in [Lines -> Int]
  BY <1>2, <1>4, ReversedDelta
<1>6. /\ reserved' \in [Rows -> Nat] /\ requests' \in Seq(Request)
      /\ DOMAIN requests' = DOMAIN requests
  BY <1>3, <1>4, <1>5, CrossedApplied
<1>7. onHand' \in [Rows -> Nat]
  <2>1. \A b \in Rows : onHand[b] \in Nat /\ OnRow(items, b) \in Nat
    BY <1>4, ItemTotals, CrossedFacts
  <2>. QED BY <1>3, <2>1
<1>8. /\ y \in Issue /\ y.request = r /\ y.reversalOf = was.reversalOf /\ y.items = items
  BY <1>1, <1>2, <1>4 DEF Issue
<1>9. /\ IssueList(stamped, DOMAIN requests) /\ Counts(stamped, returns)
      /\ DOMAIN stamped = DOMAIN issues
  <2>1. IssueList(issues, DOMAIN requests) /\ Counts(issues, returns)
    BY CrossedFacts
  <2>2. /\ y.request = issues[i].request /\ y.reversalOf = issues[i].reversalOf
        /\ y.items = issues[i].items
    BY <1>1, <1>8
  <2>. QED BY <1>2, <1>8, <2>1, <2>2, VersionReplaced
<1>10. reversal \in Issue /\ reversal.request = r /\ reversal.reversalOf = i
  BY <1>2, <1>4 DEF Issue, IssueStatus
<1>11. issues' = Append(stamped, reversal)
  BY ONLY <1>1, <1>2, <1>3
<1>12. i # 0
  <2>1. issues \in Seq(Issue)
    BY CrossedFacts DEF IssueList
  <2>. QED BY <2>1, SequenceDomain
<1>13. /\ IssueList(issues', DOMAIN requests) /\ Counts(issues', returns)
       /\ DOMAIN stamped \subseteq DOMAIN issues'
  <2>1. \A t \in DOMAIN returns : returns[t].issue \in DOMAIN stamped
    BY <1>9, CrossedFacts
  <2>2. /\ reversal.request \in DOMAIN requests
        /\ reversal.reversalOf \in DOMAIN stamped \cup {0} /\ reversal.reversalOf # 0
    BY <1>4, <1>9, <1>10, <1>12
  <2>. QED BY <1>9, <1>10, <1>11, <2>1, <2>2, VersionAdded
<1>. QED BY <1>3, <1>6, <1>7, <1>9, <1>13, CrossedFacts, CrossedStays

LEMMA CrossedReturnCreated ==
    ASSUME CrossedInv, NEW c \in Clients, SaveCreateReturn(c)
    PROVE  CrossedInv'
<1>1. PICK i, lines, y : /\ i = client[c].doc /\ lines = client[c].data
                         /\ y = [issue |-> i, status |-> "draft", lines |-> lines]
  BY Zenon
<1>2. /\ client[c].op = "createReturn" /\ client' = [client EXCEPT ![c] = Idle]
      /\ onHand' = onHand /\ reserved' = reserved /\ scrap' = scrap
      /\ requests' = requests /\ issues' = issues /\ returns' = Append(returns, y)
  BY <1>1 DEF SaveCreateReturn, Saving, stock
<1>3. i \in DOMAIN issues /\ lines \in Seq(Back)
  BY <1>1, <1>2, CrossedFacts DEF TypedCall
<1>4. y \in Return /\ y.status = "draft" /\ y.issue = i
  BY <1>1, <1>3, CrossedFacts DEF Return
<1>5. Counts(issues, returns')
  BY <1>2, <1>4, CrossedFacts, DraftNotCounted
<1>6. /\ returns' \in Seq(Return)
      /\ \A t \in DOMAIN returns' : returns'[t].issue \in DOMAIN issues
  <2>1. returns \in Seq(Return) /\ \A t \in DOMAIN returns : returns[t].issue \in DOMAIN issues
    BY CrossedFacts
  <2>2. PICK ts, new : ts = returns /\ new = Append(ts, y)
    OBVIOUS
  <2>3. /\ new \in Seq(Return)
        /\ \A t \in DOMAIN new : (t \in DOMAIN ts /\ new[t] = ts[t]) \/ new[t] = y
    BY <1>4, <2>1, <2>2
  <2>. QED BY <1>2, <1>3, <1>4, <2>1, <2>2, <2>3
<1>. QED BY <1>2, <1>5, <1>6, CrossedFacts, CrossedStays

LEMMA CrossedReturnPosted ==
    ASSUME CrossedInv, NEW c \in Clients, NEW t \in DOMAIN returns, PostReturn(c, t)
    PROVE  CrossedInv'
<1>1. PICK there, lines, i : there = returns[t] /\ lines = there.lines /\ i = there.issue
  BY Zenon
<1>2. PICK was, old, items, y :
         /\ was = issues[i] /\ old = was.items /\ items = ReturnedItems(old, lines)
         /\ y = [was EXCEPT !.items = items]
  BY Zenon
<1>3. /\ there.status = "draft"
      /\ onHand' = [b \in Rows |-> onHand[b] + BackOnRow(lines, b, TRUE)]
      /\ scrap' = [b \in Rows |-> scrap[b] + BackOnRow(lines, b, FALSE)]
      /\ issues' = [issues EXCEPT ![i].items = ReturnedItems(@, lines)]
      /\ returns' = [returns EXCEPT ![t].status = "posted"]
      /\ reserved' = reserved /\ requests' = requests /\ client' = client
  BY <1>1, <1>2, Zenon DEF PostReturn, InOneTransaction
<1>4. /\ there \in Return /\ lines \in Seq(Back) /\ i \in DOMAIN issues
      /\ was \in Issue /\ old \in Items /\ returns \in Seq(Return)
  BY <1>1, <1>2, CrossedFacts
<1>5. /\ items \in Items
      /\ \A n \in Lines \X Rows : items[n].returned = old[n].returned + AgainstItem(lines, n)
  <2> DEFINE item(n) == [old[n] EXCEPT !.returned = @ + AgainstItem(lines, n)]
  <2>1. items = [n \in DOMAIN old |-> item(n)] /\ DOMAIN old = Lines \X Rows
    BY <1>2, <1>4, ItemPlaces, Zenon DEF ReturnedItems
  <2>2. ASSUME NEW n \in Lines \X Rows
        PROVE  item(n) \in Item /\ item(n).returned = old[n].returned + AgainstItem(lines, n)
    <3>1. PICK that, sum : that = old[n] /\ sum = that.returned + AgainstItem(lines, n)
      OBVIOUS
    <3>2. that \in Item /\ AgainstItem(lines, n) \in Nat
      BY <1>4, <3>1, BackTotals DEF Items
    <3>3. sum \in Nat
      BY <3>1, <3>2 DEF Item
    <3>4. item(n) = [that EXCEPT !.returned = sum]
      BY <3>1
    <3>. HIDE DEF item
    <3>. QED BY <3>1, <3>2, <3>3, <3>4 DEF Item
  <2>. HIDE DEF item
  <2>. QED BY <2>1, <2>2 DEF Items
<1>6. /\ y \in Issue /\ y.request = was.request /\ y.reversalOf = was.reversalOf
      /\ y.items = items
  BY <1>2, <1>4, <1>5 DEF Issue
<1>7. issues' = [issues EXCEPT ![i] = y]
  BY ONLY <1>2, <1>3, <1>4
<1>8. issues \in Seq(Issue) /\ IssueList(issues, DOMAIN requests) /\ Counts(issues, returns)
  BY CrossedFacts DEF IssueList
<1>9. /\ issues' \in Seq(Issue) /\ DOMAIN issues' = DOMAIN issues
      /\ issues'[i] = y /\ \A j \in DOMAIN issues \ {i} : issues'[j] = issues[j]
  BY <1>4, <1>6, <1>7, <1>8
<1>10. IssueList(issues', DOMAIN requests)
  BY <1>2, <1>6, <1>8, <1>9 DEF IssueList
<1>11. /\ DOMAIN returns' = DOMAIN returns /\ returns'[t] \in Return
       /\ returns'[t].status = "posted" /\ returns'[t].issue = i /\ returns'[t].lines = lines
       /\ \A s \in DOMAIN returns \ {t} : returns'[s] = returns[s]
  <2>1. PICK posted : posted = [there EXCEPT !.status = "posted"]
    OBVIOUS
  <2>2. /\ posted \in Return /\ posted.issue = i /\ posted.lines = lines
        /\ posted.status = "posted"
    BY <1>1, <1>4, <2>1 DEF Return
  <2>3. returns' = [returns EXCEPT ![t] = posted]
    BY ONLY <1>1, <1>3, <2>1
  <2>. QED BY <2>2, <2>3
<1>12. \A j, n : /\ BroughtBack(returns, j, n) \in Nat
                 /\ BroughtBack(returns', j, n) = BroughtBack(returns, j, n)
                       + IF j = i THEN AgainstItem(lines, n) ELSE 0
  <2>1. PICK ts, new : ts = returns /\ new = returns'
    OBVIOUS
  <2>2. /\ ts \in Seq(Return) /\ t \in DOMAIN ts /\ ts[t].status # "posted"
        /\ ts[t].issue = i /\ ts[t].lines = lines /\ DOMAIN new = DOMAIN ts
        /\ new[t].status = "posted" /\ new[t].issue = ts[t].issue /\ new[t].lines = ts[t].lines
        /\ \A s \in DOMAIN ts \ {t} : new[s] = ts[s]
    BY <1>1, <1>3, <1>4, <1>11, <2>1
  <2>3. \A j, n : /\ BroughtBack(ts, j, n) \in Nat
                  /\ BroughtBack(new, j, n) = BroughtBack(ts, j, n)
                        + IF j = ts[t].issue THEN AgainstItem(ts[t].lines, n) ELSE 0
    BY ONLY <2>2, PostedIsCounted
  <2>. QED BY <2>1, <2>2, <2>3
<1>13. Counts(issues', returns')
  <2>. SUFFICES ASSUME NEW j \in DOMAIN issues', NEW n \in DOMAIN issues'[j].items,
                       issues'[j].reversalOf = 0
                PROVE  issues'[j].items[n].returned = BroughtBack(returns', j, n)
    BY DEF Counts
  <2>1. CASE j = i
    <3>1. n \in Lines \X Rows /\ n \in DOMAIN old
      BY <1>4, <1>5, <1>6, <1>9, <2>1, ItemPlaces
    <3>2. was.reversalOf = 0
      BY <1>6, <1>9, <2>1
    <3>3. old[n].returned = BroughtBack(returns, i, n)
      BY <1>2, <1>4, <1>8, <3>1, <3>2 DEF Counts
    <3>4. issues'[j].items[n].returned = old[n].returned + AgainstItem(lines, n)
      BY <1>5, <1>6, <1>9, <2>1, <3>1
    <3>. QED BY <1>12, <2>1, <3>3, <3>4
  <2>2. CASE j # i
    <3>1. j \in DOMAIN issues /\ issues'[j] = issues[j]
      BY <1>9, <2>2
    <3>2. issues[j].items[n].returned = BroughtBack(returns, j, n)
      BY <1>8, <3>1 DEF Counts
    <3>. QED BY <1>12, <2>2, <3>1, <3>2
  <2>. QED BY <2>1, <2>2
<1>14. onHand' \in [Rows -> Nat] /\ scrap' \in [Rows -> Nat]
  <2>1. \A b \in Rows : /\ onHand[b] \in Nat /\ BackOnRow(lines, b, TRUE) \in Nat
                        /\ scrap[b] \in Nat /\ BackOnRow(lines, b, FALSE) \in Nat
    BY <1>4, BackTotals, CrossedFacts
  <2>2. ASSUME NEW b \in Rows
        PROVE  /\ onHand[b] + BackOnRow(lines, b, TRUE) \in Nat
               /\ scrap[b] + BackOnRow(lines, b, FALSE) \in Nat
    <3>1. PICK good, other : good = BackOnRow(lines, b, TRUE) /\ other = BackOnRow(lines, b, FALSE)
      OBVIOUS
    <3>2. good \in Nat /\ other \in Nat
      BY <2>1, <3>1, Zenon
    <3>3. onHand[b] + good \in Nat /\ scrap[b] + other \in Nat
      BY <3>2, CrossedFacts
    <3>. QED BY <3>1, <3>3
  <2>. QED BY <1>3, <2>2
<1>15. /\ returns' \in Seq(Return)
       /\ \A s \in DOMAIN returns' : returns'[s].issue \in DOMAIN issues
  <2>1. PICK posted : posted = returns'[t]
    OBVIOUS
  <2>2. returns' = [returns EXCEPT ![t] = posted]
    BY <1>3, <2>1
  <2>. QED BY <1>4, <1>11, <2>1, <2>2, CrossedFacts
<1>. QED BY <1>3, <1>9, <1>10, <1>13, <1>14, <1>15, CrossedFacts, CrossedStays

LEMMA CrossedReads ==
    ASSUME CrossedInv, NEW c \in Clients,
           \/ \E r \in DOMAIN requests :
                 \/ \E asked \in [Lines -> Quantities] : ReadUpdateRequest(c, r, asked)
                 \/ \E to \in {"submitted", "rejected"} : ReadRequestStatus(c, r, to)
                 \/ ReadCreateIssue(c, r)
           \/ \E i \in DOMAIN issues :
                 \/ \E n \in Drawn(issues[i].items), row \in Rows, picked \in Quantities \cup {0} :
                       ReadUpdateIssue(c, i, n, row, picked)
                 \/ ReadPickIssue(c, i)
                 \/ ReadCancelIssue(c, i)
                 \/ \E lines \in Seq(ReturnLine(i)) : ReadCreateReturn(c, i, lines)
    PROVE  CrossedInv'
<1>1. ASSUME NEW r \in DOMAIN requests, NEW asked \in [Lines -> Quantities],
             ReadUpdateRequest(c, r, asked)
      PROVE  CrossedInv'
  <2>1. PICK data : data = [ver |-> requests[r].ver, asked |-> asked]
    OBVIOUS
  <2>2. data.asked \in [Lines -> Quantities]
    BY <2>1
  <2>3. TypedCall([op |-> "updateRequest", doc |-> r, data |-> data])
    BY <2>2 DEF TypedCall
  <2>4. Read(c, "updateRequest", r, data)
    BY <1>1, <2>1 DEF ReadUpdateRequest
  <2>. QED BY <2>3, <2>4, CrossedRead
<1>2. ASSUME NEW r \in DOMAIN requests, NEW to \in {"submitted", "rejected"},
             ReadRequestStatus(c, r, to)
      PROVE  CrossedInv'
  <2>1. TypedCall([op |-> "requestStatus", doc |-> r, data |-> to])
    BY DEF TypedCall
  <2>2. Read(c, "requestStatus", r, to)
    BY <1>2 DEF ReadRequestStatus
  <2>. QED BY <2>1, <2>2, CrossedRead
<1>3. ASSUME NEW r \in DOMAIN requests, ReadCreateIssue(c, r)
      PROVE  CrossedInv'
  <2>1. PICK items, lines : items = AllocatedItems(lines) /\ lines = requests[r].lines
    OBVIOUS
  <2>2. Read(c, "createIssue", r, items)
    BY <1>3, <2>1 DEF ReadCreateIssue
  <2>3. items \in Items /\ \A n \in DOMAIN items : items[n].returned = 0
    BY <2>1, CrossedFacts, AllocatedItemsType
  <2>4. TypedCall([op |-> "createIssue", doc |-> r, data |-> items])
    BY <2>3 DEF TypedCall
  <2>. QED BY <2>2, <2>4, CrossedRead
<1>4. ASSUME NEW i \in DOMAIN issues, NEW n \in Drawn(issues[i].items), NEW row \in Rows,
             NEW picked \in Quantities \cup {0}, ReadUpdateIssue(c, i, n, row, picked)
      PROVE  CrossedInv'
  <2>1. PICK data : data = [item |-> n, row |-> row, picked |-> picked]
    OBVIOUS
  <2>2. n \in Lines \X Rows
    BY CrossedFacts, ItemPlaces DEF Drawn
  <2>3. picked \in Nat
    BY FulfilmentAssumption
  <2>4. data.item \in Lines \X Rows /\ data.row \in Rows /\ data.picked \in Nat
    BY <2>1, <2>2, <2>3
  <2>5. TypedCall([op |-> "updateIssue", doc |-> i, data |-> data])
    BY <2>4 DEF TypedCall
  <2>6. Read(c, "updateIssue", i, data)
    BY <1>4, <2>1 DEF ReadUpdateIssue
  <2>. QED BY <2>5, <2>6, CrossedRead
<1>5. ASSUME NEW i \in DOMAIN issues, ReadPickIssue(c, i) \/ ReadCancelIssue(c, i)
      PROVE  CrossedInv'
  <2>1. PICK to \in {"picked", "cancelled"} : Read(c, "issueStatus", i, to)
    BY <1>5 DEF ReadPickIssue, ReadCancelIssue
  <2>2. TypedCall([op |-> "issueStatus", doc |-> i, data |-> to])
    BY DEF TypedCall
  <2>. QED BY <2>1, <2>2, CrossedRead
<1>6. ASSUME NEW i \in DOMAIN issues, NEW lines \in Seq(ReturnLine(i)),
             ReadCreateReturn(c, i, lines)
      PROVE  CrossedInv'
  <2>1. PICK items, data :
          /\ items = issues[i].items
          /\ data = [n \in DOMAIN lines |->
                        [item |-> lines[n].item, row |-> items[lines[n].item].row,
                         quantity |-> lines[n].quantity, good |-> lines[n].good]]
    OBVIOUS
  <2>2. Read(c, "createReturn", i, data)
    BY <1>6, <2>1 DEF ReadCreateReturn
  <2>3. items \in Items
    BY <2>1, CrossedFacts
  <2>4. data \in Seq(Back)
    BY <2>1, <2>3, ReturnLinesFit
  <2>5. TypedCall([op |-> "createReturn", doc |-> i, data |-> data])
    BY <2>4 DEF TypedCall
  <2>. QED BY <2>2, <2>5, CrossedRead
<1>. QED BY <1>1, <1>2, <1>3, <1>4, <1>5, <1>6

LEMMA CrossedStart == Init => CrossedInv
<1> SUFFICES ASSUME Init
             PROVE  CrossedInv
  OBVIOUS
<1>1. /\ onHand = Opening /\ reserved = [b \in Rows |-> 0] /\ scrap = [b \in Rows |-> 0]
      /\ requests = <<>> /\ issues = <<>> /\ returns = <<>>
      /\ client = [c \in Clients |-> Idle]
  BY DEF Init
<1>2. StockInv
  BY <1>1, FulfilmentAssumption DEF StockInv
<1>3. requests \in Seq(Request) /\ IssuesTyped /\ ReturnsTyped
  BY <1>1 DEF IssuesTyped, ReturnsTyped
<1>4. CallsTyped
  BY <1>1 DEF CallsTyped, TypedCall, Idle
<1>5. ReturnsCounted
  BY <1>1 DEF ReturnsCounted
<1>. QED BY <1>2, <1>3, <1>4, <1>5 DEF CrossedInv

LEMMA CrossedNext ==
    ASSUME CrossedInv, [Next]_vars
    PROVE  CrossedInv'
<1>1. ASSUME NEW c \in Clients, RequestStep(c)
      PROVE  CrossedInv'
  BY <1>1, CrossedCreate, CrossedReads, CrossedApproval, CrossedCancellation, CrossedEdit,
     CrossedStatus, Zenon DEF RequestStep
<1>2. ASSUME NEW c \in Clients, IssueStep(c)
      PROVE  CrossedInv'
  BY <1>2, CrossedReads, CrossedPosting, CrossedReversal, CrossedIssueCreated, CrossedPick,
     CrossedIssueStatus, Zenon DEF IssueStep
<1>3. ASSUME NEW c \in Clients, ReturnStep(c)
      PROVE  CrossedInv'
  <2>1. ASSUME NEW i \in DOMAIN issues, NEW line1 \in ReturnLine(i),
               \/ ReadCreateReturn(c, i, <<line1>>)
               \/ \E line2 \in ReturnLine(i) : ReadCreateReturn(c, i, <<line1, line2>>)
        PROVE  CrossedInv'
    <3>1. <<line1>> \in Seq(ReturnLine(i))
      OBVIOUS
    <3>2. \A line2 \in ReturnLine(i) : <<line1, line2>> \in Seq(ReturnLine(i))
      OBVIOUS
    <3>. QED BY <2>1, <3>1, <3>2, CrossedReads
  <2>. QED BY <1>3, <2>1, CrossedReturnCreated, CrossedReturnPosted, Zenon DEF ReturnStep
<1>4. CASE UNCHANGED vars
  <2>1. /\ onHand' = onHand /\ reserved' = reserved /\ scrap' = scrap
        /\ requests' = requests /\ issues' = issues /\ returns' = returns /\ client' = client
    BY <1>4 DEF vars
  <2>2. StockInv' /\ (requests \in Seq(Request))' /\ IssuesTyped' /\ ReturnsTyped'
    BY <2>1 DEF CrossedInv, StockInv, IssuesTyped, ReturnsTyped
  <2>3. CallsTyped'
    BY <2>1 DEF CrossedInv, CallsTyped, TypedCall
  <2>4. ReturnsCounted'
    BY <2>1 DEF CrossedInv, ReturnsCounted, PostedReturns
  <2>. QED BY <2>2, <2>3, <2>4 DEF CrossedInv
<1>. QED BY <1>1, <1>2, <1>3, <1>4, Zenon DEF Next

LEMMA CrossedAlways == Spec => []CrossedInv
<1>1. Init => CrossedInv
  BY CrossedStart
<1>2. CrossedInv /\ [Next]_vars => CrossedInv'
  BY CrossedNext
<1>. QED BY <1>1, <1>2, PTL DEF Spec

(* Balances, requests, issues and returns keep the fields and ranges of    *)
(* their mongoose schemas, and no balance or quantity is ever negative,    *)
(* however calls cross.                                                    *)
THEOREM FulfilmentTypes == Spec => []TypeOK
<1>1. CrossedInv => TypeOK
  <2> SUFFICES ASSUME CrossedInv
               PROVE  TypeOK
    OBVIOUS
  <2>1. onHand \in [Rows -> Nat] /\ reserved \in [Rows -> Nat] /\ scrap \in [Rows -> Nat]
    BY CrossedFacts
  <2>2. ASSUME NEW r \in DOMAIN requests
        PROVE  /\ requests[r].status \in RequestStatus /\ requests[r].ver \in Nat
               /\ requests[r].lines \in [Lines -> [requested : Nat, approved : Nat,
                                                   reserved : Nat, fulfilled : Nat]]
    BY CrossedFacts DEF Request, Line
  <2>3. ASSUME NEW i \in DOMAIN issues
        PROVE  /\ issues[i].status \in IssueStatus /\ issues[i].reversed \in BOOLEAN
               /\ issues[i].request \in DOMAIN requests
               /\ issues[i].reversalOf \in 0..(i - 1)
               /\ issues[i].items \in Items
    <3>1. issues[i] \in Issue /\ issues[i].request \in DOMAIN requests /\ issues[i].items \in Items
      BY CrossedFacts
    <3>2. issues[i].status \in IssueStatus /\ issues[i].reversed \in BOOLEAN
      BY <3>1, Zenon DEF Issue
    <3>3. issues[i].reversalOf \in 0..(i - 1)
      BY CrossedFacts DEF IssueList
    <3>. QED BY <3>1, <3>2, <3>3
  <2>4. ASSUME NEW t \in DOMAIN returns
        PROVE  /\ returns[t].status \in {"draft", "posted"} /\ returns[t].issue \in DOMAIN issues
               /\ returns[t].lines \in Seq([item : Lines \X Rows, row : Rows,
                                            quantity : Nat, good : BOOLEAN])
    <3>1. /\ returns[t] \in Return /\ returns[t].lines \in Seq(Back)
          /\ returns[t].issue \in DOMAIN issues
      BY CrossedFacts
    <3>. QED BY <3>1, Zenon DEF Return, Back
  <2>5. \A c \in Clients :
            client[c].op \in {"none", "updateRequest", "requestStatus", "createIssue",
                              "updateIssue", "issueStatus", "createReturn"}
    BY CrossedFacts DEF TypedCall
  <2>. QED BY <2>1, <2>2, <2>3, <2>4, <2>5, Zenon DEF TypeOK
<1>. QED BY <1>1, CrossedAlways, PTL

(* What an issue counts as returned of an item is what its posted returns  *)
(* brought back of it: no stale pick, cancellation or draft loses a return *)
(* or counts it twice (applyReturnedQuantities, updateDraft, pick).        *)
THEOREM ReturnsAreCounted == Spec => []ReturnsCounted
<1>1. CrossedInv => ReturnsCounted
  BY DEF CrossedInv
<1>. QED BY <1>1, CrossedAlways, PTL

-----------------------------------------------------------------------------
(* What requests hold back *)

(* No line holds more than was approved of it. *)
Within(lines) == \A l \in Lines : lines[l].reserved <= lines[l].approved
HeldWithin == \A r \in DOMAIN requests : Within(requests[r].lines)

LEMMA WithinStart == Init => HeldWithin
BY DEF Init, HeldWithin

LEMMA ApprovedQuantities ==
    ASSUME NEW old \in [Lines -> Line], NEW approved, NEW lines,
           lines = ApprovedLines(old, approved)
    PROVE  \A l \in Lines : lines[l].approved = approved[l]
<1> DEFINE line(l) == [old[l] EXCEPT !.approved = approved[l],
                                  !.reserved = IF approved[l] > 0 THEN approved[l] ELSE @]
<1>1. lines = [l \in Lines |-> line(l)]
  BY Zenon DEF ApprovedLines
<1>2. ASSUME NEW l \in Lines
      PROVE  line(l).approved = approved[l]
  <2>1. PICK n : n = IF approved[l] > 0 THEN approved[l] ELSE old[l].reserved
    OBVIOUS
  <2>2. line(l) = [old[l] EXCEPT !.approved = approved[l], !.reserved = n]
    BY <2>1
  <2>3. old[l] \in Line
    OBVIOUS
  <2>. HIDE DEF line
  <2>. QED BY <2>2, <2>3 DEF Line
<1>. HIDE DEF line
<1>. QED BY <1>1, <1>2

LEMMA ApprovedKept ==
    ASSUME NEW old \in [Lines -> Line], NEW delta, NEW lines, lines = IssuedLines(old, delta)
    PROVE  \A l \in Lines : lines[l].approved = old[l].approved
<1> DEFINE line(l) == [old[l] EXCEPT
                          !.reserved = IF delta[l] > 0 THEN Max({0, @ - delta[l]}) ELSE @,
                          !.fulfilled = Max({0, @ + delta[l]})]
<1>1. lines = [l \in Lines |-> line(l)]
  BY Zenon DEF IssuedLines
<1>2. ASSUME NEW l \in Lines
      PROVE  line(l).approved = old[l].approved
  <2>1. PICK m, n :
          /\ m = (IF delta[l] > 0 THEN Max({0, old[l].reserved - delta[l]}) ELSE old[l].reserved)
          /\ n = Max({0, old[l].fulfilled + delta[l]})
    OBVIOUS
  <2>2. line(l) = [old[l] EXCEPT !.reserved = m, !.fulfilled = n]
    BY <2>1
  <2>3. old[l] \in Line
    OBVIOUS
  <2>. HIDE DEF line
  <2>. QED BY <2>2, <2>3 DEF Line
<1>. HIDE DEF line
<1>. QED BY <1>1, <1>2

LEMMA WithinStep ==
    ASSUME IInv, HeldWithin, [Next]_vars, [\A c \in Clients : Saves(c) => StillAllowed(c)]_vars
    PROVE  HeldWithin'
<1>1. PICK rs, new : rs = requests /\ new = requests'
  OBVIOUS
<1>2. /\ rs \in Seq(Request) /\ \A r \in DOMAIN rs : Within(rs[r].lines)
      /\ \A r \in DOMAIN rs : rs[r] \in Request /\ rs[r].lines \in [Lines -> Line]
  BY <1>1, RequestsFacts DEF HeldWithin, IInv, RequestsInv
<1>3. CASE new = rs
  BY <1>1, <1>2, <1>3 DEF HeldWithin
<1>4. ASSUME NEW r \in DOMAIN rs, NEW x, Within(x.lines), new = [rs EXCEPT ![r] = x]
      PROVE  HeldWithin'
  <2>1. DOMAIN new = DOMAIN rs /\ \A q \in DOMAIN rs : Within(new[q].lines)
    BY <1>2, <1>4
  <2>. QED BY <1>1, <2>1 DEF HeldWithin, Within
<1>5. ASSUME NEW c \in Clients, NEW asked \in [Lines -> Quantities], CreateRequest(c, asked)
      PROVE  HeldWithin'
  <2>1. PICK lines, x : /\ lines = [l \in Lines |-> RequestLine(asked[l])]
                        /\ x = [status |-> "draft", ver |-> 0, lines |-> lines]
    BY Zenon
  <2>2. new = Append(rs, x)
    BY <1>1, <1>5, <2>1 DEF CreateRequest
  <2>3. Within(x.lines)
    BY <2>1 DEF Within, RequestLine
  <2>4. \A q \in DOMAIN new : new[q] = x \/ (q \in DOMAIN rs /\ new[q] = rs[q])
    <3>1. lines \in [Lines -> Line]
      BY <2>1, FreshRequest
    <3>2. x \in Request
      BY <2>1, <3>1 DEF Request, RequestStatus
    <3>3. rs \in Seq(Request)
      BY <1>2
    <3>4. /\ DOMAIN new = 1 .. Len(rs) + 1 /\ DOMAIN rs = 1 .. Len(rs) /\ Len(rs) \in Nat
          /\ new[Len(rs) + 1] = x /\ \A q \in 1 .. Len(rs) : new[q] = rs[q]
      BY ONLY <2>2, <3>2, <3>3
    <3>. QED BY ONLY <3>4
  <2>5. \A q \in DOMAIN new : Within(new[q].lines)
    BY <1>2, <2>3, <2>4
  <2>. QED BY <1>1, <2>5 DEF HeldWithin, Within
<1>6. ASSUME NEW c \in Clients, SaveUpdateRequest(c)
      PROVE  HeldWithin'
  <2>1. PICK r, data, was, lines, x :
          /\ r = client[c].doc /\ data = client[c].data /\ was = rs[r]
          /\ lines = [l \in Lines |-> RequestLine(data.asked[l])]
          /\ x = [was EXCEPT !.ver = was.ver + 1, !.lines = lines]
    BY Zenon
  <2>2. /\ client[c].op = "updateRequest"
        /\ new = rs \/ new = [rs EXCEPT ![r].ver = @ + 1, ![r].lines = lines]
    BY <1>1, <1>6, <2>1, Zenon DEF SaveUpdateRequest, Saving
  <2>3. r \in DOMAIN rs
    BY <1>1, <2>1, <2>2 DEF IInv, CallsInv, CallInv, TypedCall
  <2>4. x.lines = lines
    BY <1>2, <2>1, <2>3 DEF Request
  <2>5. new = rs \/ new = [rs EXCEPT ![r] = x]
    BY ONLY <2>1, <2>2, <2>3
  <2>6. Within(lines)
    BY <2>1 DEF Within, RequestLine
  <2>. QED BY <1>3, <1>4, <2>3, <2>4, <2>5, <2>6
<1>7. ASSUME NEW c \in Clients, SaveRequestStatus(c)
      PROVE  HeldWithin'
  <2>1. PICK r, to, x : /\ r = client[c].doc /\ to = client[c].data
                        /\ x = [rs[r] EXCEPT !.status = to]
    BY Zenon
  <2>2. client[c].op = "requestStatus" /\ new = [rs EXCEPT ![r].status = to]
    BY <1>1, <1>7, <2>1, Zenon DEF SaveRequestStatus, Saving
  <2>3. r \in DOMAIN rs
    BY <1>1, <2>1, <2>2 DEF IInv, CallsInv, CallInv, TypedCall
  <2>4. x.lines = rs[r].lines
    BY <1>2, <2>1, <2>3 DEF Request
  <2>5. new = [rs EXCEPT ![r] = x]
    BY ONLY <2>1, <2>2, <2>3
  <2>. QED BY <1>2, <1>4, <2>3, <2>4, <2>5
<1>8. ASSUME NEW c \in Clients, NEW r \in DOMAIN rs,
             NEW approved \in [Lines -> Quantities \cup {0}], ApproveRequest(c, r, approved)
      PROVE  HeldWithin'
  <2>1. PICK old, lines, x :
          /\ old = rs[r].lines /\ lines = ApprovedLines(old, approved)
          /\ x = [rs[r] EXCEPT !.status = "approved", !.lines = lines]
    BY Zenon
  <2>2. /\ RequestMay(rs[r].status, "approved")
        /\ new = [rs EXCEPT ![r].status = "approved", ![r].lines = ApprovedLines(@, approved)]
    BY <1>1, <1>8, Zenon DEF ApproveRequest
  <2>3. old \in [Lines -> Line] /\ \A l \in Lines : old[l].reserved = 0
    <3>1. rs[r].status = "submitted"
      BY <2>2 DEF RequestMay
    <3>. QED BY <1>1, <1>8, <2>1, <3>1, RequestsFacts DEF Approved
  <2>4. approved \in [Lines -> Nat]
    <3>1. Quantities \cup {0} \subseteq Nat
      BY FulfilmentAssumption
    <3>. QED BY <3>1
  <2>5. \A l \in Lines : lines[l].reserved = approved[l]
    BY <2>1, <2>3, <2>4, ApprovedLinesFit
  <2>6. \A l \in Lines : lines[l].approved = approved[l]
    BY ONLY <2>1, <2>3, ApprovedQuantities
  <2>7. x.lines = lines /\ new = [rs EXCEPT ![r] = x]
    <3>1. x.lines = lines
      BY <1>2, <1>8, <2>1 DEF Request
    <3>2. new = [rs EXCEPT ![r] = x]
      BY ONLY <2>1, <2>2, r \in DOMAIN rs
    <3>. QED BY <3>1, <3>2
  <2>8. Within(lines)
    BY <2>4, <2>5, <2>6 DEF Within
  <2>. QED BY <1>4, <1>8, <2>7, <2>8
<1>9. ASSUME NEW c \in Clients, NEW r \in DOMAIN rs, CancelRequest(c, r)
      PROVE  HeldWithin'
  <2>1. PICK old, lines, x :
          /\ old = rs[r].lines /\ lines = CancelledLines(old)
          /\ x = [rs[r] EXCEPT !.status = "cancelled", !.lines = lines]
    BY Zenon
  <2>2. new = [rs EXCEPT ![r].status = "cancelled", ![r].lines = CancelledLines(@)]
    BY <1>1, <1>9, Zenon DEF CancelRequest
  <2>3. old \in [Lines -> Line]
    BY <1>2, <2>1
  <2>4. \A l \in Lines : lines[l].reserved = 0 /\ lines[l].approved \in Nat
    BY <2>1, <2>3 DEF CancelledLines, Line
  <2>5. x.lines = lines /\ new = [rs EXCEPT ![r] = x]
    <3>1. x.lines = lines
      BY <1>2, <1>9, <2>1 DEF Request
    <3>2. new = [rs EXCEPT ![r] = x]
      BY ONLY <2>1, <2>2, r \in DOMAIN rs
    <3>. QED BY <3>1, <3>2
  <2>6. Within(lines)
    BY <2>4 DEF Within
  <2>. QED BY <1>4, <1>9, <2>5, <2>6
<1>10. ASSUME NEW r \in Issuable, NEW delta \in [Lines -> Int], ApplyIssued(r, delta)
       PROVE  HeldWithin'
  <2>1. PICK old, lines, status, x :
          /\ old = rs[r].lines /\ lines = IssuedLines(old, delta)
          /\ status = IssuedStatus(rs[r].status, lines)
          /\ x = [rs[r] EXCEPT !.lines = lines, !.status = status]
    BY Zenon
  <2>2. new = [rs EXCEPT ![r].lines = lines, ![r].status = IssuedStatus(@, lines)]
    BY <1>1, <1>10, <2>1, Zenon DEF ApplyIssued
  <2>3. r \in DOMAIN rs /\ old \in [Lines -> Line] /\ Within(old)
    BY <1>1, <1>2, <2>1 DEF Issuable
  <2>4. PICK gives : gives = Given(old, delta)
    OBVIOUS
  <2>5. /\ lines \in [Lines -> Line] /\ gives \in [Lines -> Nat]
        /\ \A l \in Lines : old[l].reserved = lines[l].reserved + gives[l]
    <3>1. old \in [Lines -> Line] /\ lines = IssuedLines(old, delta)
      BY <2>1, <2>3
    <3>2. /\ lines \in [Lines -> Line] /\ gives \in [Lines -> Nat]
          /\ \A l \in Lines : /\ old[l].reserved = lines[l].reserved + gives[l]
                              /\ lines[l].fulfilled = Max({0, old[l].fulfilled + delta[l]})
      BY ONLY <2>4, <3>1, delta \in [Lines -> Int], IssuedLinesFit
    <3>. QED BY <3>2
  <2>6. \A l \in Lines : lines[l].approved = old[l].approved
    BY ONLY <2>1, <2>3, ApprovedKept
  <2>7. Within(lines)
    <3>. SUFFICES ASSUME NEW l \in Lines PROVE lines[l].reserved <= lines[l].approved
      BY DEF Within
    <3>1. /\ old[l].reserved \in Nat /\ lines[l].reserved \in Nat /\ old[l].approved \in Nat
          /\ old[l].reserved <= old[l].approved /\ gives[l] \in Nat
      BY <2>3, <2>5 DEF Line, Within
    <3>. QED BY <2>5, <2>6, <3>1
  <2>8. x.lines = lines /\ new = [rs EXCEPT ![r] = x]
    <3>1. x.lines = lines
      BY <1>2, <2>1, <2>3 DEF Request
    <3>2. new = [rs EXCEPT ![r] = x]
      BY ONLY <2>1, <2>2, <2>3
    <3>. QED BY <3>1, <3>2
  <2>. QED BY <1>4, <2>3, <2>7, <2>8
<1>11. ASSUME NEW c \in Clients, NEW i \in DOMAIN issues, PostIssue(c, i) \/ ReverseIssue(c, i)
       PROVE  HeldWithin'
  <2>1. PICK items, r : items = issues[i].items /\ r = issues[i].request
    OBVIOUS
  <2>2. items \in Items /\ r \in Issuable
    BY <2>1, IssuesFacts
  <2>3. PICK taken, back : /\ taken = [l \in Lines |-> OfProduct(items, ProductOf[l])]
                           /\ back = [l \in Lines |-> -OfProduct(items, ProductOf[l])]
    BY Zenon
  <2>4. taken \in [Lines -> Int] /\ back \in [Lines -> Int]
    BY <2>2, <2>3, IssuedDelta, ReversedDelta
  <2>5. ApplyIssued(r, taken) \/ ApplyIssued(r, back)
    BY <1>11, <2>1, <2>3, Zenon DEF PostIssue, ReverseIssue
  <2>. QED BY <1>10, <2>2, <2>4, <2>5
<1>12. ASSUME NEW c \in Clients, RequestStep(c)
       PROVE  HeldWithin'
  <2>1. ASSUME NEW r, \/ \E asked : ReadUpdateRequest(c, r, asked)
                      \/ \E to : ReadRequestStatus(c, r, to)
        PROVE  new = rs
    BY <1>1, <2>1, Zenon DEF ReadUpdateRequest, ReadRequestStatus, Read, documents
  <2>. QED BY <1>1, <1>3, <1>5, <1>6, <1>7, <1>8, <1>9, <1>12, <2>1, Zenon DEF RequestStep
<1>13. ASSUME NEW c \in Clients, IssueStep(c)
       PROVE  HeldWithin'
  <2>1. ASSUME \/ \E r : ReadCreateIssue(c, r)
               \/ \E i : \/ \E n, row, picked : ReadUpdateIssue(c, i, n, row, picked)
                         \/ ReadPickIssue(c, i) \/ ReadCancelIssue(c, i)
               \/ SaveCreateIssue(c) \/ SaveUpdateIssue(c) \/ SaveIssueStatus(c)
        PROVE  new = rs
    BY <1>1, <2>1, Zenon DEF ReadCreateIssue, ReadUpdateIssue, ReadPickIssue, ReadCancelIssue,
                             Read, documents, SaveCreateIssue, SaveUpdateIssue, SaveIssueStatus
  <2>. QED BY <1>3, <1>11, <1>13, <2>1, Zenon DEF IssueStep
<1>14. ASSUME NEW c \in Clients, ReturnStep(c)
       PROVE  new = rs
  BY <1>1, <1>14, Zenon DEF ReturnStep, ReadCreateReturn, SaveCreateReturn, PostReturn, Read,
                            documents
<1>15. CASE UNCHANGED vars
  BY <1>1, <1>3, <1>15 DEF vars
<1>. QED BY <1>3, <1>12, <1>13, <1>14, <1>15, Zenon DEF Next

(* Stock is held back only for requests that were approved and not         *)
(* cancelled, and never more than was approved, in whatever order they are *)
(* approved, issued in parts, reversed and cancelled.                      *)
THEOREM HeldAsApproved == Spec /\ NoStaleSave => []HeldOnlyWhenApproved
<1>1. Init => HeldWithin
  BY WithinStart
<1>2. IInv /\ HeldWithin /\ [Next]_vars /\ [\A c \in Clients : Saves(c) => StillAllowed(c)]_vars
         => HeldWithin'
  BY WithinStep
<1>3. IInv /\ HeldWithin => HeldOnlyWhenApproved
  <2> SUFFICES ASSUME IInv, HeldWithin, NEW r \in DOMAIN requests, NEW l \in Lines
               PROVE  /\ requests[r].lines[l].reserved > 0 =>
                            requests[r].status \in {"approved", "partially_fulfilled", "fulfilled"}
                      /\ requests[r].lines[l].reserved <= requests[r].lines[l].approved
    BY DEF HeldOnlyWhenApproved
  <2>1. requests[r].lines[l].reserved <= requests[r].lines[l].approved
    BY DEF HeldWithin, Within
  <2>2. requests[r].status \notin {"approved", "partially_fulfilled", "fulfilled"}
           => requests[r].lines[l].reserved = 0
    BY DEF IInv, RequestsInv
  <2>. QED BY <2>1, <2>2
<1>. QED BY <1>1, <1>2, <1>3, FulfilmentInvariant, PTL DEF Spec, NoStaleSave
=============================================================================
