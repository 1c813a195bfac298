------------------------------- MODULE Sums -------------------------------
(***************************************************************************)
(* Sums of the integers f[x] for x in a finite set S, as                   *)
(* SumFunctionOnSet(f, S) of the community module Functions computes them: *)
(* what the proofs about ledgers and document lines use of them.           *)
(*                                                                         *)
(* The definition recurses over the subsets of S.  Facts for every finite  *)
(* set are proved by contradiction, from a smallest set without the fact;  *)
(* MinimalSubset gives that set, from the library's theorem that inclusion *)
(* is well-founded on finite sets.                                         *)
(***************************************************************************)
EXTENDS Integers, FiniteSets, Functions, FiniteSetTheorems, TLAPS

(* The element that the recursion takes from T first. *)
Chosen(T) == CHOOSE x \in T : TRUE

(* One unfolding of the recursion, with g for the recursive call. *)
SumBody(f, S, g) ==
    [T \in SUBSET S |-> IF T = {} THEN 0 ELSE f[Chosen(T)] + g[T \ {Chosen(T)}]]

(* g is the function from subsets of S to sums that the recursion defines. *)
IsSum(f, S, g) == g = SumBody(f, S, g)

TheSum(f, S) == CHOOSE g : IsSum(f, S, g)

(* The library operator is TheSum. *)
LEMMA SumIsTheSum ==
    ASSUME NEW f, NEW S
    PROVE  SumFunctionOnSet(f, S) = TheSum(f, S)[S]
BY DEF SumFunctionOnSet, FoldFunctionOnSet, MapThenFoldSet, SumBody, Chosen, IsSum, TheSum

(* Of the subsets of a finite set that have a property, one has no smaller. *)
LEMMA MinimalSubset ==
    ASSUME NEW S, IsFiniteSet(S), NEW Bad \in SUBSET SUBSET S, Bad # {}
    PROVE  \E T \in Bad : \A U \in Bad : ~(U \subseteq T /\ U # T)
<1> DEFINE R == StrictSubsetOrdering(S)
<1>1. IsWellFoundedOn(R, FiniteSubsetsOf(S))
    BY FS_StrictSubsetOrderingWellFounded
<1>2. FiniteSubsetsOf(S) = SUBSET S
    BY FS_FiniteSubsetsOfFinite
<1>3. \E T \in Bad : \A U \in Bad : ~(<<U, T>> \in R)
    <2>. HIDE DEF R
    <2>. QED BY <1>1, <1>2, WFMin
<1>. QED BY <1>3 DEF StrictSubsetOrdering

(* Taking the chosen element leaves a strictly smaller set. *)
LEMMA ChosenIn ==
    ASSUME NEW T, T # {}
    PROVE  Chosen(T) \in T /\ T \ {Chosen(T)} \subseteq T /\ T \ {Chosen(T)} # T
<1>1. Chosen(T) \in T BY DEF Chosen
<1>. QED BY <1>1

(* The recursion equation on a nonempty set. *)
LEMMA SumRecursion ==
    ASSUME NEW f, NEW S, NEW g, IsSum(f, S, g), NEW T \in SUBSET S, T # {}
    PROVE  g[T] = f[Chosen(T)] + g[T \ {Chosen(T)}]
BY DEF IsSum, SumBody

(* The recursion ends in 0. *)
LEMMA SumBase ==
    ASSUME NEW f, NEW S, NEW g, IsSum(f, S, g)
    PROVE  g[{}] = 0
BY DEF IsSum, SumBody

(* Two solutions, on a set and on a subset of it, agree on the subset. *)
LEMMA SumUnique ==
    ASSUME NEW f, NEW S, IsFiniteSet(S), NEW U \in SUBSET S,
           NEW g, IsSum(f, S, g), NEW h, IsSum(f, U, h)
    PROVE  \A T \in SUBSET U : g[T] = h[T]
<1> DEFINE Bad == {T \in SUBSET U : g[T] # h[T]}
<1> SUFFICES ASSUME Bad # {} PROVE FALSE
    OBVIOUS
<1>1. PICK T \in Bad : \A V \in Bad : ~(V \subseteq T /\ V # T)
    <2>1. Bad \in SUBSET SUBSET U /\ IsFiniteSet(U)
        BY FS_Subset
    <2>. HIDE DEF Bad
    <2>. QED BY <2>1, MinimalSubset
<1>2. T \in SUBSET U /\ T \in SUBSET S /\ g[T] # h[T]
    BY <1>1
<1>3. CASE T = {}
    BY <1>2, <1>3, SumBase
<1>4. CASE T # {}
    <2> DEFINE V == T \ {Chosen(T)}
    <2>1. V \subseteq T /\ V # T
        BY <1>4, ChosenIn
    <2>2. g[V] = h[V]
        BY <2>1, <1>1, <1>2
    <2>3. g[T] = f[Chosen(T)] + g[V]
        BY <1>4, <1>2, SumRecursion
    <2>4. h[T] = f[Chosen(T)] + h[V]
        <3>1. IsSum(f, U, h) /\ T \in SUBSET U /\ T # {}
            BY <1>4, <1>2
        <3>2. h[T] = f[Chosen(T)] + h[T \ {Chosen(T)}]
            BY <3>1 DEF IsSum, SumBody
        <3>. QED BY <3>2
    <2>. QED BY <2>2, <2>3, <2>4, <1>2
<1>. QED BY <1>3, <1>4

(* The recursion has a solution on every subset of a finite set. *)
LEMMA SumExists ==
    ASSUME NEW f, NEW S, IsFiniteSet(S)
    PROVE  \A T \in SUBSET S : \E g : IsSum(f, T, g)
<1> DEFINE Bad == {T \in SUBSET S : ~ \E g : IsSum(f, T, g)}
<1> SUFFICES ASSUME Bad # {} PROVE FALSE
    OBVIOUS
<1>1. PICK T \in Bad : \A U \in Bad : ~(U \subseteq T /\ U # T)
    <2>1. Bad \in SUBSET SUBSET S
        OBVIOUS
    <2>. HIDE DEF Bad
    <2>. QED BY <2>1, MinimalSubset
<1> DEFINE g == [U \in SUBSET T |-> IF U = {} THEN 0
                   ELSE f[Chosen(U)] + TheSum(f, U \ {Chosen(U)})[U \ {Chosen(U)}]]
<1>2. ASSUME NEW U \in SUBSET T, U # T PROVE IsSum(f, U, TheSum(f, U))
    <2>1. \E h : IsSum(f, U, h)
        BY <1>1, <1>2
    <2>. QED BY <2>1 DEF TheSum
<1>3. ASSUME NEW U \in SUBSET T, U # {}
      PROVE  g[U \ {Chosen(U)}] = TheSum(f, U \ {Chosen(U)})[U \ {Chosen(U)}]
    <2> DEFINE V == U \ {Chosen(U)}
               W == V \ {Chosen(V)}
    <2>0. V \in SUBSET T /\ V # T
        BY <1>3, ChosenIn
    <2>1. IsSum(f, V, TheSum(f, V))
        BY <2>0, <1>2
    <2>2. CASE V = {}
        <3>1. TheSum(f, V)[V] = 0
            BY <2>1, <2>2, SumBase
        <3>. QED BY <3>1, <2>0, <2>2
    <2>3. CASE V # {}
        <3>1. TheSum(f, V)[V] = f[Chosen(V)] + TheSum(f, V)[W]
            <4>1. V \in SUBSET V
                OBVIOUS
            <4>. HIDE DEF V
            <4>. QED BY <4>1, <2>1, <2>3 DEF IsSum, SumBody
        <3>2. W \in SUBSET V /\ W \in SUBSET T /\ W # T
            BY <2>3, <2>0, ChosenIn
        <3>3. IsSum(f, W, TheSum(f, W))
            BY <3>2, <1>2
        <3>4. IsFiniteSet(V)
            BY <2>0, <1>1, FS_Subset
        <3>5. TheSum(f, V)[W] = TheSum(f, W)[W]
            BY <2>1, <3>2, <3>3, <3>4, SumUnique
        <3>6. g[V] = f[Chosen(V)] + TheSum(f, W)[W]
            BY <2>0, <2>3
        <3>. QED BY <3>1, <3>5, <3>6
    <2>. QED BY <2>2, <2>3
<1>4. g = SumBody(f, T, g)
    <2>1. ASSUME NEW U \in SUBSET T
          PROVE  g[U] = IF U = {} THEN 0 ELSE f[Chosen(U)] + g[U \ {Chosen(U)}]
        <3>1. CASE U = {} BY <3>1
        <3>2. CASE U # {}
            <4>1. g[U] = f[Chosen(U)] + TheSum(f, U \ {Chosen(U)})[U \ {Chosen(U)}]
                BY <3>2
            <4>2. g[U \ {Chosen(U)}] = TheSum(f, U \ {Chosen(U)})[U \ {Chosen(U)}]
                BY <3>2, <1>3
            <4>. HIDE DEF g
            <4>. QED BY <4>1, <4>2, <3>2
        <3>. QED BY <3>1, <3>2
    <2>2. g = [U \in SUBSET T |-> g[U]]
        OBVIOUS
    <2>. HIDE DEF g
    <2>. QED BY <2>1, <2>2 DEF SumBody
<1>5. \E h : IsSum(f, T, h)
    <2>. HIDE DEF g
    <2>. QED BY <1>4 DEF IsSum
<1>. QED BY <1>1, <1>5

(* The equations of the sum itself. *)
LEMMA SumUnfold ==
    ASSUME NEW f, NEW S, IsFiniteSet(S)
    PROVE  /\ SumFunctionOnSet(f, {}) = 0
           /\ S # {} => SumFunctionOnSet(f, S)
                          = f[Chosen(S)] + SumFunctionOnSet(f, S \ {Chosen(S)})
<1>1. ASSUME NEW T \in SUBSET S PROVE IsSum(f, T, TheSum(f, T))
    BY SumExists DEF TheSum
<1>2. SumFunctionOnSet(f, {}) = 0
    <2>1. IsSum(f, {}, TheSum(f, {}))
        BY <1>1
    <2>. QED BY <2>1, SumBase, SumIsTheSum
<1>3. ASSUME S # {}
      PROVE  SumFunctionOnSet(f, S) = f[Chosen(S)] + SumFunctionOnSet(f, S \ {Chosen(S)})
    <2> DEFINE V == S \ {Chosen(S)}
    <2>1. S \in SUBSET S /\ V \in SUBSET S /\ V \in SUBSET V
        OBVIOUS
    <2>2. IsSum(f, S, TheSum(f, S)) /\ IsSum(f, V, TheSum(f, V))
        BY <2>1, <1>1
    <2>3. TheSum(f, S)[S] = f[Chosen(S)] + TheSum(f, S)[V]
        <3>. HIDE DEF V
        <3>1. TheSum(f, S)[S] = f[Chosen(S)] + TheSum(f, S)[S \ {Chosen(S)}]
            BY <2>1, <2>2, <1>3 DEF IsSum, SumBody
        <3>. QED BY <3>1 DEF V
    <2>4. TheSum(f, S)[V] = TheSum(f, V)[V]
        <3>. HIDE DEF V
        <3>. QED BY <2>1, <2>2, SumUnique
    <2>. QED BY <2>3, <2>4, SumIsTheSum
<1>. QED BY <1>2, <1>3

(* A sum of integers is an integer. *)
LEMMA SumType ==
    ASSUME NEW S, IsFiniteSet(S), NEW f, \A x \in S : f[x] \in Int
    PROVE  \A T \in SUBSET S : SumFunctionOnSet(f, T) \in Int
<1> DEFINE Bad == {T \in SUBSET S : SumFunctionOnSet(f, T) \notin Int}
<1> SUFFICES ASSUME Bad # {} PROVE FALSE
    OBVIOUS
<1>1. PICK T \in Bad : \A U \in Bad : ~(U \subseteq T /\ U # T)
    <2>1. Bad \in SUBSET SUBSET S
        OBVIOUS
    <2>. HIDE DEF Bad
    <2>. QED BY <2>1, MinimalSubset
<1>2. IsFiniteSet(T) /\ T \in SUBSET S
    BY <1>1, FS_Subset
<1>3. CASE T = {}
    <2>1. SumFunctionOnSet(f, {}) = 0
        BY SumUnfold
    <2>. QED BY <2>1, <1>3, <1>1
<1>4. CASE T # {}
    <2>1. Chosen(T) \in T /\ T \ {Chosen(T)} \subseteq T /\ T \ {Chosen(T)} # T
        BY <1>4, ChosenIn
    <2>2. SumFunctionOnSet(f, T \ {Chosen(T)}) \in Int
        BY <2>1, <1>1, <1>2
    <2>3. f[Chosen(T)] \in Int
        BY <2>1, <1>2
    <2>4. SumFunctionOnSet(f, T) = f[Chosen(T)] + SumFunctionOnSet(f, T \ {Chosen(T)})
        BY <1>2, <1>4, SumUnfold
    <2>. QED BY <2>2, <2>3, <2>4, <1>1
<1>. QED BY <1>3, <1>4

(* The order of a sum does not matter: any element may be taken last. *)
LEMMA SumRemove ==
    ASSUME NEW S, IsFiniteSet(S), NEW f, \A x \in S : f[x] \in Int
    PROVE  \A T \in SUBSET S : \A y \in T :
              SumFunctionOnSet(f, T) = SumFunctionOnSet(f, T \ {y}) + f[y]
<1> DEFINE Sum(T) == SumFunctionOnSet(f, T)
           Bad == {T \in SUBSET S : \E y \in T : Sum(T) # Sum(T \ {y}) + f[y]}
<1> SUFFICES ASSUME Bad # {} PROVE FALSE
    OBVIOUS
<1>1. PICK T \in Bad : \A U \in Bad : ~(U \subseteq T /\ U # T)
    <2>1. Bad \in SUBSET SUBSET S
        OBVIOUS
    <2>. HIDE DEF Bad
    <2>. QED BY <2>1, MinimalSubset
<1>2. PICK y \in T : Sum(T) # Sum(T \ {y}) + f[y]
    BY <1>1
<1> DEFINE c == Chosen(T)
<1>3. c \in T /\ IsFiniteSet(T) /\ T \in SUBSET S
    BY <1>1, <1>2, ChosenIn, FS_Subset
<1>4. \A U \in SUBSET S : Sum(U) \in Int
    BY SumType
<1>5. Sum(T) = f[c] + Sum(T \ {c})
    BY <1>3, SumUnfold
<1>6. f[c] \in Int /\ f[y] \in Int /\ Sum(T \ {c}) \in Int
    BY <1>3, <1>4
<1>. HIDE DEF c
<1>. HIDE DEF Sum, Bad
<1>7. c # y
    <2>1. c = y => Sum(T \ {c}) = Sum(T \ {y}) /\ f[c] = f[y]
        OBVIOUS
    <2>. QED BY <2>1, <1>2, <1>5, <1>6
<1>8. Sum(T \ {c}) = Sum((T \ {c}) \ {y}) + f[y]
    <2>1. T \ {c} \notin Bad
        BY <1>1, <1>3
    <2>. QED BY <2>1, <1>3, <1>7 DEF Bad
<1>9. Sum(T \ {y}) = Sum((T \ {y}) \ {c}) + f[c]
    <2>1. T \ {y} \notin Bad
        BY <1>1, <1>2
    <2>. QED BY <2>1, <1>3, <1>7 DEF Bad
<1>10. (T \ {y}) \ {c} = (T \ {c}) \ {y}
    OBVIOUS
<1>11. Sum((T \ {c}) \ {y}) \in Int
    BY <1>3, <1>4
<1>12. Sum(T \ {y}) + f[y] = f[c] + Sum(T \ {c})
    <2> DEFINE a == Sum((T \ {c}) \ {y})
    <2>1. Sum(T \ {y}) = a + f[c] /\ Sum(T \ {c}) = a + f[y]
        BY <1>8, <1>9, <1>10
    <2>2. a \in Int
        BY <1>11
    <2>. HIDE DEF a
    <2>. QED BY <1>6, <2>1, <2>2
<1>. QED BY <1>2, <1>5, <1>12

-----------------------------------------------------------------------------
(* What the proofs about the model use *)

(* Nothing adds up to 0. *)
LEMMA SumEmpty ==
    ASSUME NEW f
    PROVE  SumFunctionOnSet(f, {}) = 0
BY FS_EmptySet, SumUnfold

(* An element that is added to the set adds its value to the sum. *)
LEMMA SumAdd ==
    ASSUME NEW S, IsFiniteSet(S), NEW y, y \notin S,
           NEW f, \A x \in S \cup {y} : f[x] \in Int
    PROVE  SumFunctionOnSet(f, S \cup {y}) = SumFunctionOnSet(f, S) + f[y]
<1> DEFINE T == S \cup {y}
<1>1. IsFiniteSet(T)
    BY FS_AddElement
<1>2. T \in SUBSET T /\ y \in T /\ T \ {y} = S /\ \A x \in T : f[x] \in Int
    OBVIOUS
<1>. HIDE DEF T
<1>3. SumFunctionOnSet(f, T) = SumFunctionOnSet(f, T \ {y}) + f[y]
    BY <1>1, <1>2, SumRemove
<1>. QED BY <1>2, <1>3 DEF T

(* A sum over a set depends on the values there only. *)
LEMMA SumSame ==
    ASSUME NEW S, IsFiniteSet(S), NEW f, NEW g, \A x \in S : f[x] \in Int /\ g[x] = f[x]
    PROVE  SumFunctionOnSet(f, S) = SumFunctionOnSet(g, S)
<1> DEFINE F(T) == SumFunctionOnSet(f, T)
           G(T) == SumFunctionOnSet(g, T)
           Bad == {T \in SUBSET S : F(T) # G(T)}
<1> SUFFICES ASSUME Bad # {} PROVE FALSE
    OBVIOUS
<1>1. PICK T \in Bad : \A U \in Bad : ~(U \subseteq T /\ U # T)
    <2>1. Bad \in SUBSET SUBSET S
        OBVIOUS
    <2>. HIDE DEF Bad
    <2>. QED BY <2>1, MinimalSubset
<1>2. IsFiniteSet(T) /\ T \in SUBSET S /\ F(T) # G(T)
    BY <1>1, FS_Subset
<1>3. T # {}
    BY <1>2, SumEmpty
<1> DEFINE c == Chosen(T)
<1>4. c \in T /\ T \ {c} \subseteq T /\ T \ {c} # T
    BY <1>3, ChosenIn
<1>5. F(T \ {c}) = G(T \ {c})
    BY <1>1, <1>2, <1>4
<1>6. F(T) = f[c] + F(T \ {c}) /\ G(T) = g[c] + G(T \ {c})
    BY <1>2, <1>3, SumUnfold
<1>. HIDE DEF c, F, G, Bad
<1>. QED BY <1>2, <1>4, <1>5, <1>6

(* A sum of natural numbers is one. *)
LEMMA SumNat ==
    ASSUME NEW S, IsFiniteSet(S), NEW f, \A x \in S : f[x] \in Nat
    PROVE  \A T \in SUBSET S : SumFunctionOnSet(f, T) \in Nat
<1> DEFINE Bad == {T \in SUBSET S : SumFunctionOnSet(f, T) \notin Nat}
<1> SUFFICES ASSUME Bad # {} PROVE FALSE
    OBVIOUS
<1>1. PICK T \in Bad : \A U \in Bad : ~(U \subseteq T /\ U # T)
    <2> Bad \in SUBSET SUBSET S
        OBVIOUS
    <2> HIDE DEF Bad
    <2>. QED BY MinimalSubset
<1>2. T \subseteq S /\ IsFiniteSet(T)
    BY <1>1, FS_Subset
<1>3. T # {}
    <2>1. SumFunctionOnSet(f, {}) = 0
        BY SumEmpty
    <2>2. SumFunctionOnSet(f, T) \notin Nat
        BY <1>1
    <2>. QED BY <2>1, <2>2
<1> DEFINE c == Chosen(T)
<1>4. c \in T /\ T \ {c} \subseteq T /\ T \ {c} # T
    BY <1>3, ChosenIn
<1>5. SumFunctionOnSet(f, T \ {c}) \in Nat
    BY <1>1, <1>2, <1>4
<1>6. SumFunctionOnSet(f, T) = f[c] + SumFunctionOnSet(f, T \ {c})
    BY <1>2, <1>3, SumUnfold
<1>7. f[c] \in Nat
    BY <1>2, <1>4
<1>. HIDE DEF c
<1>8. SumFunctionOnSet(f, T) \in Nat
    BY <1>5, <1>6, <1>7
<1>. QED BY <1>1, <1>8

-----------------------------------------------------------------------------
(* The same for SumFunction, the sum of all values of a function *)

LEMMA TotalEmpty ==
    ASSUME NEW f, DOMAIN f = {}
    PROVE  SumFunction(f) = 0
BY SumEmpty DEF SumFunction

LEMMA TotalNat ==
    ASSUME NEW f, IsFiniteSet(DOMAIN f), \A x \in DOMAIN f : f[x] \in Nat
    PROVE  SumFunction(f) \in Nat
BY SumNat DEF SumFunction

LEMMA TotalInt ==
    ASSUME NEW f, IsFiniteSet(DOMAIN f), \A x \in DOMAIN f : f[x] \in Int
    PROVE  SumFunction(f) \in Int
BY SumType DEF SumFunction

LEMMA TotalSame ==
    ASSUME NEW f, NEW g, IsFiniteSet(DOMAIN f), DOMAIN g = DOMAIN f,
           \A x \in DOMAIN f : f[x] \in Int /\ g[x] = f[x]
    PROVE  SumFunction(g) = SumFunction(f)
BY SumSame DEF SumFunction

LEMMA TotalAdd ==
    ASSUME NEW f, NEW g, IsFiniteSet(DOMAIN f), NEW y, y \notin DOMAIN f,
           DOMAIN g = DOMAIN f \cup {y}, g[y] \in Int,
           \A x \in DOMAIN f : f[x] \in Int /\ g[x] = f[x]
    PROVE  SumFunction(g) = SumFunction(f) + g[y]
<1> DEFINE S == DOMAIN f
<1>1. SumFunctionOnSet(g, S \cup {y}) = SumFunctionOnSet(g, S) + g[y]
    <2>1. \A x \in S \cup {y} : g[x] \in Int
        OBVIOUS
    <2>2. IsFiniteSet(S) /\ y \notin S
        OBVIOUS
    <2>. HIDE DEF S
    <2>. QED BY <2>1, <2>2, SumAdd
<1>2. SumFunctionOnSet(f, S) = SumFunctionOnSet(g, S)
    BY SumSame
<1>. QED BY <1>1, <1>2 DEF SumFunction

(* No value is more than the sum of natural numbers. *)
LEMMA TotalBounds ==
    ASSUME NEW f, IsFiniteSet(DOMAIN f), \A x \in DOMAIN f : f[x] \in Nat
    PROVE  \A y \in DOMAIN f : f[y] <= SumFunction(f)
<1> TAKE y \in DOMAIN f
<1> DEFINE S == DOMAIN f
<1>1. \A x \in S : f[x] \in Int
    OBVIOUS
<1>2. SumFunctionOnSet(f, S) = SumFunctionOnSet(f, S \ {y}) + f[y]
    <2>1. IsFiniteSet(S) /\ y \in S /\ S \in SUBSET S
        OBVIOUS
    <2>. HIDE DEF S
    <2>. QED BY <1>1, <2>1, SumRemove
<1>3. SumFunctionOnSet(f, S \ {y}) \in Nat
    <2>1. S \ {y} \in SUBSET S
        OBVIOUS
    <2>. QED BY <2>1, SumNat
<1>4. f[y] \in Nat
    OBVIOUS
<1>. QED BY <1>2, <1>3, <1>4 DEF SumFunction

-----------------------------------------------------------------------------
(* Sums of changed functions *)

(* Values that add up place by place add up as sums. *)
LEMMA SumPlus ==
    ASSUME NEW S, IsFiniteSet(S), NEW f, NEW g, NEW h,
           \A x \in S : f[x] \in Int /\ g[x] \in Int /\ h[x] = f[x] + g[x]
    PROVE  SumFunctionOnSet(h, S) = SumFunctionOnSet(f, S) + SumFunctionOnSet(g, S)
<1> DEFINE F(T) == SumFunctionOnSet(f, T)
           G(T) == SumFunctionOnSet(g, T)
           H(T) == SumFunctionOnSet(h, T)
           Bad == {T \in SUBSET S : H(T) # F(T) + G(T)}
<1> SUFFICES ASSUME Bad # {} PROVE FALSE
    OBVIOUS
<1>1. PICK T \in Bad : \A U \in Bad : ~(U \subseteq T /\ U # T)
    <2>1. Bad \in SUBSET SUBSET S
        OBVIOUS
    <2>. HIDE DEF Bad
    <2>. QED BY <2>1, MinimalSubset
<1>2. IsFiniteSet(T) /\ T \in SUBSET S /\ H(T) # F(T) + G(T)
    BY <1>1, FS_Subset
<1>3. T # {}
    <2>1. F({}) = 0 /\ G({}) = 0 /\ H({}) = 0
        BY SumEmpty
    <2>2. H({}) = F({}) + G({})
        BY <2>1
    <2>. QED BY <2>2, <1>2
<1> DEFINE c == Chosen(T)
<1>4. c \in T /\ T \ {c} \subseteq T /\ T \ {c} # T
    BY <1>3, ChosenIn
<1>5. H(T \ {c}) = F(T \ {c}) + G(T \ {c})
    BY <1>1, <1>2, <1>4
<1>6. F(T) = f[c] + F(T \ {c}) /\ G(T) = g[c] + G(T \ {c}) /\ H(T) = h[c] + H(T \ {c})
    BY <1>2, <1>3, SumUnfold
<1>7. F(T \ {c}) \in Int /\ G(T \ {c}) \in Int
    BY <1>2, SumType
<1>8. f[c] \in Int /\ g[c] \in Int /\ h[c] = f[c] + g[c]
    BY <1>2, <1>4
<1>. HIDE DEF c, F, G, H, Bad
<1>. QED BY <1>2, <1>5, <1>6, <1>7, <1>8

(* Where all values are 0 there is nothing to add. *)
LEMMA SumZero ==
    ASSUME NEW S, IsFiniteSet(S), NEW f, \A x \in S : f[x] = 0
    PROVE  SumFunctionOnSet(f, S) = 0
<1> DEFINE z == [x \in S |-> 0]
<1>1. SumFunctionOnSet(z, S) = SumFunctionOnSet(z, S) + SumFunctionOnSet(z, S)
    <2>1. \A x \in S : z[x] \in Int /\ z[x] \in Int /\ z[x] = z[x] + z[x]
        OBVIOUS
    <2>. HIDE DEF z
    <2>. QED BY <2>1, SumPlus
<1>2. SumFunctionOnSet(z, S) \in Int
    BY SumType
<1>3. SumFunctionOnSet(z, S) = SumFunctionOnSet(f, S)
    BY SumSame
<1> DEFINE sum == SumFunctionOnSet(z, S)
<1>4. sum = sum + sum /\ sum \in Int
    BY <1>1, <1>2
<1>5. sum = 0
    <2>. HIDE DEF sum
    <2>. QED BY <1>4
<1>. HIDE DEF z
<1>. QED BY <1>3, <1>5

(* Values of 0 outside of a subset do not count. *)
LEMMA SumOutside ==
    ASSUME NEW S, IsFiniteSet(S), NEW U \in SUBSET S, NEW f,
           \A x \in S : f[x] \in Int, \A x \in S \ U : f[x] = 0
    PROVE  SumFunctionOnSet(f, S) = SumFunctionOnSet(f, U)
<1> DEFINE Bad == {T \in SUBSET S : SumFunctionOnSet(f, T) # SumFunctionOnSet(f, T \cap U)}
<1> SUFFICES ASSUME Bad # {} PROVE FALSE
    <2>1. S \cap U = U
        OBVIOUS
    <2>. QED BY <2>1
<1>1. PICK T \in Bad : \A V \in Bad : ~(V \subseteq T /\ V # T)
    <2>1. Bad \in SUBSET SUBSET S
        OBVIOUS
    <2>. HIDE DEF Bad
    <2>. QED BY <2>1, MinimalSubset
<1>2. IsFiniteSet(T) /\ T \in SUBSET S /\ T \cap U \in SUBSET S
    BY <1>1, FS_Subset
<1>3. T \cap U # T
    BY <1>1
<1>4. PICK y \in T : y \notin U
    BY <1>3
<1>5. SumFunctionOnSet(f, T) = SumFunctionOnSet(f, T \ {y}) + f[y]
    BY <1>2, <1>4, SumRemove
<1>6. f[y] = 0 /\ SumFunctionOnSet(f, T \ {y}) \in Int
    BY <1>2, <1>4, SumType
<1>7. SumFunctionOnSet(f, T \ {y}) = SumFunctionOnSet(f, (T \ {y}) \cap U)
    BY <1>1, <1>2, <1>4
<1>8. (T \ {y}) \cap U = T \cap U
    BY <1>4
<1>9. SumFunctionOnSet(f, T) = SumFunctionOnSet(f, T \cap U)
    <2>1. SumFunctionOnSet(f, T) = SumFunctionOnSet(f, T \ {y})
        BY <1>5, <1>6
    <2>. QED BY <2>1, <1>7, <1>8
<1>. QED BY <1>1, <1>9

(* A sum changes by what one value changes. *)
LEMMA SumChange ==
    ASSUME NEW S, IsFiniteSet(S), NEW y \in S, NEW f, NEW g,
           \A x \in S : f[x] \in Int /\ g[x] \in Int,
           \A x \in S \ {y} : g[x] = f[x]
    PROVE  SumFunctionOnSet(g, S) = SumFunctionOnSet(f, S) - f[y] + g[y]
<1> DEFINE F(T) == SumFunctionOnSet(f, T)
           G(T) == SumFunctionOnSet(g, T)
<1>1. F(S) = F(S \ {y}) + f[y] /\ G(S) = G(S \ {y}) + g[y]
    BY SumRemove
<1>2. F(S \ {y}) = G(S \ {y})
    <2>1. IsFiniteSet(S \ {y})
        BY FS_Subset
    <2>. QED BY <2>1, SumSame
<1>3. F(S \ {y}) \in Int
    BY SumType
<1>4. f[y] \in Int /\ g[y] \in Int
    OBVIOUS
<1>. HIDE DEF F, G
<1>5. G(S) = F(S) - f[y] + g[y]
    BY <1>1, <1>2, <1>3, <1>4
<1>. QED BY <1>5 DEF F, G

(* Greater values have the greater sum. *)
LEMMA SumLeq ==
    ASSUME NEW S, IsFiniteSet(S), NEW f, NEW g,
           \A x \in S : f[x] \in Int /\ g[x] \in Int /\ f[x] <= g[x]
    PROVE  SumFunctionOnSet(f, S) <= SumFunctionOnSet(g, S)
<1> DEFINE d == [x \in S |-> g[x] - f[x]]
<1>1. \A x \in S : d[x] \in Nat /\ f[x] \in Int /\ g[x] = f[x] + d[x]
    OBVIOUS
<1>. HIDE DEF d
<1>2. SumFunctionOnSet(g, S) = SumFunctionOnSet(f, S) + SumFunctionOnSet(d, S)
    <2>1. \A x \in S : f[x] \in Int /\ d[x] \in Int /\ g[x] = f[x] + d[x]
        BY <1>1
    <2>. QED BY <2>1, SumPlus
<1>3. SumFunctionOnSet(d, S) \in Nat /\ SumFunctionOnSet(f, S) \in Int
    BY <1>1, SumNat, SumType
<1>. QED BY <1>2, <1>3

(* A sum may be taken over the positions of the elements instead. *)
LEMMA SumImage ==
    ASSUME NEW S, IsFiniteSet(S), NEW at, NEW f, NEW h,
           \A m, n \in S : at[m] = at[n] => m = n,
           \A n \in S : f[at[n]] \in Int /\ h[n] = f[at[n]]
    PROVE  SumFunctionOnSet(h, S) = SumFunctionOnSet(f, {at[n] : n \in S})
<1> DEFINE Image(T) == {at[n] : n \in T}
           Bad == {T \in SUBSET S : ~(/\ IsFiniteSet(Image(T))
                                      /\ SumFunctionOnSet(h, T) = SumFunctionOnSet(f, Image(T)))}
<1> SUFFICES ASSUME Bad # {} PROVE FALSE
    OBVIOUS
<1>1. PICK T \in Bad : \A U \in Bad : ~(U \subseteq T /\ U # T)
    <2>1. Bad \in SUBSET SUBSET S
        OBVIOUS
    <2>. HIDE DEF Bad
    <2>. QED BY <2>1, MinimalSubset
<1>2. IsFiniteSet(T) /\ T \in SUBSET S
    BY <1>1, FS_Subset
<1>3. T # {}
    <2>1. Image({}) = {}
        OBVIOUS
    <2>. QED BY <2>1, <1>1, SumEmpty, FS_EmptySet
<1>4. PICK y \in T : TRUE
    BY <1>3
<1> DEFINE U == T \ {y}
<1>5. IsFiniteSet(Image(U)) /\ SumFunctionOnSet(h, U) = SumFunctionOnSet(f, Image(U))
    <2>1. U \in SUBSET S /\ U \notin Bad
        BY <1>1, <1>4
    <2>. HIDE DEF U, Image
    <2>. QED BY <2>1
<1>6. Image(T) = Image(U) \cup {at[y]} /\ at[y] \notin Image(U)
    BY <1>2, <1>4
<1>7. SumFunctionOnSet(f, Image(T)) = SumFunctionOnSet(f, Image(U)) + f[at[y]]
    <2>1. \A x \in Image(U) \cup {at[y]} : f[x] \in Int
        BY <1>2, <1>4
    <2>. HIDE DEF Image, U
    <2>2. SumFunctionOnSet(f, Image(U) \cup {at[y]}) = SumFunctionOnSet(f, Image(U)) + f[at[y]]
        BY ONLY <1>5, <1>6, <2>1, SumAdd
    <2>. QED BY <1>6, <2>2
<1>8. SumFunctionOnSet(h, T) = SumFunctionOnSet(h, U) + h[y]
    <2>1. \A x \in S : h[x] \in Int
        OBVIOUS
    <2>. QED BY <1>2, <1>4, <2>1, SumRemove
<1>9. h[y] = f[at[y]]
    BY <1>2, <1>4
<1>10. IsFiniteSet(Image(T))
    <2>. HIDE DEF Image, U
    <2>1. IsFiniteSet(Image(U) \cup {at[y]})
        BY ONLY <1>5, FS_AddElement
    <2>. QED BY <1>6, <2>1
<1>. QED BY <1>1, <1>5, <1>7, <1>8, <1>9, <1>10

-----------------------------------------------------------------------------
(* Sums of sums *)

(* Values that are grouped by where they are add up over the groups.       *)
LEMMA SumGrouped ==
    ASSUME NEW S, IsFiniteSet(S), NEW P, IsFiniteSet(P), NEW at, \A n \in S : at[n] \in P,
           NEW f, \A n \in S : f[n] \in Int, NEW share, NEW h,
           \A x \in P : \A n \in S : share[x][n] = IF at[n] = x THEN f[n] ELSE 0,
           \A x \in P : h[x] = SumFunctionOnSet(share[x], S)
    PROVE  SumFunctionOnSet(h, P) = SumFunctionOnSet(f, S)
<1> DEFINE part(T) == [x \in P |-> SumFunctionOnSet(share[x], T)]
           Sum(T) == SumFunctionOnSet(part(T), P)
           Bad == {T \in SUBSET S : Sum(T) # SumFunctionOnSet(f, T)}
<1>1. \A x \in P : \A n \in S : share[x][n] \in Int
    OBVIOUS
<1>2. \A T \in SUBSET S : \A x \in P : part(T)[x] \in Int
    BY <1>1, SumType
<1>3. Bad = {}
    <2> SUFFICES ASSUME Bad # {} PROVE FALSE
        OBVIOUS
    <2>1. PICK T \in Bad : \A U \in Bad : ~(U \subseteq T /\ U # T)
        <3>1. Bad \in SUBSET SUBSET S
            OBVIOUS
        <3>. HIDE DEF Bad
        <3>. QED BY <3>1, MinimalSubset
    <2>2. IsFiniteSet(T) /\ T \in SUBSET S /\ Sum(T) # SumFunctionOnSet(f, T)
        BY <2>1, FS_Subset
    <2>3. T # {}
        <3>1. \A x \in P : part({})[x] = 0
            BY SumEmpty
        <3>2. Sum({}) = 0
            <4>. HIDE DEF part
            <4>. QED BY <3>1, SumZero
        <3>. QED BY <3>2, <2>2, SumEmpty
    <2>4. PICK n : n \in T
        BY <2>3
    <2> DEFINE U == T \ {n}
               one == [x \in P |-> share[x][n]]
    <2>5. U \in SUBSET S /\ U \subseteq T /\ U # T
        BY <2>2, <2>4
    <2>6. Sum(U) = SumFunctionOnSet(f, U)
        BY <2>1, <2>5
    <2>7. Sum(T) = Sum(U) + SumFunctionOnSet(one, P)
        <3>1. \A x \in P : /\ part(U)[x] \in Int /\ one[x] \in Int
                           /\ part(T)[x] = part(U)[x] + one[x]
            <4> TAKE x \in P
            <4>1. SumFunctionOnSet(share[x], T) = SumFunctionOnSet(share[x], U) + share[x][n]
                BY <1>1, <2>2, <2>4, SumRemove
            <4>2. part(U)[x] \in Int
                BY <1>2, <2>5
            <4>3. share[x][n] \in Int
                BY <1>1, <2>2, <2>4
            <4>. QED BY <4>1, <4>2, <4>3
        <3>. HIDE DEF part, one, U
        <3>. QED BY <3>1, SumPlus
    <2>8. SumFunctionOnSet(one, P) = f[n]
        <3>1. at[n] \in P /\ n \in S /\ f[n] \in Int
            BY <2>2, <2>4
        <3>2. \A x \in P : one[x] \in Int /\ (x # at[n] => one[x] = 0)
            BY <1>1, <3>1
        <3>3. one[at[n]] = f[n]
            BY <3>1
        <3>. HIDE DEF one
        <3>4. {at[n]} \in SUBSET P /\ \A x \in P \ {at[n]} : one[x] = 0
            BY <3>1, <3>2
        <3>5. SumFunctionOnSet(one, P) = SumFunctionOnSet(one, {at[n]})
            BY <3>2, <3>4, SumOutside
        <3>6. SumFunctionOnSet(one, {at[n]})
                  = SumFunctionOnSet(one, {at[n]} \ {at[n]}) + one[at[n]]
            BY <3>2, <3>4, SumRemove
        <3>7. SumFunctionOnSet(one, {at[n]} \ {at[n]}) = 0
            <4>1. {at[n]} \ {at[n]} = {}
                OBVIOUS
            <4>. QED BY <4>1, SumEmpty
        <3>8. SumFunctionOnSet(one, {at[n]}) = 0 + f[n]
            BY <3>3, <3>6, <3>7
        <3>. QED BY <3>1, <3>5, <3>8
    <2>9. SumFunctionOnSet(f, T) = SumFunctionOnSet(f, U) + f[n]
        BY <2>2, <2>4, SumRemove
    <2>. QED BY <2>2, <2>6, <2>7, <2>8, <2>9
<1>4. Sum(S) = SumFunctionOnSet(f, S)
    BY <1>3
<1>5. SumFunctionOnSet(h, P) = Sum(S)
    <2>1. \A x \in P : h[x] = part(S)[x] /\ h[x] \in Int
        BY <1>2
    <2>. HIDE DEF part
    <2>. QED BY <2>1, SumSame
<1>. QED BY <1>4, <1>5
=============================================================================
