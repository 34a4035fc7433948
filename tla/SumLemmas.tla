----------------------------- MODULE SumLemmas ------------------------------
(***************************************************************************)
(* Sums over finite sets.  The community modules define them by a          *)
(* recursive function over the subsets of a set; the lemmas below say that *)
(* this function exists, that the order in which it takes the elements     *)
(* does not matter, and how a sum follows the changes of what is added.    *)
(* The induction is that over the subsets of a finite set, with a set in   *)
(* the place of the predicate.                                             *)
(***************************************************************************)
EXTENDS FiniteSetsExt, FiniteSetTheorems, WellFoundedInduction, TLAPS

(* Every subset of a finite set is in G if the subsets with one element    *)
(* less being in G implies it.                                             *)
LEMMA SubsetInduction ==
  ASSUME NEW S, IsFiniteSet(S), NEW G,
         \A T \in SUBSET S : (\A x \in T : T \ {x} \in G) => T \in G
  PROVE  SUBSET S \subseteq G
<1> DEFINE Bad == (SUBSET S) \ G
<1>1. SUFFICES ASSUME Bad # {} PROVE FALSE
  OBVIOUS
<1>2. IsWellFoundedOn(StrictSubsetOrdering(S), SUBSET S)
  BY FS_StrictSubsetOrderingWellFounded, FS_FiniteSubsetsOfFinite
<1>3. PICK T \in Bad : \A U \in Bad : <<U, T>> \notin StrictSubsetOrdering(S)
  <2> HIDE DEF Bad
  <2>1. Bad \subseteq SUBSET S
    BY DEF Bad
  <2>2. QED
    BY <1>1, <1>2, <2>1, WFMin
<1>4. PICK x \in T : T \ {x} \notin G
  BY <1>3
<1>5. T \ {x} \in Bad
  BY <1>3, <1>4
<1>6. <<T \ {x}, T>> \in StrictSubsetOrdering(S)
  BY <1>3, <1>4 DEF StrictSubsetOrdering
<1>7. QED
  BY <1>3, <1>5, <1>6

(* A finite set of integers with an element has a greatest one.            *)
LEMMA MaxIsGreatest ==
  ASSUME NEW S, IsFiniteSet(S), S \subseteq Int, S # {}
  PROVE  Max(S) \in S /\ \A y \in S : y <= Max(S)
<1> DEFINE G == {T \in SUBSET S : T # {} => \E x \in T : \A y \in T : x >= y}
<1>1. ASSUME NEW T \in SUBSET S, \A x \in T : T \ {x} \in G
      PROVE  T \in G
  <2>1. SUFFICES ASSUME T # {} PROVE \E x \in T : \A y \in T : x >= y
    OBVIOUS
  <2>2. PICK z \in T : TRUE
    BY <2>1
  <2>3. z \in Int
    OBVIOUS
  <2>4. CASE T \ {z} = {}
    BY <2>3, <2>4
  <2>5. CASE T \ {z} # {}
    <3>1. PICK x \in T \ {z} : \A y \in T \ {z} : x >= y
      BY <1>1, <2>5
    <3>2. x \in Int /\ \A y \in T : y \in Int
      OBVIOUS
    <3>3. CASE x >= z
      BY <3>1, <3>3
    <3>4. CASE z >= x
      BY <3>1, <3>2, <3>4
    <3>5. QED
      BY <2>3, <3>2, <3>3, <3>4
  <2>6. QED
    BY <2>4, <2>5
<1>2. SUBSET S \subseteq G
  <2> HIDE DEF G
  <2>1. QED
    BY <1>1, SubsetInduction
<1>3. \E x \in S : \A y \in S : x >= y
  BY <1>2
<1>4. Max(S) \in S /\ \A y \in S : Max(S) >= y
  BY <1>3 DEF Max
<1>5. QED
  BY <1>4

-----------------------------------------------------------------------------
Sum(f, S) == MapThenSumSet(LAMBDA x : f[x], S)

(* What the recursive function of a sum is chosen to satisfy.              *)
Pick(S) == CHOOSE x \in S : TRUE

Adds(i, f, S) ==
  i = [T \in SUBSET S |->
         IF T = {} THEN 0 ELSE f[Pick(T)] + i[T \ {Pick(T)}]]

LEMMA SumDef ==
  ASSUME NEW f, NEW S
  PROVE  Sum(f, S) = (CHOOSE i : Adds(i, f, S))[S]
BY DEF Sum, MapThenSumSet, MapThenFoldSet, Adds, Pick

(* The numbers up to n have what 0 has and what a number passes on.        *)
LEMMA NatInductionOverSet ==
  ASSUME NEW G, 0 \in G, \A n \in Nat : n \in G => n + 1 \in G
  PROVE  Nat \subseteq G
<1> DEFINE Bad == Nat \ G
<1>1. SUFFICES ASSUME Bad # {} PROVE FALSE
  OBVIOUS
<1>2. PICK n \in Bad : \A m \in Bad : <<m, n>> \notin OpToRel(<, Nat)
  <2> HIDE DEF Bad
  <2>1. Bad \subseteq Nat
    BY DEF Bad
  <2>2. QED
    BY <1>1, <2>1, NatLessThanWellFounded, WFMin
<1>3. n \in Nat /\ n # 0 /\ n \notin G
  BY <1>2, Zenon
<1>4. n - 1 \notin Bad
  <2>1. <<n - 1, n>> \in OpToRel(<, Nat)
    BY <1>3 DEF OpToRel
  <2>2. QED
    BY <1>2, <2>1
<1>5. n - 1 \in Nat /\ (n - 1) + 1 = n
  BY <1>3
<1>6. n - 1 \in G
  BY <1>4, <1>5, Zenon
<1>7. QED
  BY <1>3, <1>5, <1>6, Zenon

(* The recursive function exists: it is put together from functions that   *)
(* satisfy the equation on the subsets of up to n elements.                *)
LEMMA AddsExists ==
  ASSUME NEW S, IsFiniteSet(S), NEW f \in [S -> Int]
  PROVE  \E i \in [SUBSET S -> Int] : Adds(i, f, S)
<1> DEFINE Next(i, T) == IF T = {} THEN 0 ELSE f[Pick(T)] + i[T \ {Pick(T)}]
           UpTo(i, n) == \A T \in SUBSET S : Cardinality(T) <= n => i[T] = Next(i, T)
           G == {n \in Nat : \E i \in [SUBSET S -> Int] : UpTo(i, n)}
<1>1. \A T \in SUBSET S : IsFiniteSet(T) /\ Cardinality(T) \in Nat
  BY FS_Subset, FS_CardinalityType
<1>2. \A T \in SUBSET S : T # {} =>
        /\ Pick(T) \in T
        /\ T \ {Pick(T)} \in SUBSET S
        /\ Cardinality(T \ {Pick(T)}) = Cardinality(T) - 1
  <2> SUFFICES ASSUME NEW T \in SUBSET S, T # {}
               PROVE  /\ Pick(T) \in T
                      /\ T \ {Pick(T)} \in SUBSET S
                      /\ Cardinality(T \ {Pick(T)}) = Cardinality(T) - 1
    OBVIOUS
  <2>1. Pick(T) \in T
    BY DEF Pick
  <2>2. QED
    BY <1>1, <2>1, FS_RemoveElement
<1>3. \A i \in [SUBSET S -> Int] : \A T \in SUBSET S : Next(i, T) \in Int
  <2> SUFFICES ASSUME NEW i \in [SUBSET S -> Int], NEW T \in SUBSET S
               PROVE  Next(i, T) \in Int
    OBVIOUS
  <2>1. CASE T = {}
    BY <2>1
  <2>2. CASE T # {}
    <3>1. f[Pick(T)] \in Int /\ i[T \ {Pick(T)}] \in Int
      BY <1>2, <2>2
    <3>2. QED
      BY <2>2, <3>1
  <2>3. QED
    BY <2>1, <2>2
<1>4. 0 \in G
  <2> DEFINE i == [T \in SUBSET S |-> 0]
  <2>1. i \in [SUBSET S -> Int]
    OBVIOUS
  <2>2. UpTo(i, 0)
    <3> SUFFICES ASSUME NEW T \in SUBSET S, Cardinality(T) <= 0
                 PROVE  i[T] = Next(i, T)
      OBVIOUS
    <3>1. T = {}
      BY <1>1, FS_EmptySet
    <3>2. QED
      BY <3>1
  <2>3. QED
    BY <2>1, <2>2
<1>5. ASSUME NEW n \in Nat, n \in G
      PROVE  n + 1 \in G
  <2>1. PICK i \in [SUBSET S -> Int] : UpTo(i, n)
    BY <1>5
  <2> DEFINE j == [T \in SUBSET S |-> Next(i, T)]
  <2>2. j \in [SUBSET S -> Int]
    BY <1>3
  <2>3. UpTo(j, n + 1)
    <3> SUFFICES ASSUME NEW T \in SUBSET S, Cardinality(T) <= n + 1
                 PROVE  j[T] = Next(j, T)
      OBVIOUS
    <3>1. CASE T = {}
      BY <3>1
    <3>2. CASE T # {}
      <4>1. Cardinality(T \ {Pick(T)}) <= n /\ T \ {Pick(T)} \in SUBSET S
        BY <1>1, <1>2, <3>2
      <4>2. i[T \ {Pick(T)}] = Next(i, T \ {Pick(T)})
        BY <2>1, <4>1
      <4>3. j[T \ {Pick(T)}] = i[T \ {Pick(T)}]
        BY <4>1, <4>2
      <4>4. QED
        BY <4>3
    <3>3. QED
      BY <3>1, <3>2
  <2>4. \E k \in [SUBSET S -> Int] : UpTo(k, n + 1)
    <3> HIDE DEF UpTo, j
    <3>1. QED
      BY <2>2, <2>3
  <2>5. QED
    BY <2>4
<1>6. Cardinality(S) \in G
  <2> HIDE DEF G
  <2>1. Nat \subseteq G
    BY <1>4, <1>5, NatInductionOverSet
  <2>2. QED
    BY <1>1, <2>1
<1>7. PICK i \in [SUBSET S -> Int] : UpTo(i, Cardinality(S))
  BY <1>6
<1>8. \A T \in SUBSET S : Cardinality(T) <= Cardinality(S)
  BY FS_Subset
<1>9. Adds(i, f, S)
  BY <1>7, <1>8 DEF Adds
<1>10. QED
  BY <1>9

(* It is the only one, whatever larger set the other is defined on.        *)
LEMMA AddsUnique ==
  ASSUME NEW S, IsFiniteSet(S), NEW R, S \subseteq R, NEW f, NEW i, NEW j,
         Adds(i, f, S), Adds(j, f, R)
  PROVE  \A T \in SUBSET S : i[T] = j[T]
<1> DEFINE G == {T \in SUBSET S : i[T] = j[T]}
<1>1. ASSUME NEW T \in SUBSET S, \A x \in T : T \ {x} \in G
      PROVE  T \in G
  <2>1. CASE T = {}
    BY <2>1 DEF Adds
  <2>2. CASE T # {}
    <3>1. Pick(T) \in T
      BY <2>2 DEF Pick
    <3>2. i[T \ {Pick(T)}] = j[T \ {Pick(T)}]
      BY <1>1, <3>1
    <3>3. i[T] = f[Pick(T)] + i[T \ {Pick(T)}]
      BY <2>2 DEF Adds
    <3>4. j[T] = f[Pick(T)] + j[T \ {Pick(T)}]
      BY <2>2 DEF Adds
    <3>5. QED
      BY <3>2, <3>3, <3>4
  <2>3. QED
    BY <2>1, <2>2
<1>2. SUBSET S \subseteq G
  <2> HIDE DEF G
  <2>1. QED
    BY <1>1, SubsetInduction
<1>3. QED
  BY <1>2

LEMMA SumIs ==
  ASSUME NEW R, NEW S \in SUBSET R, IsFiniteSet(S), NEW f, NEW i, Adds(i, f, R)
  PROVE  Sum(f, S) = i[S]
<1> DEFINE j == CHOOSE k : Adds(k, f, S)
<1>1. Adds([T \in SUBSET S |-> i[T]], f, S)
  BY DEF Adds, Pick
<1>2. Adds(j, f, S)
  BY <1>1
<1>3. j[S] = i[S]
  BY <1>2, AddsUnique
<1>4. QED
  BY <1>3, SumDef

InAnyOrder(i, f, S) ==
  \A T \in SUBSET S : \A y \in T : i[T] = f[y] + i[T \ {y}]

LEMMA AddsAnyOrder ==
  ASSUME NEW S, IsFiniteSet(S), NEW f, f \in [S -> Int]
  PROVE  \E i \in [SUBSET S -> Int] : Adds(i, f, S) /\ InAnyOrder(i, f, S)
<1>1. PICK i : i \in [SUBSET S -> Int] /\ Adds(i, f, S)
  BY AddsExists
<1> DEFINE G == {T \in SUBSET S : \A y \in T : i[T] = f[y] + i[T \ {y}]}
<1>2. ASSUME NEW T \in SUBSET S, \A y \in T : T \ {y} \in G
      PROVE  T \in G
  <2>1. SUFFICES ASSUME NEW y \in T PROVE i[T] = f[y] + i[T \ {y}]
    OBVIOUS
  <2>2. Pick(T) \in T
    BY DEF Pick
  <2>3. i[T] = f[Pick(T)] + i[T \ {Pick(T)}]
    BY <1>1, <2>2 DEF Adds
  <2>4. CASE y = Pick(T)
    BY <2>3, <2>4
  <2>5. CASE y # Pick(T)
    <3>1. i[T \ {Pick(T)}] = f[y] + i[(T \ {Pick(T)}) \ {y}]
      BY <1>2, <2>2, <2>5
    <3>2. (T \ {Pick(T)}) \ {y} = (T \ {y}) \ {Pick(T)}
      OBVIOUS
    <3>3. i[T \ {y}] = f[Pick(T)] + i[(T \ {y}) \ {Pick(T)}]
      BY <1>2, <2>2, <2>5
    <3>4. i[T \ {y}] = f[Pick(T)] + i[(T \ {Pick(T)}) \ {y}]
      BY <3>2, <3>3, Zenon
    <3>5. /\ f[y] \in Int /\ f[Pick(T)] \in Int
          /\ i[(T \ {Pick(T)}) \ {y}] \in Int
      BY <1>1, <2>2
    <3>6. QED
      BY <2>3, <3>1, <3>4, <3>5
  <2>6. QED
    BY <2>4, <2>5
<1>3. SUBSET S \subseteq G
  <2> HIDE DEF G
  <2>1. QED
    BY ONLY <1>2, IsFiniteSet(S), SubsetInduction
<1>4. QED
  BY <1>1, <1>3 DEF InAnyOrder

-----------------------------------------------------------------------------
(* The laws of sums, for functions of a finite set R to the integers and   *)
(* subsets of R.                                                           *)
LEMMA SumType ==
  ASSUME NEW R, IsFiniteSet(R), NEW f \in [R -> Int], NEW S \in SUBSET R
  PROVE  Sum(f, S) \in Int
<1>1. PICK i \in [SUBSET R -> Int] : Adds(i, f, R)
  BY AddsExists
<1>2. IsFiniteSet(S)
  BY FS_Subset
<1>3. QED
  BY <1>1, <1>2, SumIs

LEMMA SumEmpty ==
  ASSUME NEW R, IsFiniteSet(R), NEW f \in [R -> Int]
  PROVE  Sum(f, {}) = 0
<1>1. PICK i \in [SUBSET R -> Int] : Adds(i, f, R)
  BY AddsExists
<1>2. Sum(f, {}) = i[{}]
  BY <1>1, FS_EmptySet, SumIs
<1>3. i[{}] = 0
  BY <1>1 DEF Adds
<1>4. QED
  BY <1>2, <1>3

(* The elements may be taken in any order.                                 *)
LEMMA SumRemove ==
  ASSUME NEW R, IsFiniteSet(R), NEW f \in [R -> Int], NEW S \in SUBSET R,
         NEW x \in S
  PROVE  Sum(f, S) = f[x] + Sum(f, S \ {x})
<1>1. PICK i \in [SUBSET R -> Int] : Adds(i, f, R) /\ InAnyOrder(i, f, R)
  BY AddsAnyOrder
<1>2. i[S] = f[x] + i[S \ {x}]
  BY <1>1 DEF InAnyOrder
<1>3. IsFiniteSet(S) /\ IsFiniteSet(S \ {x})
  BY FS_Subset
<1>4. Sum(f, S) = i[S]
  BY <1>1, <1>3, SumIs
<1>5. Sum(f, S \ {x}) = i[S \ {x}]
  BY <1>1, <1>3, SumIs
<1>6. QED
  BY <1>2, <1>4, <1>5

LEMMA SumAdd ==
  ASSUME NEW R, IsFiniteSet(R), NEW f \in [R -> Int], NEW S \in SUBSET R,
         NEW x \in R \ S
  PROVE  Sum(f, S \cup {x}) = Sum(f, S) + f[x]
<1>1. (S \cup {x}) \ {x} = S
  OBVIOUS
<1>2. Sum(f, S \cup {x}) = f[x] + Sum(f, S)
  <2>1. Sum(f, S \cup {x}) = f[x] + Sum(f, (S \cup {x}) \ {x})
    BY SumRemove
  <2>2. QED
    BY <1>1, <2>1, Zenon
<1>3. Sum(f, S) \in Int /\ f[x] \in Int
  BY SumType
<1>4. QED
  BY <1>2, <1>3

(* Less added gives less, ...                                              *)
LEMMA SumMonotone ==
  ASSUME NEW R, IsFiniteSet(R), NEW f \in [R -> Int], NEW g \in [R -> Int],
         NEW S \in SUBSET R, \A x \in S : f[x] <= g[x]
  PROVE  Sum(f, S) <= Sum(g, S)
<1> DEFINE G == {T \in SUBSET S : Sum(f, T) <= Sum(g, T)}
<1>1. IsFiniteSet(S)
  BY FS_Subset
<1>2. ASSUME NEW T \in SUBSET S, \A y \in T : T \ {y} \in G
      PROVE  T \in G
  <2>1. CASE T = {}
    <3>1. Sum(f, {}) = 0 /\ Sum(g, {}) = 0
      BY SumEmpty
    <3>2. QED
      BY <2>1, <3>1
  <2>2. CASE T # {}
    <3>1. PICK y \in T : TRUE
      BY <2>2
    <3>2. Sum(f, T) = f[y] + Sum(f, T \ {y}) /\ Sum(g, T) = g[y] + Sum(g, T \ {y})
      BY SumRemove
    <3>3. Sum(f, T \ {y}) \in Int /\ Sum(g, T \ {y}) \in Int
      BY SumType
    <3>4. Sum(f, T \ {y}) <= Sum(g, T \ {y})
      BY <1>2
    <3>5. f[y] \in Int /\ g[y] \in Int /\ f[y] <= g[y]
      OBVIOUS
    <3>6. Sum(f, T) <= Sum(g, T)
      BY <3>2, <3>3, <3>4, <3>5
    <3>7. QED
      BY <3>6
  <2>3. QED
    BY <2>1, <2>2
<1>3. S \in G
  <2> HIDE DEF G
  <2>1. QED
    BY <1>1, <1>2, SubsetInduction
<1>4. QED
  BY <1>3

(* ... nothing added nothing, ...                                          *)
LEMMA SumZero ==
  ASSUME NEW R, IsFiniteSet(R), NEW f \in [R -> Int], NEW S \in SUBSET R,
         \A x \in S : f[x] = 0
  PROVE  Sum(f, S) = 0
<1> DEFINE G == {T \in SUBSET S : Sum(f, T) = 0}
<1>1. IsFiniteSet(S)
  BY FS_Subset
<1>2. ASSUME NEW T \in SUBSET S, \A y \in T : T \ {y} \in G
      PROVE  T \in G
  <2>1. CASE T = {}
    BY <2>1, SumEmpty
  <2>2. CASE T # {}
    <3>1. PICK y \in T : TRUE
      BY <2>2
    <3>2. Sum(f, T) = f[y] + Sum(f, T \ {y})
      BY SumRemove
    <3>3. Sum(f, T \ {y}) = 0 /\ f[y] = 0
      BY <1>2
    <3>4. QED
      BY <3>2, <3>3
  <2>3. QED
    BY <2>1, <2>2
<1>3. S \in G
  <2> HIDE DEF G
  <2>1. QED
    BY <1>1, <1>2, SubsetInduction
<1>4. QED
  BY <1>3

(* ... and a change at one place changes the sum by as much.               *)
LEMMA SumChange ==
  ASSUME NEW R, IsFiniteSet(R), NEW f \in [R -> Int], NEW g \in [R -> Int],
         NEW S \in SUBSET R, NEW p \in S, \A x \in S \ {p} : f[x] = g[x]
  PROVE  Sum(g, S) = Sum(f, S) - f[p] + g[p]
<1>1. Sum(f, S) = f[p] + Sum(f, S \ {p}) /\ Sum(g, S) = g[p] + Sum(g, S \ {p})
  BY SumRemove
<1>2. Sum(f, S \ {p}) \in Int /\ Sum(g, S \ {p}) \in Int
  BY SumType
<1>3. \A x \in S \ {p} : f[x] \in Int /\ g[x] \in Int /\ f[x] <= g[x] /\ g[x] <= f[x]
  OBVIOUS
<1>4. Sum(f, S \ {p}) <= Sum(g, S \ {p})
  BY <1>3, SumMonotone
<1>5. Sum(g, S \ {p}) <= Sum(f, S \ {p})
  BY <1>3, SumMonotone
<1>6. f[p] \in Int /\ g[p] \in Int
  OBVIOUS
<1>7. QED
  BY <1>1, <1>2, <1>4, <1>5, <1>6
=============================================================================
