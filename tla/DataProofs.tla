------------------------------ MODULE DataProofs -----------------------------
(***************************************************************************)
(* Facts about sums and lists that the other proofs rest on.  The          *)
(* library's induction theorems take an operator as a parameter, which the *)
(* provers cannot instantiate.  Here a set of good elements stands for the *)
(* predicate, so that an induction is the instance of a first-order lemma. *)
(* Its proof takes a minimal element of those that are not good: WFMin.    *)
(***************************************************************************)
EXTENDS Sums, Lists, SequenceTheorems, FiniteSetTheorems, WellFoundedInduction, NaturalsInduction, TLAPS

-----------------------------------------------------------------------------
(* Induction *)

\* A set of good sets that has every subset of S whose strict subsets it has
\* has all subsets of S.
LEMMA SubsetInduction ==
    ASSUME NEW S, IsFiniteSet(S), NEW Good,
           \A T \in SUBSET S : (\A U \in SUBSET T : U # T => U \in Good) => T \in Good
    PROVE  \A T \in SUBSET S : T \in Good
  <1>. DEFINE Bad == {T \in SUBSET S : T \notin Good}
  <1>1. IsWellFoundedOn(StrictSubsetOrdering(S), SUBSET S)
    BY FS_StrictSubsetOrderingWellFounded, FS_FiniteSubsetsOfFinite, Zenon
  <1>2. SUFFICES ASSUME Bad # {} PROVE FALSE
    BY Zenon
  <1>3. PICK T \in Bad : \A U \in Bad : <<U, T>> \notin StrictSubsetOrdering(S)
    <2>. HIDE DEF Bad
    <2>1. Bad \subseteq SUBSET S
      BY Zenon DEF Bad
    <2>. QED
      BY <1>1, <1>2, <2>1, WFMin
  <1>4. T \in SUBSET S /\ T \notin Good
    BY <1>3
  <1>5. ASSUME NEW U \in SUBSET T, U # T PROVE U \in Good
    <2>1. <<U, T>> \in StrictSubsetOrdering(S)
      BY <1>4, <1>5, SMT DEF StrictSubsetOrdering
    <2>. QED
      BY <2>1, <1>3, <1>4, <1>5, Zenon
  <1>. QED
    BY <1>4, <1>5, Zenon

\* A set that has 0, and the successor of every natural number it has, has
\* all natural numbers.
LEMMA CountInduction ==
    ASSUME NEW Good, 0 \in Good, \A n \in Nat : n \in Good => n + 1 \in Good
    PROVE  \A n \in Nat : n \in Good
  <1>. DEFINE Bad == {n \in Nat : n \notin Good}
  <1>1. SUFFICES ASSUME Bad # {} PROVE FALSE
    BY Zenon
  <1>2. PICK n \in Bad : \A m \in Bad : <<m, n>> \notin OpToRel(<, Nat)
    <2>. HIDE DEF Bad
    <2>1. Bad \subseteq Nat
      BY Zenon DEF Bad
    <2>. QED
      BY <1>1, <2>1, WFMin, NatLessThanWellFounded
  <1>3. n \in Nat /\ n \notin Good /\ n # 0
    BY <1>2
  <1>4. n - 1 \in Nat /\ n - 1 < n
    BY <1>3
  <1>5. n - 1 \in Good
    <2>1. OpToRel(<, Nat) = {ss \in Nat \X Nat : ss[1] < ss[2]}
      BY Zenon DEF OpToRel
    <2>2. <<n - 1, n>> \in OpToRel(<, Nat)
      BY <2>1, <1>3, <1>4
    <2>. QED
      BY <1>2, <1>3, <1>4, <2>2, Zenon
  <1>. QED
    BY <1>3, <1>4, <1>5

-----------------------------------------------------------------------------
(* Sum is well defined *)

Pick(T) == CHOOSE x \in T : TRUE

\* The equation that the sums over the subsets of a set satisfy, the subsets of
\* at most n elements, and what a table of the sums is a fixed point of
Equation(f, T, sum) == sum[T] = IF T = {} THEN 0 ELSE f[Pick(T)] + sum[T \ {Pick(T)}]
Below(S, n) == {T \in SUBSET S : Cardinality(T) <= n}
Table(f, S, sum) == [T \in SUBSET S |-> IF T = {} THEN 0 ELSE f[Pick(T)] + sum[T \ {Pick(T)}]]

\* What is picked from a set is in it.
LEMMA PickIn == \A T : T # {} => Pick(T) \in T
  BY Zenon DEF Pick

\* Sums for the subsets of at most n elements give those for one more.
LEMMA TableGrows ==
    ASSUME NEW S, IsFiniteSet(S), NEW f, \A x \in S : f[x] \in Int, NEW n \in Nat,
           NEW g \in [SUBSET S -> Int], \A T \in Below(S, n) : Equation(f, T, g)
    PROVE  \E h \in [SUBSET S -> Int] : \A T \in Below(S, n + 1) : Equation(f, T, h)
  <1>. DEFINE value(T) == IF T \in Below(S, n) THEN g[T]
                          ELSE IF T = {} THEN 0 ELSE f[Pick(T)] + g[T \ {Pick(T)}]
              h == [T \in SUBSET S |-> value(T)]
  <1>1. ASSUME NEW T \in SUBSET S PROVE value(T) \in Int
    <2>1. CASE T \in Below(S, n)
      BY <2>1
    <2>2. CASE T \notin Below(S, n) /\ T = {}
      BY <2>2
    <2>3. CASE T \notin Below(S, n) /\ T # {}
      <3>1. f[Pick(T)] \in Int
        BY <2>3, PickIn
      <3>2. g[T \ {Pick(T)}] \in Int
        OBVIOUS
      <3>. QED
        BY <2>3, <3>1, <3>2
    <2>. QED
      BY <2>1, <2>2, <2>3, Zenon
  <1>2. h \in [SUBSET S -> Int]
    BY <1>1, Zenon
  <1>3. ASSUME NEW T \in Below(S, n + 1), T # {} PROVE T \ {Pick(T)} \in Below(S, n)
    <2>1. T \in SUBSET S /\ Pick(T) \in T /\ Cardinality(T) <= n + 1
      BY PickIn, <1>3 DEF Below
    <2>2. IsFiniteSet(T) /\ Cardinality(T) \in Nat
      BY <2>1, FS_Subset, FS_CardinalityType, Zenon
    <2>3. Cardinality(T \ {Pick(T)}) = Cardinality(T) - 1
      BY <2>1, <2>2, FS_RemoveElement, Zenon
    <2>4. Cardinality(T \ {Pick(T)}) <= n
      BY <2>1, <2>2, <2>3
    <2>. QED
      BY <2>1, <2>4 DEF Below
  <1>4. ASSUME NEW T \in Below(S, n + 1) PROVE Equation(f, T, h)
    <2>1. T \in SUBSET S
      BY DEF Below
    <2>2. CASE T = {}
      BY <2>1, <2>2 DEF Equation
    <2>3. CASE T # {}
      <3>1. T \ {Pick(T)} \in Below(S, n)
        BY <1>3, <2>3
      <3>2. h[T \ {Pick(T)}] = g[T \ {Pick(T)}]
        BY <3>1 DEF Below
      <3>3. h[T] = f[Pick(T)] + g[T \ {Pick(T)}]
        BY <2>1, <2>3 DEF Equation
      <3>. HIDE DEF h
      <3>. QED
        BY <3>2, <3>3, <2>3 DEF Equation
    <2>. QED
      BY <2>2, <2>3
  <1>. HIDE DEF h
  <1>. QED
    BY <1>2, <1>4, Zenon

\* The sums over all subsets of a finite set exist.
LEMMA TableExists ==
    ASSUME NEW S, IsFiniteSet(S), NEW f, \A x \in S : f[x] \in Int
    PROVE  \E g \in [SUBSET S -> Int] : g = Table(f, S, g)
  <1>. DEFINE Good == {n \in Nat : \E g \in [SUBSET S -> Int] :
                                      \A T \in Below(S, n) : Equation(f, T, g)}
  <1>1. 0 \in Good
    <2>. DEFINE zero == [T \in SUBSET S |-> 0]
    <2>1. ASSUME NEW T \in Below(S, 0) PROVE T = {} /\ T \in SUBSET S
      <3>1. T \in SUBSET S /\ Cardinality(T) <= 0
        BY DEF Below
      <3>2. IsFiniteSet(T) /\ Cardinality(T) \in Nat
        BY <3>1, FS_Subset, FS_CardinalityType, Zenon
      <3>. QED
        BY <3>1, <3>2, FS_EmptySet
    <2>2. zero \in [SUBSET S -> Int]
      OBVIOUS
    <2>3. \A T \in Below(S, 0) : Equation(f, T, zero)
      BY <2>1 DEF Equation
    <2>. QED
      BY <2>2, <2>3
  <1>2. ASSUME NEW n \in Nat, n \in Good PROVE n + 1 \in Good
    <2>1. PICK g \in [SUBSET S -> Int] : \A T \in Below(S, n) : Equation(f, T, g)
      BY <1>2
    <2>2. \E h \in [SUBSET S -> Int] : \A T \in Below(S, n + 1) : Equation(f, T, h)
      BY <2>1, TableGrows, Zenon
    <2>. QED
      BY <2>2
  <1>3. \A n \in Nat : n \in Good
    <2>. HIDE DEF Good
    <2>. QED
      BY <1>1, <1>2, CountInduction, Zenon
  <1>4. Cardinality(S) \in Nat
    BY FS_CardinalityType
  <1>5. PICK g \in [SUBSET S -> Int] : \A T \in Below(S, Cardinality(S)) : Equation(f, T, g)
    BY <1>3, <1>4
  <1>6. ASSUME NEW T \in SUBSET S PROVE T \in Below(S, Cardinality(S))
    BY FS_Subset DEF Below
  <1>7. g = Table(f, S, g)
    BY <1>5, <1>6 DEF Table, Equation
  <1>. QED
    BY <1>7

\* Two tables of sums agree.
LEMMA TablesAgree ==
    ASSUME NEW f, NEW S, IsFiniteSet(S), NEW T \in SUBSET S,
           NEW g, g = Table(f, S, g), NEW h, h = Table(f, T, h)
    PROVE  \A U \in SUBSET T : g[U] = h[U]
  <1>. DEFINE Good == {U \in SUBSET T : g[U] = h[U]}
  <1>1. ASSUME NEW U \in SUBSET T, \A V \in SUBSET U : V # U => V \in Good
        PROVE  U \in Good
    <2>1. /\ g[U] = IF U = {} THEN 0 ELSE f[Pick(U)] + g[U \ {Pick(U)}]
          /\ h[U] = IF U = {} THEN 0 ELSE f[Pick(U)] + h[U \ {Pick(U)}]
      BY DEF Table
    <2>2. CASE U = {}
      BY <2>1, <2>2
    <2>3. CASE U # {}
      <3>1. U \ {Pick(U)} \in Good
        BY <1>1, <2>3, PickIn
      <3>. QED
        BY <2>1, <2>3, <3>1
    <2>. QED
      BY <2>2, <2>3
  <1>2. IsFiniteSet(T)
    BY FS_Subset
  <1>3. \A U \in SUBSET T : U \in Good
    <2>. HIDE DEF Good
    <2>. QED
      BY <1>1, <1>2, SubsetInduction, Zenon
  <1>. QED
    BY <1>3

\* g tells the sums of f over the subsets of S.
SumsOf(f, S, g) ==
    g \in [SUBSET S -> Int] /\ g = Table(f, S, g) /\ \A T \in SUBSET S : Sum(f, T) = g[T]

\* The sum over a finite set is given by its table of sums.
LEMMA SumTable ==
    ASSUME NEW S, IsFiniteSet(S), NEW f, \A x \in S : f[x] \in Int
    PROVE  \E g : SumsOf(f, S, g)
  <1>1. PICK g \in [SUBSET S -> Int] : g = Table(f, S, g)
    BY TableExists, Zenon
  <1>2. ASSUME NEW T \in SUBSET S PROVE Sum(f, T) = g[T]
    <2>. DEFINE h == CHOOSE sum : sum = Table(f, T, sum)
    <2>1. Sum(f, T) = h[T]
      BY Zenon DEF Sum, MapThenSumSet, MapThenFoldSet, Pick, Table
    <2>2. IsFiniteSet(T) /\ \A x \in T : f[x] \in Int
      BY FS_Subset
    <2>3. h = Table(f, T, h)
      BY TableExists, <2>2, Zenon
    <2>. HIDE DEF h
    <2>4. g[T] = h[T]
      <3>1. \A U \in SUBSET T : g[U] = h[U]
        BY <1>1, <2>3, TablesAgree
      <3>. QED
        BY <3>1
    <2>. QED
      BY <2>1, <2>4
  <1>3. SumsOf(f, S, g)
    BY <1>1, <1>2 DEF SumsOf
  <1>. QED
    BY <1>3

-----------------------------------------------------------------------------
(* What a sum is *)

\* The sum over no element is 0.
LEMMA SumEmpty == \A f : Sum(f, {}) = 0
  <1>. SUFFICES ASSUME NEW f PROVE Sum(f, {}) = 0
    OBVIOUS
  <1>1. PICK g : SumsOf(f, {}, g)
    BY SumTable, FS_EmptySet
  <1>. QED
    BY <1>1 DEF SumsOf, Table

\* A sum of integers is an integer.
LEMMA SumInt ==
    ASSUME NEW S, IsFiniteSet(S), NEW f, \A x \in S : f[x] \in Int
    PROVE  Sum(f, S) \in Int
  <1>1. PICK g : SumsOf(f, S, g)
    BY SumTable
  <1>. QED
    BY <1>1 DEF SumsOf

\* Any element may be the one that is taken out of a sum.
LEMMA SumRemove ==
    ASSUME NEW S, IsFiniteSet(S), NEW f, \A x \in S : f[x] \in Int, NEW x \in S
    PROVE  Sum(f, S) = f[x] + Sum(f, S \ {x})
  <1>0. PICK g : SumsOf(f, S, g)
    BY SumTable
  <1>1. /\ g \in [SUBSET S -> Int] /\ g = Table(f, S, g)
        /\ \A T \in SUBSET S : Sum(f, T) = g[T]
    BY <1>0 DEF SumsOf
  <1>2. ASSUME NEW T \in SUBSET S, T # {}
        PROVE  g[T] = f[Pick(T)] + g[T \ {Pick(T)}] /\ Pick(T) \in T
    BY <1>1, <1>2, PickIn DEF Table
  <1>. DEFINE Good == {T \in SUBSET S : \A y \in T : g[T] = f[y] + g[T \ {y}]}
  <1>3. ASSUME NEW T \in SUBSET S, \A U \in SUBSET T : U # T => U \in Good,
               NEW y \in T
        PROVE  g[T] = f[y] + g[T \ {y}]
    <2>. DEFINE p == Pick(T)
    <2>1. g[T] = f[p] + g[T \ {p}] /\ p \in T
      BY <1>2
    <2>. HIDE DEF p
    <2>2. CASE y = p
      BY <2>1, <2>2
    <2>3. CASE y # p
      <3>1. g[T \ {p}] = f[y] + g[(T \ {p}) \ {y}]
        <4>1. T \ {p} \in Good /\ y \in T \ {p}
          BY <1>3, <2>1, <2>3
        <4>. QED
          BY <4>1
      <3>2. g[T \ {y}] = f[p] + g[(T \ {y}) \ {p}]
        <4>1. T \ {y} \in Good /\ p \in T \ {y}
          BY <1>3, <2>1, <2>3
        <4>. QED
          BY <4>1
      <3>3. (T \ {p}) \ {y} = (T \ {y}) \ {p}
        OBVIOUS
      <3>4. f[p] \in Int /\ f[y] \in Int /\ g[(T \ {p}) \ {y}] \in Int
        BY <1>1, <2>1
      <3>5. g[T] = f[p] + (f[y] + g[(T \ {p}) \ {y}])
        BY <2>1, <3>1
      <3>6. g[T \ {y}] = f[p] + g[(T \ {p}) \ {y}]
        BY <3>2, <3>3
      <3>. QED
        BY <3>4, <3>5, <3>6
    <2>. QED
      BY <2>2, <2>3
  <1>4. ASSUME NEW T \in SUBSET S, \A U \in SUBSET T : U # T => U \in Good
        PROVE  T \in Good
    BY <1>3, <1>4
  <1>5. \A T \in SUBSET S : T \in Good
    <2>. HIDE DEF Good
    <2>. QED
      BY <1>4, SubsetInduction, Zenon
  <1>6. S \in Good
    BY <1>5
  <1>. QED
    BY <1>1, <1>6

\* An element that is not yet there adds its value.
LEMMA SumInsert ==
    ASSUME NEW S, IsFiniteSet(S), NEW f, \A y \in S : f[y] \in Int,
           NEW x, x \notin S, f[x] \in Int
    PROVE  Sum(f, S \cup {x}) = Sum(f, S) + f[x]
  <1>1. IsFiniteSet(S \cup {x}) /\ (S \cup {x}) \ {x} = S
    BY FS_AddElement
  <1>2. Sum(f, S \cup {x}) = f[x] + Sum(f, S)
    BY <1>1, SumRemove
  <1>3. Sum(f, S) \in Int
    BY SumInt
  <1>. QED
    BY <1>2, <1>3

\* An order between two sums follows from one between their terms.
LEMMA SumMonotone ==
    ASSUME NEW S, IsFiniteSet(S),
           NEW f, \A x \in S : f[x] \in Int, NEW g, \A x \in S : g[x] \in Int,
           \A x \in S : f[x] <= g[x]
    PROVE  Sum(f, S) <= Sum(g, S)
  <1>. DEFINE Good == {T \in SUBSET S : Sum(f, T) <= Sum(g, T)}
  <1>1. ASSUME NEW T \in SUBSET S, \A U \in SUBSET T : U # T => U \in Good
        PROVE  T \in Good
    <2>1. CASE T = {}
      BY <2>1, SumEmpty
    <2>2. CASE T # {}
      <3>1. PICK x \in T : TRUE
        BY <2>2
      <3>2. IsFiniteSet(T) /\ IsFiniteSet(T \ {x}) /\ T \ {x} \in Good
        BY <1>1, <3>1, FS_Subset
      <3>3. Sum(f, T) = f[x] + Sum(f, T \ {x}) /\ Sum(g, T) = g[x] + Sum(g, T \ {x})
        BY <3>2, SumRemove
      <3>4. Sum(f, T \ {x}) \in Int /\ Sum(g, T \ {x}) \in Int
        BY <3>2, SumInt
      <3>5. f[x] \in Int /\ g[x] \in Int /\ f[x] <= g[x] /\ Sum(f, T \ {x}) <= Sum(g, T \ {x})
        BY <3>2
      <3>. QED
        BY <3>3, <3>4, <3>5
    <2>. QED
      BY <2>1, <2>2
  <1>2. \A T \in SUBSET S : T \in Good
    <2>. HIDE DEF Good
    <2>. QED
      BY <1>1, SubsetInduction, Zenon
  <1>. QED
    BY <1>2

\* Equal terms have equal sums.
LEMMA SumEqual ==
    ASSUME NEW S, IsFiniteSet(S), NEW f, \A x \in S : f[x] \in Int,
           NEW g, \A x \in S : g[x] = f[x]
    PROVE  Sum(g, S) = Sum(f, S)
  <1>1. Sum(f, S) <= Sum(g, S) /\ Sum(g, S) <= Sum(f, S)
    BY SumMonotone
  <1>2. Sum(f, S) \in Int /\ Sum(g, S) \in Int
    BY SumInt
  <1>. QED
    BY <1>1, <1>2

\* When one term changes, the sum changes by as much.
LEMMA SumChange ==
    ASSUME NEW S, IsFiniteSet(S), NEW f, \A y \in S : f[y] \in Int,
           NEW g, \A y \in S : g[y] \in Int,
           NEW x \in S, \A y \in S \ {x} : g[y] = f[y]
    PROVE  Sum(g, S) = Sum(f, S) + (g[x] - f[x])
  <1>1. IsFiniteSet(S \ {x})
    BY FS_Subset
  <1>2. Sum(f, S) = f[x] + Sum(f, S \ {x}) /\ Sum(g, S) = g[x] + Sum(g, S \ {x})
    BY SumRemove
  <1>3. Sum(f, S \ {x}) \in Int /\ Sum(g, S \ {x}) = Sum(f, S \ {x})
    BY <1>1, SumInt, SumEqual
  <1>. QED
    BY <1>2, <1>3

\* The sum of sums of two terms is the sum of the sums.
LEMMA SumPlus ==
    ASSUME NEW S, IsFiniteSet(S),
           NEW f, \A x \in S : f[x] \in Int, NEW g, \A x \in S : g[x] \in Int,
           NEW h, \A x \in S : h[x] = f[x] + g[x]
    PROVE  Sum(h, S) = Sum(f, S) + Sum(g, S)
  <1>. DEFINE Good == {T \in SUBSET S : Sum(h, T) = Sum(f, T) + Sum(g, T)}
  <1>0. \A x \in S : h[x] \in Int
    OBVIOUS
  <1>1. ASSUME NEW T \in SUBSET S, \A U \in SUBSET T : U # T => U \in Good
        PROVE  T \in Good
    <2>1. CASE T = {}
      BY <2>1, SumEmpty
    <2>2. CASE T # {}
      <3>1. PICK x \in T : TRUE
        BY <2>2
      <3>2. IsFiniteSet(T) /\ IsFiniteSet(T \ {x}) /\ T \ {x} \in Good
        BY <1>1, <3>1, FS_Subset
      <3>3. /\ Sum(f, T) = f[x] + Sum(f, T \ {x})
            /\ Sum(g, T) = g[x] + Sum(g, T \ {x})
            /\ Sum(h, T) = h[x] + Sum(h, T \ {x})
        BY <1>0, <3>2, SumRemove
      <3>4. Sum(f, T \ {x}) \in Int /\ Sum(g, T \ {x}) \in Int
        BY <3>2, SumInt
      <3>5. /\ f[x] \in Int /\ g[x] \in Int /\ h[x] = f[x] + g[x]
            /\ Sum(h, T \ {x}) = Sum(f, T \ {x}) + Sum(g, T \ {x})
        BY <3>2
      <3>. QED
        BY <3>3, <3>4, <3>5
    <2>. QED
      BY <2>1, <2>2
  <1>2. \A T \in SUBSET S : T \in Good
    <2>. HIDE DEF Good
    <2>. QED
      BY <1>1, SubsetInduction, Zenon
  <1>. QED
    BY <1>2

\* A sum over a set is the sum over a part of it and over the rest.
LEMMA SumSplit ==
    ASSUME NEW S, IsFiniteSet(S), NEW f, \A x \in S : f[x] \in Int, NEW R \in SUBSET S
    PROVE  Sum(f, S) = Sum(f, R) + Sum(f, S \ R)
  <1>. DEFINE Good == {T \in SUBSET S : Sum(f, T) = Sum(f, T \cap R) + Sum(f, T \ R)}
  <1>1. ASSUME NEW T \in SUBSET S, \A U \in SUBSET T : U # T => U \in Good
        PROVE  T \in Good
    <2>1. CASE T = {}
      <3>1. T \cap R = {} /\ T \ R = {}
        BY <2>1
      <3>. QED
        BY <2>1, <3>1, SumEmpty
    <2>2. CASE T # {}
      <3>1. PICK x \in T : TRUE
        BY <2>2
      <3>. DEFINE U == T \ {x}
      <3>2. IsFiniteSet(T) /\ U \in Good /\ x \in S
        BY <1>1, <3>1, FS_Subset
      <3>3. IsFiniteSet(U) /\ IsFiniteSet(U \cap R) /\ IsFiniteSet(U \ R)
        <4>1. U \in SUBSET S /\ U \cap R \in SUBSET S /\ U \ R \in SUBSET S
          OBVIOUS
        <4>. QED
          BY <4>1, FS_Subset, Zenon
      <3>4. Sum(f, T) = f[x] + Sum(f, U)
        BY <3>2, SumRemove
      <3>5. f[x] \in Int /\ Sum(f, U \cap R) \in Int /\ Sum(f, U \ R) \in Int
        BY <3>2, <3>3, SumInt
      <3>6. Sum(f, U) = Sum(f, U \cap R) + Sum(f, U \ R)
        BY <3>2
      <3>7. Sum(f, T \cap R) + Sum(f, T \ R) = f[x] + (Sum(f, U \cap R) + Sum(f, U \ R))
        <4>1. CASE x \in R
          <5>1. T \cap R = (U \cap R) \cup {x} /\ T \ R = U \ R /\ x \notin U \cap R
            BY <4>1, <3>1
          <5>2. Sum(f, (U \cap R) \cup {x}) = Sum(f, U \cap R) + f[x]
            BY <3>3, <3>5, <5>1, SumInsert
          <5>3. /\ Sum(f, T \cap R) = Sum(f, U \cap R) + f[x]
                /\ Sum(f, T \ R) = Sum(f, U \ R)
            BY <5>1, <5>2, Zenon
          <5>. QED
            BY <5>3, <3>5
        <4>2. CASE x \notin R
          <5>1. T \ R = (U \ R) \cup {x} /\ T \cap R = U \cap R /\ x \notin U \ R
            BY <4>2, <3>1
          <5>2. Sum(f, (U \ R) \cup {x}) = Sum(f, U \ R) + f[x]
            BY <3>3, <3>5, <5>1, SumInsert
          <5>3. /\ Sum(f, T \cap R) = Sum(f, U \cap R)
                /\ Sum(f, T \ R) = Sum(f, U \ R) + f[x]
            BY <5>1, <5>2, Zenon
          <5>. QED
            BY <5>3, <3>5
        <4>. QED
          BY <4>1, <4>2
      <3>. QED
        BY <3>4, <3>6, <3>7
    <2>. QED
      BY <2>1, <2>2
  <1>2. \A T \in SUBSET S : T \in Good
    <2>. HIDE DEF Good
    <2>. QED
      BY <1>1, SubsetInduction, Zenon
  <1>3. S \in Good /\ S \cap R = R
    BY <1>2
  <1>. QED
    BY <1>3

\* The sum over one element is its value.
LEMMA SumSingleton ==
    ASSUME NEW f, NEW x, f[x] \in Int
    PROVE  Sum(f, {x}) = f[x]
  <1>1. Sum(f, {x}) = f[x] + Sum(f, {x} \ {x})
    BY SumRemove, FS_Singleton
  <1>2. {x} \ {x} = {}
    OBVIOUS
  <1>. QED
    BY <1>1, <1>2, SumEmpty

\* When the terms of a part of the set grow, the sum grows by their growth.
LEMMA SumShift ==
    ASSUME NEW T, IsFiniteSet(T), NEW S \in SUBSET T,
           NEW f, \A x \in T : f[x] \in Int, NEW d, \A x \in S : d[x] \in Int,
           NEW g, \A x \in T : g[x] = IF x \in S THEN f[x] + d[x] ELSE f[x]
    PROVE  Sum(g, T) = Sum(f, T) + Sum(d, S)
  <1>1. IsFiniteSet(S) /\ IsFiniteSet(T \ S)
    <2>1. T \ S \in SUBSET T
      OBVIOUS
    <2>. QED
      BY <2>1, FS_Subset
  <1>2. ASSUME NEW x \in T
        PROVE  g[x] \in Int
    <2>1. CASE x \in S
      <3>1. f[x] \in Int /\ d[x] \in Int /\ g[x] = f[x] + d[x]
        BY <2>1
      <3>. QED
        BY <3>1
    <2>2. CASE x \notin S
      BY <2>2
    <2>. QED
      BY <2>1, <2>2
  <1>3. /\ Sum(g, T) = Sum(g, S) + Sum(g, T \ S)
        /\ Sum(f, T) = Sum(f, S) + Sum(f, T \ S)
    BY <1>2, SumSplit
  <1>4. Sum(g, S) = Sum(f, S) + Sum(d, S)
    BY <1>1, SumPlus
  <1>5. Sum(g, T \ S) = Sum(f, T \ S)
    BY <1>1, SumEqual
  <1>6. Sum(f, S) \in Int /\ Sum(f, T \ S) \in Int /\ Sum(d, S) \in Int
    BY <1>1, SumInt
  <1>. QED
    BY <1>3, <1>4, <1>5, <1>6

-----------------------------------------------------------------------------
(* Sums of natural numbers *)

\* A sum of natural numbers is one.
LEMMA SumNat ==
    ASSUME NEW S, IsFiniteSet(S), NEW f, \A x \in S : f[x] \in Nat
    PROVE  Sum(f, S) \in Nat
  <1>. DEFINE Good == {T \in SUBSET S : Sum(f, T) \in Nat}
  <1>1. ASSUME NEW T \in SUBSET S, \A U \in SUBSET T : U # T => U \in Good
        PROVE  T \in Good
    <2>1. CASE T = {}
      BY <2>1, SumEmpty
    <2>2. CASE T # {}
      <3>1. PICK x \in T : TRUE
        BY <2>2
      <3>2. IsFiniteSet(T) /\ T \ {x} \in Good
        BY <1>1, <3>1, FS_Subset
      <3>3. Sum(f, T) = f[x] + Sum(f, T \ {x})
        BY <3>2, SumRemove
      <3>. QED
        BY <3>2, <3>3
    <2>. QED
      BY <2>1, <2>2
  <1>2. \A T \in SUBSET S : T \in Good
    <2>. HIDE DEF Good
    <2>. QED
      BY <1>1, SubsetInduction, Zenon
  <1>. QED
    BY <1>2

\* No term of a sum of natural numbers exceeds the sum, and neither does the
\* sum over a part of the set.
LEMMA SumBounds ==
    ASSUME NEW S, IsFiniteSet(S), NEW f, \A x \in S : f[x] \in Nat
    PROVE  /\ \A x \in S : f[x] <= Sum(f, S)
           /\ \A T \in SUBSET S : Sum(f, T) <= Sum(f, S)
  <1>1. ASSUME NEW T \in SUBSET S
        PROVE  Sum(f, T) \in Nat
    <2>1. IsFiniteSet(T)
      BY FS_Subset
    <2>. QED
      BY <2>1, SumNat
  <1>2. ASSUME NEW x \in S
        PROVE  f[x] <= Sum(f, S)
    <2>1. Sum(f, S) = f[x] + Sum(f, S \ {x})
      BY SumRemove
    <2>2. Sum(f, S \ {x}) \in Nat
      BY <1>1
    <2>. QED
      BY <2>1, <2>2
  <1>3. ASSUME NEW T \in SUBSET S
        PROVE  Sum(f, T) <= Sum(f, S)
    <2>1. Sum(f, S) = Sum(f, T) + Sum(f, S \ T)
      BY SumSplit
    <2>2. Sum(f, T) \in Nat /\ Sum(f, S \ T) \in Nat
      BY <1>1
    <2>. QED
      BY <2>1, <2>2
  <1>. QED
    BY <1>2, <1>3

\* A sum of zeros is 0.
LEMMA SumZero ==
    ASSUME NEW S, IsFiniteSet(S), NEW f, \A x \in S : f[x] = 0
    PROVE  Sum(f, S) = 0
  <1>1. Sum(f, S) = Sum(f, S) + Sum(f, S)
    BY SumPlus
  <1>2. Sum(f, S) \in Int
    BY SumInt
  <1>3. \A s \in Int : s = s + s => s = 0
    OBVIOUS
  <1>. QED
    BY <1>1, <1>2, <1>3, Zenon

\* Terms of at most c add up to at most c for every element.
LEMMA SumCount ==
    ASSUME NEW S, IsFiniteSet(S), NEW f, NEW c \in Int,
           \A x \in S : f[x] \in Int /\ f[x] <= c
    PROVE  Sum(f, S) <= c * Cardinality(S)
  <1>. DEFINE Good == {T \in SUBSET S : Sum(f, T) <= c * Cardinality(T)}
  <1>1. ASSUME NEW T \in SUBSET S, \A U \in SUBSET T : U # T => U \in Good
        PROVE  T \in Good
    <2>1. CASE T = {}
      BY <2>1, SumEmpty, FS_EmptySet
    <2>2. CASE T # {}
      <3>1. PICK x \in T : TRUE
        BY <2>2
      <3>2. IsFiniteSet(T) /\ IsFiniteSet(T \ {x}) /\ T \ {x} \in Good
        BY <1>1, <3>1, FS_Subset
      <3>3. Sum(f, T) = f[x] + Sum(f, T \ {x}) /\ Sum(f, T \ {x}) \in Int
        BY <3>2, SumRemove, SumInt
      <3>4. Cardinality(T) \in Nat /\ Cardinality(T \ {x}) = Cardinality(T) - 1
        BY <3>1, <3>2, FS_RemoveElement, FS_CardinalityType
      <3>5. c * (Cardinality(T) - 1) = c * Cardinality(T) - c
        BY <3>4
      <3>. QED
        BY <3>2, <3>3, <3>4, <3>5
    <2>. QED
      BY <2>1, <2>2
  <1>2. \A T \in SUBSET S : T \in Good
    <2>. HIDE DEF Good
    <2>. QED
      BY <1>1, SubsetInduction, Zenon
  <1>. QED
    BY <1>2

\* Terms of 1 add up to the number of elements.
LEMMA SumOnes ==
    ASSUME NEW S, IsFiniteSet(S), NEW f, \A x \in S : f[x] = 1
    PROVE  Sum(f, S) = Cardinality(S)
  <1>. DEFINE Good == {T \in SUBSET S : Sum(f, T) = Cardinality(T)}
  <1>1. ASSUME NEW T \in SUBSET S, \A U \in SUBSET T : U # T => U \in Good
        PROVE  T \in Good
    <2>1. CASE T = {}
      BY <2>1, SumEmpty, FS_EmptySet
    <2>2. CASE T # {}
      <3>. PICK x \in T : TRUE
        BY <2>2
      <3>1. IsFiniteSet(T) /\ T \ {x} \in SUBSET T /\ T \ {x} # T
        BY FS_Subset
      <3>2. Sum(f, T \ {x}) = Cardinality(T \ {x})
        BY <1>1, <3>1
      <3>3. \A y \in T : f[y] \in Int
        OBVIOUS
      <3>4. Sum(f, T) = f[x] + Sum(f, T \ {x})
        BY <3>1, <3>3, SumRemove
      <3>5. Cardinality(T \ {x}) = Cardinality(T) - 1 /\ Cardinality(T) \in Nat
        BY <3>1, FS_RemoveElement, FS_CardinalityType
      <3>. QED
        BY <3>2, <3>4, <3>5
    <2>. QED
      BY <2>1, <2>2
  <1>. HIDE DEF Good
  <1>2. \A T \in SUBSET S : T \in Good
    BY <1>1, SubsetInduction
  <1>. QED
    BY <1>2 DEF Good

\* A sum over the elements of S is the sum, over the groups that k puts them
\* into, of the sums over each group.
LEMMA SumGroups ==
    ASSUME NEW S, IsFiniteSet(S), NEW f, \A x \in S : f[x] \in Int,
           NEW R, IsFiniteSet(R), NEW k, \A x \in S : k[x] \in R
    PROVE  Sum([r \in R |-> Sum(f, {x \in S : k[x] = r})], R) = Sum(f, S)
  <1>. DEFINE G(T) == [r \in R |-> Sum(f, {x \in T : k[x] = r})]
              Good == {T \in SUBSET S : Sum(G(T), R) = Sum(f, T)}
  <1>0. ASSUME NEW T \in SUBSET S, NEW r \in R
        PROVE  G(T)[r] \in Int
    <2>1. {x \in T : k[x] = r} \subseteq S
      OBVIOUS
    <2>2. IsFiniteSet({x \in T : k[x] = r})
      BY <2>1, FS_Subset
    <2>. QED
      BY <2>2, SumInt
  <1>1. ASSUME NEW T \in SUBSET S, \A U \in SUBSET T : U # T => U \in Good
        PROVE  T \in Good
    <2>1. CASE T = {}
      <3>1. \A r \in R : G(T)[r] = 0
        <4>1. \A r \in R : {x \in T : k[x] = r} = {}
          BY <2>1
        <4>. QED
          BY <4>1, SumEmpty
      <3>. HIDE DEF G
      <3>2. Sum(G(T), R) = 0
        BY <3>1, SumZero
      <3>3. Sum(f, T) = 0
        BY <2>1, SumEmpty
      <3>. QED
        BY <3>2, <3>3
    <2>2. CASE T # {}
      <3>. PICK x \in T : TRUE
        BY <2>2
      <3>. DEFINE U == T \ {x}
                  q == k[x]
      <3>1. IsFiniteSet(T) /\ U \in SUBSET T /\ U # T /\ q \in R /\ U \in SUBSET S
        BY FS_Subset
      <3>2. Sum(G(U), R) = Sum(f, U)
        BY <1>1, <3>1
      <3>3. Sum(f, T) = f[x] + Sum(f, U) /\ Sum(f, U) \in Int
        BY <3>1, SumRemove, SumInt, FS_Subset
      <3>4. \A r \in R \ {q} : G(T)[r] = G(U)[r]
        <4>1. \A r \in R \ {q} : {y \in T : k[y] = r} = {y \in U : k[y] = r}
          OBVIOUS
        <4>. QED
          BY <4>1
      <3>5. G(T)[q] = f[x] + G(U)[q]
        <4>1. {y \in T : k[y] = q} \ {x} = {y \in U : k[y] = q}
          OBVIOUS
        <4>2. IsFiniteSet({y \in T : k[y] = q}) /\ x \in {y \in T : k[y] = q}
              /\ \A y \in {y \in T : k[y] = q} : f[y] \in Int
          BY <3>1, FS_Subset
        <4>3. Sum(f, {y \in T : k[y] = q})
                  = f[x] + Sum(f, {y \in T : k[y] = q} \ {x})
          BY <4>2, SumRemove
        <4>. QED
          BY <3>1, <4>1, <4>3, Zenon
      <3>6. \A r \in R : G(T)[r] \in Int /\ G(U)[r] \in Int
        BY <1>0, <3>1
      <3>. HIDE DEF G, U, q
      <3>7. Sum(G(T), R) = Sum(G(U), R) + (G(T)[q] - G(U)[q])
        BY <3>1, <3>4, <3>6, SumChange
      <3>8. G(T)[q] - G(U)[q] = f[x]
        BY <3>1, <3>5, <3>6
      <3>. QED
        BY <3>2, <3>3, <3>7, <3>8
    <2>. QED
      BY <2>1, <2>2
  <1>. HIDE DEF Good
  <1>2. \A T \in SUBSET S : T \in Good
    BY <1>1, SubsetInduction
  <1>3. S \in Good
    BY <1>2
  <1>. QED
    BY <1>3 DEF Good

\* Two sets that share nothing.
LEMMA DisjointUnion ==
    ASSUME NEW S, IsFiniteSet(S), NEW T, IsFiniteSet(T), S \cap T = {}
    PROVE  Cardinality(S \cup T) = Cardinality(S) + Cardinality(T)
<1>1. Cardinality(S \cap T) = 0
    BY FS_EmptySet
<1>2. Cardinality(S) \in Nat /\ Cardinality(T) \in Nat
    BY FS_CardinalityType
<1>3. Cardinality(S \cup T) = Cardinality(S) + Cardinality(T) - Cardinality(S \cap T)
    BY FS_Union, Zenon
<1> QED BY <1>1, <1>2, <1>3

-----------------------------------------------------------------------------
(* Lists *)

\* The rank of a position grows by one with each element that matches.
RankStep(list, M, i) ==
    Rank(list, M, i + 1) = Rank(list, M, i) + (IF list[i + 1] \in M THEN 1 ELSE 0)

\* The rank of a position counts the matches up to it: 0 at the start, one more at each match.
LEMMA RankSteps ==
    ASSUME NEW list, NEW M
    PROVE  /\ Rank(list, M, 0) = 0
           /\ \A i \in Nat : Rank(list, M, i) \in Nat
           /\ \A i \in Nat : RankStep(list, M, i)
<1> DEFINE P(i) == {j \in 1 .. i : list[j] \in M}
<1>1. ASSUME NEW i \in Nat PROVE IsFiniteSet(P(i)) /\ Cardinality(P(i)) \in Nat
  <2>1. IsFiniteSet(1 .. i)
      BY FS_Interval
  <2>2. P(i) \subseteq 1 .. i
      OBVIOUS
  <2> QED BY <2>1, <2>2, FS_Subset, FS_CardinalityType
<1>2. ASSUME NEW i \in Nat
      PROVE  Cardinality(P(i + 1)) = Cardinality(P(i)) + (IF list[i + 1] \in M THEN 1 ELSE 0)
  <2>1. i + 1 \notin P(i)
      OBVIOUS
  <2>2. IsFiniteSet(P(i)) /\ Cardinality(P(i)) \in Nat
      BY <1>1
  <2>3. CASE list[i + 1] \in M
    <3>1. P(i + 1) = P(i) \cup {i + 1}
        BY <2>3
    <3> HIDE DEF P
    <3> QED BY <2>1, <2>2, <2>3, <3>1, FS_AddElement
  <2>4. CASE list[i + 1] \notin M
    <3>1. P(i + 1) = P(i)
        BY <2>4
    <3> HIDE DEF P
    <3> QED BY <2>2, <2>4, <3>1
  <2> QED BY <2>3, <2>4
<1>3. P(0) = {} /\ Cardinality({}) = 0
    BY FS_EmptySet
<1>4. \A i : Rank(list, M, i) = Cardinality(P(i))
    BY DEF Rank
<1> HIDE DEF P
<1> QED BY <1>1, <1>2, <1>3, <1>4 DEF RankStep

\* No more than i elements are counted up to position i.
LEMMA RankIsBounded ==
    ASSUME NEW list, NEW M, NEW i \in Nat
    PROVE  Rank(list, M, i) <= i
<1> PICK T : T = {j \in 1 .. i : list[j] \in M}
    OBVIOUS
<1>1. IsFiniteSet(1 .. i) /\ Cardinality(1 .. i) = i /\ T \subseteq 1 .. i
    BY FS_Interval
<1>2. Cardinality(T) <= i
    BY <1>1, FS_Subset
<1> QED BY <1>2, Zenon DEF Rank

\* Ranks grow along the list, and strictly at an element that matches.
LEMMA RankGrows ==
    ASSUME NEW list, NEW M
    PROVE  \A i, j \in Nat :
              /\ i <= j => Rank(list, M, i) <= Rank(list, M, j)
              /\ i < j /\ list[j] \in M => Rank(list, M, i) < Rank(list, M, j)
<1>0. /\ Rank(list, M, 0) = 0
      /\ \A m \in Nat : Rank(list, M, m) \in Nat
      /\ \A m \in Nat : Rank(list, M, m + 1) = Rank(list, M, m) + (IF list[m + 1] \in M THEN 1 ELSE 0)
  <2>1. Rank(list, M, 0) = 0 /\ \A m \in Nat : Rank(list, M, m) \in Nat
      BY RankSteps
  <2>2. ASSUME NEW m \in Nat
        PROVE  Rank(list, M, m + 1) = Rank(list, M, m) + (IF list[m + 1] \in M THEN 1 ELSE 0)
    <3>1. RankStep(list, M, m)
        BY RankSteps
    <3> QED BY <3>1 DEF RankStep
  <2> QED BY <2>1, <2>2
<1> SUFFICES ASSUME NEW i \in Nat, NEW j \in Nat
             PROVE  /\ i <= j => Rank(list, M, i) <= Rank(list, M, j)
                    /\ i < j /\ list[j] \in M => Rank(list, M, i) < Rank(list, M, j)
    OBVIOUS
<1> DEFINE Good == {n \in Nat : n >= i => Rank(list, M, i) <= Rank(list, M, n)}
<1>1. 0 \in Good
    BY RankSteps
<1>2. ASSUME NEW n \in Nat, n \in Good PROVE n + 1 \in Good
  <2>1. Rank(list, M, n + 1) >= Rank(list, M, n)
    <3>1. Rank(list, M, n + 1) = Rank(list, M, n) + (IF list[n + 1] \in M THEN 1 ELSE 0)
        BY <1>0
    <3> QED BY <3>1, <1>0
  <2>2. Rank(list, M, n + 1) \in Nat /\ Rank(list, M, n) \in Nat /\ Rank(list, M, i) \in Nat
      BY <1>0
  <2> QED BY <1>2, <2>1, <2>2
<1> HIDE DEF Good
<1>3. \A n \in Nat : n \in Good
    BY <1>1, <1>2, CountInduction
<1>4. \A n \in Nat : n >= i => Rank(list, M, i) <= Rank(list, M, n)
    BY <1>3 DEF Good
<1>5. ASSUME i < j, list[j] \in M PROVE Rank(list, M, i) < Rank(list, M, j)
  <2>1. j - 1 \in Nat /\ j \in Nat \ {0} /\ j - 1 >= i
      BY <1>5
  <2>2. Rank(list, M, i) <= Rank(list, M, j - 1)
      BY <2>1, <1>4
  <2>3. Rank(list, M, j) = Rank(list, M, j - 1) + 1
    <3>1. (j - 1) + 1 = j
        OBVIOUS
    <3> QED BY <2>1, <3>1, <1>5, <1>0
  <2>4. Rank(list, M, i) \in Nat /\ Rank(list, M, j - 1) \in Nat
      BY <2>1, <1>0
  <2> QED BY <2>2, <2>3, <2>4
<1> QED BY <1>4, <1>5

\* Every rank up to that of the end is the rank of an element that matches.
LEMMA RanksAreTaken ==
    ASSUME NEW list, NEW M, NEW n \in Nat, NEW k \in 1 .. Rank(list, M, n)
    PROVE  \E i \in 1 .. n : list[i] \in M /\ Rank(list, M, i) = k
<1>0. /\ Rank(list, M, 0) = 0
      /\ \A m \in Nat : Rank(list, M, m) \in Nat
      /\ \A m \in Nat : Rank(list, M, m + 1) = Rank(list, M, m) + (IF list[m + 1] \in M THEN 1 ELSE 0)
  <2>1. Rank(list, M, 0) = 0 /\ \A m \in Nat : Rank(list, M, m) \in Nat
      BY RankSteps
  <2>2. ASSUME NEW m \in Nat
        PROVE  Rank(list, M, m + 1) = Rank(list, M, m) + (IF list[m + 1] \in M THEN 1 ELSE 0)
    <3>1. RankStep(list, M, m)
        BY RankSteps
    <3> QED BY <3>1 DEF RankStep
  <2> QED BY <2>1, <2>2
<1> DEFINE Good == {m \in Nat : k <= Rank(list, M, m) =>
                          \E i \in 1 .. m : list[i] \in M /\ Rank(list, M, i) = k}
<1>1. 0 \in Good
    BY RankSteps
<1>2. ASSUME NEW m \in Nat, m \in Good PROVE m + 1 \in Good
  <2>1. m + 1 \in Nat \ {0} /\ (m + 1) - 1 = m /\ m + 1 \in 1 .. m + 1
      OBVIOUS
  <2>2. Rank(list, M, m + 1) = Rank(list, M, m) + (IF list[m + 1] \in M THEN 1 ELSE 0)
      BY <1>0
  <2>3. Rank(list, M, m + 1) \in Nat /\ Rank(list, M, m) \in Nat
      BY <1>0
  <2>4. CASE k <= Rank(list, M, m)
    <3>1. PICK i \in 1 .. m : list[i] \in M /\ Rank(list, M, i) = k
        BY <1>2, <2>4
    <3> QED BY <3>1
  <2>5. CASE ~(k <= Rank(list, M, m))
      BY <2>1, <2>2, <2>3, <2>5
  <2> QED BY <2>4, <2>5
<1> HIDE DEF Good
<1>3. \A m \in Nat : m \in Good
    BY <1>1, <1>2, CountInduction
<1>4. k <= Rank(list, M, n)
    BY RankSteps
<1> QED BY <1>3, <1>4 DEF Good

\* The elements that match are listed in their order, each at its rank.
ListsMatches(F, list, M) ==
    /\ Len(F) = Rank(list, M, Len(list))
    /\ \A i \in 1 .. Len(list) :
          list[i] \in M => Rank(list, M, i) \in 1 .. Len(F) /\ F[Rank(list, M, i)] = list[i]
    /\ \A k \in 1 .. Len(F) : \E i \in 1 .. Len(list) :
          list[i] \in M /\ Rank(list, M, i) = k /\ F[k] = list[i]

\* A filtered list holds the matching elements, each at the place its rank gives, and nothing else.
LEMMA FilteredIs ==
    ASSUME NEW S, NEW list \in Seq(S), NEW M
    PROVE  Filtered(list, M) \in Seq(S) /\ ListsMatches(Filtered(list, M), list, M)
<1> DEFINE n == Len(list)
           total == Rank(list, M, n)
           at(k) == CHOOSE i \in 1 .. n : list[i] \in M /\ Rank(list, M, i) = k
<1>1. n \in Nat /\ DOMAIN list = 1 .. n /\ \A i \in 1 .. n : list[i] \in S
    OBVIOUS
<1>2. total \in Nat
    BY <1>1, RankSteps
<1>3. Filtered(list, M) = [k \in 1 .. total |-> list[at(k)]]
    BY <1>1 DEF Filtered
<1>4. ASSUME NEW k \in 1 .. total
      PROVE  at(k) \in 1 .. n /\ list[at(k)] \in M /\ Rank(list, M, at(k)) = k
  <2>1. \E i \in 1 .. n : list[i] \in M /\ Rank(list, M, i) = k
      BY <1>1, RanksAreTaken
  <2> QED BY <2>1, Zenon
<1>5. ASSUME NEW i \in 1 .. n, list[i] \in M
      PROVE  Rank(list, M, i) \in 1 .. total /\ at(Rank(list, M, i)) = i
  <2>1. Rank(list, M, i) \in 1 .. total
    <3>1. i \in Nat \ {0} /\ i - 1 \in Nat /\ i <= n
        BY <1>1
    <3>2. Rank(list, M, i) = Rank(list, M, i - 1) + 1 /\ Rank(list, M, i - 1) \in Nat
      <4>1. PICK p \in Nat : p = i - 1
          BY <3>1
      <4>2. RankStep(list, M, p) /\ Rank(list, M, p) \in Nat
          BY RankSteps
      <4>3. p + 1 = i
          BY <3>1, <4>1
      <4> QED BY <4>1, <4>2, <4>3, <1>5 DEF RankStep
    <3>3. Rank(list, M, i) <= total
        BY <3>1, <1>1, RankGrows
    <3> QED BY <3>2, <3>3, <1>2
  <2>2. PICK j : j = at(Rank(list, M, i))
      OBVIOUS
  <2>3. j \in 1 .. n /\ list[j] \in M /\ Rank(list, M, j) = Rank(list, M, i)
      BY <1>4, <2>1, <2>2
  <2>4. ~(i < j) /\ ~(j < i)
    <3>1. i \in Nat /\ j \in Nat
        BY <1>1, <2>3
    <3>2. Rank(list, M, i) \in Nat /\ Rank(list, M, j) \in Nat
        BY <3>1, RankSteps
    <3>3. i < j => Rank(list, M, i) < Rank(list, M, j)
        BY <3>1, <2>3, RankGrows
    <3>4. j < i => Rank(list, M, j) < Rank(list, M, i)
        BY <3>1, <1>5, RankGrows
    <3> QED BY <2>3, <3>2, <3>3, <3>4
  <2> QED BY <2>1, <2>2, <2>3, <2>4
<1> HIDE DEF at
<1>6. \A k \in 1 .. total : list[at(k)] \in S
    BY <1>1, <1>4
<1>7. Filtered(list, M) \in Seq(S) /\ Len(Filtered(list, M)) = total
    BY <1>2, <1>3, <1>6
<1>8. \A k \in 1 .. total : Filtered(list, M)[k] = list[at(k)]
    BY <1>3
<1>9. \A i \in 1 .. n : list[i] \in M =>
          Rank(list, M, i) \in 1 .. total /\ Filtered(list, M)[Rank(list, M, i)] = list[i]
    BY <1>5, <1>8
<1>10. \A k \in 1 .. total : \E i \in 1 .. n :
          list[i] \in M /\ Rank(list, M, i) = k /\ Filtered(list, M)[k] = list[i]
    BY <1>4, <1>8
<1> QED BY <1>7, <1>9, <1>10 DEF ListsMatches

\* Lists that match in the same places have the same ranks.
SameMatches(list, M, other, N, n) == \A j \in 1 .. n : list[j] \in M <=> other[j] \in N

\* Two lists that match at the same positions have the same ranks.
LEMMA RankEqual ==
    ASSUME NEW list, NEW M, NEW other, NEW N, NEW n \in Nat, SameMatches(list, M, other, N, n)
    PROVE  \A i \in 0 .. n : Rank(list, M, i) = Rank(other, N, i)
<1> SUFFICES ASSUME NEW i \in 0 .. n PROVE Rank(list, M, i) = Rank(other, N, i)
    OBVIOUS
<1>1. {j \in 1 .. i : list[j] \in M} = {j \in 1 .. i : other[j] \in N}
    BY DEF SameMatches
<1> QED BY <1>1, Zenon DEF Rank

\* The more matches, the higher the ranks.
MatchesMore(list, M, N, n) == \A j \in 1 .. n : list[j] \in M => list[j] \in N

\* A list that matches wherever the other one does has no smaller rank anywhere.
LEMMA RankMonotone ==
    ASSUME NEW list, NEW M, NEW N, NEW n \in Nat, MatchesMore(list, M, N, n)
    PROVE  \A i \in 0 .. n : Rank(list, M, i) <= Rank(list, N, i)
<1> SUFFICES ASSUME NEW i \in 0 .. n PROVE Rank(list, M, i) <= Rank(list, N, i)
    OBVIOUS
<1> DEFINE P == {j \in 1 .. i : list[j] \in M}
           Q == {j \in 1 .. i : list[j] \in N}
<1>1. P \subseteq Q /\ Q \subseteq 1 .. i
    BY DEF MatchesMore
<1>2. IsFiniteSet(1 .. i)
    BY FS_Interval
<1>3. Rank(list, M, i) = Cardinality(P) /\ Rank(list, N, i) = Cardinality(Q)
    BY DEF Rank
<1> HIDE DEF P, Q
<1> QED BY <1>1, <1>2, <1>3, FS_Subset

\* What a list has no element of does not matter.
LEMMA FilteredEqual ==
    ASSUME NEW S, NEW list \in Seq(S), NEW M, NEW N,
           \A i \in 1 .. Len(list) : list[i] \in M <=> list[i] \in N
    PROVE  Filtered(list, M) = Filtered(list, N)
<1>1. Len(list) \in Nat
    OBVIOUS
<1>2. \A i \in 0 .. Len(list) : Rank(list, M, i) = Rank(list, N, i)
  <2>1. PICK n \in Nat : n = Len(list)
      BY <1>1
  <2>2. SameMatches(list, M, list, N, n)
      BY <2>1 DEF SameMatches
  <2>3. \A i \in 0 .. n : Rank(list, M, i) = Rank(list, N, i)
      BY <2>2, RankEqual
  <2> QED BY <2>1, <2>3
<1>3. Filtered(list, M) \in Seq(S) /\ Filtered(list, N) \in Seq(S)
    BY FilteredIs DEF ListsMatches
<1>4. Len(Filtered(list, M)) = Rank(list, M, Len(list))
      /\ Len(Filtered(list, N)) = Rank(list, N, Len(list))
    BY FilteredIs DEF ListsMatches
<1>5. Len(Filtered(list, M)) = Len(Filtered(list, N))
    BY <1>1, <1>2, <1>4
<1>6. ASSUME NEW k \in 1 .. Len(Filtered(list, M)) PROVE Filtered(list, M)[k] = Filtered(list, N)[k]
  <2>1. PICK i \in 1 .. Len(list) :
            list[i] \in M /\ Rank(list, M, i) = k /\ Filtered(list, M)[k] = list[i]
      BY FilteredIs DEF ListsMatches
  <2>2. list[i] \in N /\ Rank(list, N, i) = k
      BY <2>1, <1>2
  <2>3. Filtered(list, N)[Rank(list, N, i)] = list[i]
      BY <2>2, FilteredIs DEF ListsMatches
  <2> QED BY <2>1, <2>2, <2>3
<1> QED BY <1>3, <1>5, <1>6, SeqEqual

\* A list all of whose elements match.
LEMMA FilteredAll ==
    ASSUME NEW S, NEW list \in Seq(S), NEW M, \A i \in 1 .. Len(list) : list[i] \in M
    PROVE  Filtered(list, M) = list
<1>1. Len(list) \in Nat
    OBVIOUS
<1>2. ASSUME NEW i \in 0 .. Len(list) PROVE Rank(list, M, i) = i
  <2>1. {j \in 1 .. i : list[j] \in M} = 1 .. i
      OBVIOUS
  <2>2. Cardinality(1 .. i) = i
      BY FS_Interval
  <2> QED BY <2>1, <2>2, Zenon DEF Rank
<1>3. Filtered(list, M) \in Seq(S) /\ Len(Filtered(list, M)) = Len(list)
    BY <1>1, <1>2, FilteredIs DEF ListsMatches
<1>4. ASSUME NEW k \in 1 .. Len(Filtered(list, M)) PROVE Filtered(list, M)[k] = list[k]
  <2>1. list[k] \in M /\ Rank(list, M, k) = k /\ k \in 1 .. Len(list)
      BY <1>2, <1>3
  <2>2. Filtered(list, M)[Rank(list, M, k)] = list[k]
      BY <2>1, FilteredIs DEF ListsMatches
  <2> QED BY <2>1, <2>2
<1> QED BY <1>3, <1>4, SeqEqual

\* An element that is appended is listed last, if it matches.
LEMMA FilteredAppend ==
    ASSUME NEW S, NEW list \in Seq(S), NEW x \in S, NEW M
    PROVE  Filtered(Append(list, x), M) = IF x \in M THEN Append(Filtered(list, M), x) ELSE Filtered(list, M)
<1> DEFINE n == Len(list)
           more == Append(list, x)
           F == Filtered(list, M)
           G == Filtered(more, M)
<1>1. /\ n \in Nat /\ more \in Seq(S) /\ Len(more) = n + 1 /\ more[n + 1] = x
      /\ \A i \in 1 .. n : more[i] = list[i]
    OBVIOUS
<1> HIDE DEF more, n
<1>2. \A i \in 0 .. n : Rank(more, M, i) = Rank(list, M, i)
  <2>1. SameMatches(more, M, list, M, n)
      BY <1>1 DEF SameMatches
  <2> QED BY <1>1, <2>1, RankEqual
<1>3. F \in Seq(S) /\ G \in Seq(S) /\ Len(F) = Rank(list, M, n) /\ Len(G) = Rank(more, M, n + 1)
    BY <1>1, FilteredIs DEF n, ListsMatches
<1>3a. \A i \in 1 .. Len(more) : more[i] \in M => G[Rank(more, M, i)] = more[i]
  <2>1. ListsMatches(G, more, M)
      BY <1>1, FilteredIs
  <2> QED BY <2>1 DEF ListsMatches
<1>4. Rank(more, M, n + 1) = Rank(more, M, n) + (IF x \in M THEN 1 ELSE 0)
  <2>1. RankStep(more, M, n)
      BY <1>1, RankSteps
  <2> QED BY <1>1, <2>1 DEF RankStep
<1>5. Len(F) \in Nat /\ Len(G) = Len(F) + (IF x \in M THEN 1 ELSE 0)
    BY <1>1, <1>2, <1>3, <1>4
<1>6. ASSUME NEW k \in 1 .. Len(F) PROVE G[k] = F[k]
  <2>1. PICK i \in 1 .. n : list[i] \in M /\ Rank(list, M, i) = k /\ F[k] = list[i]
      BY FilteredIs DEF n, ListsMatches
  <2>2. more[i] \in M /\ Rank(more, M, i) = k /\ more[i] = list[i] /\ i \in 1 .. Len(more)
      BY <2>1, <1>1, <1>2
  <2>3. G[Rank(more, M, i)] = more[i]
      BY <2>2, <1>3a
  <2> QED BY <2>1, <2>2, <2>3
<1>7. CASE x \in M
  <2>1. G[Len(F) + 1] = x
    <3>1. n + 1 \in 1 .. Len(more) /\ more[n + 1] \in M
        BY <1>1, <1>7
    <3>2. G[Rank(more, M, n + 1)] = more[n + 1]
        BY <3>1, <1>3a
    <3>3. Rank(more, M, n + 1) = Len(F) + 1
        BY <1>3, <1>5, <1>7
    <3> QED BY <1>1, <3>2, <3>3
  <2> HIDE DEF F, G
  <2>2. PICK H : H = Append(F, x)
      OBVIOUS
  <2>3. /\ H \in Seq(S) /\ Len(H) = Len(F) + 1 /\ H[Len(F) + 1] = x
        /\ \A k \in 1 .. Len(F) : H[k] = F[k]
      BY <1>3, <2>2, AppendProperties
  <2>4. Len(G) = Len(H) /\ \A k \in 1 .. Len(G) : G[k] = H[k]
      BY <1>5, <1>6, <1>7, <2>1, <2>3
  <2>5. G = H
      BY <1>3, <2>3, <2>4, SeqEqual
  <2> QED BY <1>7, <2>2, <2>5 DEF F, G, more
<1>8. CASE x \notin M
  <2>1. Len(G) = Len(F)
      BY <1>5, <1>8
  <2> HIDE DEF F, G
  <2>2. \A k \in 1 .. Len(G) : G[k] = F[k]
      BY <2>1, <1>6
  <2>3. G = F
      BY <1>3, <2>1, <2>2, SeqEqual
  <2> QED BY <1>8, <2>3 DEF F, G, more
<1> QED BY <1>7, <1>8

\* A slice of consecutive elements.
IsSlice(part, list, offset, limit) ==
    /\ Len(part) = IF offset + limit <= Len(list) THEN limit
                   ELSE IF offset <= Len(list) THEN Len(list) - offset ELSE 0
    /\ \A k \in 1 .. Len(part) : part[k] = list[offset + k]

\* A slice holds the elements after the offset, in their order, and at most limit of them.
LEMMA SliceIs ==
    ASSUME NEW S, NEW list \in Seq(S), NEW offset \in Nat, NEW limit \in Nat
    PROVE  /\ Slice(list, offset, limit) \in Seq(S)
           /\ IsSlice(Slice(list, offset, limit), list, offset, limit)
<1> DEFINE last == IF offset + limit <= Len(list) THEN offset + limit ELSE Len(list)
<1>1. last \in Int /\ Len(list) \in Nat /\ offset + 1 \in Int
    OBVIOUS
<1>2. \A i \in offset + 1 .. last : list[i] \in S
    OBVIOUS
<1>3. Slice(list, offset, limit) = SubSeq(list, offset + 1, last)
    BY DEF Slice, Upto
<1> HIDE DEF last
<1>4. /\ SubSeq(list, offset + 1, last) \in Seq(S)
      /\ Len(SubSeq(list, offset + 1, last)) =
             IF offset + 1 <= last THEN last - (offset + 1) + 1 ELSE 0
      /\ \A k \in 1 .. last - (offset + 1) + 1 :
             SubSeq(list, offset + 1, last)[k] = list[offset + 1 + k - 1]
    BY <1>1, <1>2, SubSeqProperties
<1>5. Len(SubSeq(list, offset + 1, last)) =
          IF offset + limit <= Len(list) THEN limit
          ELSE IF offset <= Len(list) THEN Len(list) - offset ELSE 0
    BY <1>1, <1>4 DEF last
<1>6. \A k \in 1 .. Len(SubSeq(list, offset + 1, last)) :
          SubSeq(list, offset + 1, last)[k] = list[offset + k]
    BY <1>1, <1>4
<1> QED BY <1>3, <1>4, <1>5, <1>6 DEF IsSlice

\* A slice that is long enough is the whole list.
LEMMA SliceAll ==
    ASSUME NEW S, NEW list \in Seq(S), NEW limit \in Nat, Len(list) <= limit
    PROVE  Slice(list, 0, limit) = list
<1> PICK part : part = Slice(list, 0, limit)
    OBVIOUS
<1>1. part \in Seq(S) /\ IsSlice(part, list, 0, limit)
    BY SliceIs
<1>2. Len(list) \in Nat
    OBVIOUS
<1>3. Len(part) = Len(list)
    BY <1>1, <1>2 DEF IsSlice
<1>4. \A k \in 1 .. Len(part) : part[k] = list[k]
    BY <1>1, <1>2, <1>3 DEF IsSlice
<1>5. part = list
    BY <1>1, <1>3, <1>4, SeqEqual
<1> QED BY <1>5

\* Two slices of which the second begins where the first ends are one slice.
LEMMA SlicesContinue ==
    ASSUME NEW S, NEW list \in Seq(S), NEW limit \in Nat, NEW more \in Nat
    PROVE  Slice(list, 0, limit) \o Slice(list, limit, more) = Slice(list, 0, limit + more)
<1> PICK a : a = Slice(list, 0, limit)
    OBVIOUS
<1> PICK b : b = Slice(list, limit, more)
    OBVIOUS
<1> PICK c : c = Slice(list, 0, limit + more)
    OBVIOUS
<1>1. /\ a \in Seq(S) /\ IsSlice(a, list, 0, limit)
      /\ b \in Seq(S) /\ IsSlice(b, list, limit, more)
      /\ c \in Seq(S) /\ IsSlice(c, list, 0, limit + more)
  <2>1. limit + more \in Nat /\ 0 \in Nat
      OBVIOUS
  <2> QED BY <2>1, SliceIs
<1>2. Len(list) \in Nat /\ Len(a) \in Nat /\ Len(b) \in Nat /\ Len(c) \in Nat
    BY <1>1
<1>3. /\ a \o b \in Seq(S) /\ Len(a \o b) = Len(a) + Len(b)
      /\ \A i \in 1 .. Len(a) + Len(b) :
             (a \o b)[i] = IF i <= Len(a) THEN a[i] ELSE b[i - Len(a)]
    BY <1>1, ConcatProperties
<1>4. Len(a) + Len(b) = Len(c) /\ (Len(b) # 0 => Len(a) = limit)
    BY <1>1, <1>2 DEF IsSlice
<1>5. ASSUME NEW k \in 1 .. Len(c) PROVE (a \o b)[k] = c[k]
  <2>1. c[k] = list[k]
      BY <1>1, <1>2 DEF IsSlice
  <2>2. CASE k <= Len(a)
    <3>1. (a \o b)[k] = a[k] /\ k \in 1 .. Len(a)
        BY <1>2, <1>3, <1>4, <2>2
    <3>2. a[k] = list[0 + k]
        BY <1>1, <3>1 DEF IsSlice
    <3> QED BY <2>1, <3>1, <3>2
  <2>3. CASE k > Len(a)
    <3>1. (a \o b)[k] = b[k - Len(a)] /\ k - Len(a) \in 1 .. Len(b) /\ Len(a) = limit
        BY <1>2, <1>3, <1>4, <2>3
    <3>2. b[k - Len(a)] = list[limit + (k - Len(a))]
        BY <1>1, <3>1 DEF IsSlice
    <3>3. limit + (k - Len(a)) = k
        BY <1>2, <3>1
    <3> QED BY <2>1, <3>1, <3>2, <3>3
  <2>4. k <= Len(a) \/ k > Len(a)
    <3>1. k \in Int /\ Len(a) \in Int
        BY <1>2
    <3> QED BY <3>1
  <2> QED BY <2>2, <2>3, <2>4
<1>6. a \o b = c
    BY <1>1, <1>3, <1>4, <1>5, SeqEqual
<1> QED BY <1>6

\* The elements of a slice of what is filtered are those whose rank is in it.
HasFirst(part, list, M, limit) ==
    {part[k] : k \in DOMAIN part} =
        {list[i] : i \in {j \in 1 .. Len(list) : list[j] \in M /\ Rank(list, M, j) <= limit}}

\* A slice from the start of a filtered list holds just the first matches of the list.
LEMMA SlicedElements ==
    ASSUME NEW S, NEW list \in Seq(S), NEW M, NEW limit \in Nat, NEW part,
           part = Slice(Filtered(list, M), 0, limit)
    PROVE  HasFirst(part, list, M, limit)
<1> PICK F : F = Filtered(list, M)
    OBVIOUS
<1>1. F \in Seq(S) /\ ListsMatches(F, list, M)
    BY FilteredIs
<1>2. part \in Seq(S) /\ IsSlice(part, F, 0, limit)
    BY <1>1, SliceIs
<1>3. Len(F) \in Nat /\ Len(part) \in Nat /\ DOMAIN part = 1 .. Len(part) /\ Len(list) \in Nat
    BY <1>1, <1>2
<1>4. \A k \in 1 .. Len(part) : k \in 1 .. Len(F) /\ k <= limit /\ part[k] = F[k]
  <2>1. Len(part) <= Len(F) /\ Len(part) <= limit
      BY <1>2, <1>3 DEF IsSlice
  <2> QED BY <1>2, <1>3, <2>1 DEF IsSlice
<1>5. \A k \in 1 .. Len(F) : k <= limit => k \in 1 .. Len(part)
    BY <1>2, <1>3 DEF IsSlice
<1>6. ASSUME NEW k \in 1 .. Len(part)
      PROVE  \E i \in 1 .. Len(list) : /\ list[i] \in M /\ Rank(list, M, i) <= limit
                                      /\ part[k] = list[i]
  <2>1. k \in 1 .. Len(F) /\ k <= limit /\ part[k] = F[k]
      BY <1>4
  <2>2. \E i \in 1 .. Len(list) : list[i] \in M /\ Rank(list, M, i) = k /\ F[k] = list[i]
      BY <1>1, <2>1 DEF ListsMatches
  <2> QED BY <2>1, <2>2
<1>7. ASSUME NEW i \in 1 .. Len(list), list[i] \in M, Rank(list, M, i) <= limit
      PROVE  \E k \in 1 .. Len(part) : part[k] = list[i]
  <2>1. Rank(list, M, i) \in 1 .. Len(F) /\ F[Rank(list, M, i)] = list[i]
      BY <1>1, <1>7 DEF ListsMatches
  <2>2. Rank(list, M, i) \in 1 .. Len(part)
      BY <1>5, <1>7, <2>1
  <2> QED BY <1>4, <2>1, <2>2
<1> DEFINE L == {part[k] : k \in DOMAIN part}
           N == {j \in 1 .. Len(list) : list[j] \in M /\ Rank(list, M, j) <= limit}
           R == {list[i] : i \in N}
<1>8. \A x : x \in L <=> \E k \in 1 .. Len(part) : x = part[k]
    BY <1>3
<1>9. \A x : x \in R <=> \E i \in 1 .. Len(list) :
                            list[i] \in M /\ Rank(list, M, i) <= limit /\ x = list[i]
    OBVIOUS
<1> HIDE DEF L, N, R
<1>10. ASSUME NEW x \in L PROVE x \in R
  <2> PICK k \in 1 .. Len(part) : x = part[k]
      BY <1>8
  <2> QED BY <1>6, <1>9
<1>11. ASSUME NEW x \in R PROVE x \in L
    BY <1>7, <1>8, <1>9
<1>12. L = R
    BY <1>10, <1>11
<1> QED BY <1>12 DEF HasFirst, L, N, R

=============================================================================
