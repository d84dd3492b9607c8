----------------------------- MODULE Sums_proofs -----------------------------
(***************************************************************************)
(* Sums over finite sets, as MapThenSumSet forms them: that they exist, do *)
(* not depend on the order in which elements are chosen, and change as one *)
(* expects when an element comes, goes or changes its value.  Induction is *)
(* by the smallest counterexample, which needs no operator parameter.      *)
(***************************************************************************)
EXTENDS Integers, FiniteSetsExt, FiniteSetTheorems, WellFoundedInduction, TLAPS

\* A set of natural numbers that is not empty has a least element.
LEMMA LeastNumber ==
  ASSUME NEW T \in SUBSET Nat, T # {}
  PROVE  \E m \in T : \A k \in T : m <= k
  <1> DEFINE Less == OpToRel(<, Nat)
  <1>1. IsWellFoundedOn(Less, Nat)
    BY NatLessThanWellFounded
  <1>2. \A k, m \in Nat : <<k, m>> \in Less <=> k < m
    BY DEF OpToRel
  <1> HIDE DEF Less
  <1>3. \E m \in T : \A k \in T : <<k, m>> \notin Less
    BY <1>1, WFMin
  <1>4. PICK m \in T : \A k \in T : <<k, m>> \notin Less
    BY <1>3
  <1>5. ASSUME NEW k \in T
        PROVE  m <= k
    <2>1. k \in Nat /\ m \in Nat /\ ~(k < m)
      BY <1>2, <1>4
    <2> QED BY <2>1
  <1> QED BY <1>5

-----------------------------------------------------------------------------
\* The function that MapThenSumSet chooses, of sums over all subsets of S, for a function f.
OneOf(s) == CHOOSE x \in s : TRUE
IsSum(g, f, S) ==
  g = [s \in SUBSET S |-> IF s = {} THEN 0 ELSE f[OneOf(s)] + g[s \ {OneOf(s)}]]

Total(f, S) == MapThenSumSet(LAMBDA x : f[x], S)

LEMMA OneOfIsIn ==
  ASSUME NEW s, s # {}
  PROVE  OneOf(s) \in s
  BY DEF OneOf

\* Removing an element leaves a smaller set.
LEMMA Smaller ==
  ASSUME NEW S, IsFiniteSet(S), NEW s \in SUBSET S, NEW x \in s
  PROVE  /\ IsFiniteSet(s) /\ s \ {x} \in SUBSET S
         /\ Cardinality(s) \in Nat /\ Cardinality(s \ {x}) \in Nat
         /\ Cardinality(s \ {x}) = Cardinality(s) - 1
  BY FS_Subset, FS_RemoveElement, FS_CardinalityType

\* Such sums exist, and are integers: those of the sets of up to n elements for any n.
LEMMA SumExists ==
  ASSUME NEW S, IsFiniteSet(S), NEW f, \A x \in S : f[x] \in Int
  PROVE  \E g \in [SUBSET S -> Int] : IsSum(g, f, S)
  <1> DEFINE Step(g, s) == IF s = {} THEN 0 ELSE f[OneOf(s)] + g[s \ {OneOf(s)}]
             UpTo(g, n) == \A s \in SUBSET S : Cardinality(s) <= n => g[s] = Step(g, s)
             Without == {n \in Nat : ~ \E g \in [SUBSET S -> Int] : UpTo(g, n)}
  <1>1. ASSUME NEW g \in [SUBSET S -> Int]
        PROVE  [s \in SUBSET S |-> Step(g, s)] \in [SUBSET S -> Int]
    <2>1. ASSUME NEW s \in SUBSET S
          PROVE  Step(g, s) \in Int
      <3>1. CASE s = {}
        BY <3>1
      <3>2. CASE s # {}
        <4>1. OneOf(s) \in S /\ s \ {OneOf(s)} \in SUBSET S
          BY <3>2, OneOfIsIn
        <4> QED BY <3>2, <4>1
      <3> QED BY <3>1, <3>2
    <2> HIDE DEF Step
    <2> QED BY <2>1
  <1>2. ASSUME NEW n \in Nat, NEW g \in [SUBSET S -> Int], UpTo(g, n)
        PROVE  UpTo([s \in SUBSET S |-> Step(g, s)], n + 1)
    <2> DEFINE h == [s \in SUBSET S |-> Step(g, s)]
    <2> SUFFICES ASSUME NEW s \in SUBSET S, Cardinality(s) <= n + 1
                 PROVE  h[s] = Step(h, s)
      OBVIOUS
    <2>1. CASE s = {}
      BY <2>1
    <2>2. CASE s # {}
      <3>1. OneOf(s) \in s
        BY <2>2, OneOfIsIn
      <3>2. s \ {OneOf(s)} \in SUBSET S /\ Cardinality(s \ {OneOf(s)}) <= n
        BY <3>1, Smaller
      <3>3. h[s \ {OneOf(s)}] = g[s \ {OneOf(s)}]
        BY <1>2, <3>2
      <3>4. h[s] = f[OneOf(s)] + g[s \ {OneOf(s)}]
        BY <2>2
      <3> QED BY <2>2, <3>3, <3>4
    <2> QED BY <2>1, <2>2
  <1>3. Without = {}
    <2> SUFFICES ASSUME Without # {}
                 PROVE  FALSE
      OBVIOUS
    <2>1. PICK n \in Without : \A k \in Without : n <= k
      BY LeastNumber
    <2>2. CASE n = 0
      <3> DEFINE g == [s \in SUBSET S |-> 0]
      <3>1. g \in [SUBSET S -> Int]
        OBVIOUS
      <3>2. UpTo(g, 0)
        <4> SUFFICES ASSUME NEW s \in SUBSET S, Cardinality(s) <= 0
                     PROVE  g[s] = Step(g, s)
          OBVIOUS
        <4>1. s = {}
          BY FS_Subset, FS_CardinalityType, FS_EmptySet
        <4> QED BY <4>1
      <3> HIDE DEF g, UpTo
      <3> QED BY <2>1, <2>2, <3>1, <3>2
    <2>3. CASE n # 0
      <3>1. n - 1 \in Nat /\ n - 1 \notin Without
        <4>1. n \in Nat
          BY <2>1
        <4> HIDE DEF Without
        <4> QED BY <2>1, <2>3, <4>1
      <3>2. PICK g \in [SUBSET S -> Int] : UpTo(g, n - 1)
        <4> HIDE DEF UpTo
        <4> QED BY <3>1
      <3>3. UpTo([s \in SUBSET S |-> Step(g, s)], (n - 1) + 1)
        <4> HIDE DEF UpTo, Step
        <4> QED BY <1>2, <3>1, <3>2
      <3>4. [s \in SUBSET S |-> Step(g, s)] \in [SUBSET S -> Int]
        BY <1>1
      <3>5. (n - 1) + 1 = n /\ n \in Nat
        BY <2>1
      <3> HIDE DEF UpTo, Step
      <3> QED BY <2>1, <3>3, <3>4, <3>5
    <2> QED BY <2>2, <2>3
  <1>4. Cardinality(S) \in Nat
    BY FS_CardinalityType
  <1>5. PICK g \in [SUBSET S -> Int] : UpTo(g, Cardinality(S))
    <2> HIDE DEF UpTo
    <2> QED BY <1>3, <1>4
  <1>6. \A s \in SUBSET S : g[s] = Step(g, s)
    <2>1. \A s \in SUBSET S : Cardinality(s) <= Cardinality(S)
      BY FS_Subset
    <2> QED BY <1>5, <2>1
  <1>7. g = [s \in SUBSET S |-> Step(g, s)]
    <2> HIDE DEF Step
    <2> QED BY <1>6
  <1> QED BY <1>7 DEF IsSum

\* They are determined: two of them agree on the sets where they add up the same values.
LEMMA SumIsUnique ==
  ASSUME NEW S, IsFiniteSet(S), NEW f, NEW g, IsSum(g, f, S),
         NEW U \in SUBSET S, NEW e, NEW h, IsSum(h, e, U),
         \A x \in U : f[x] = e[x]
  PROVE  \A s \in SUBSET U : g[s] = h[s]
  <1> DEFINE Sizes == {Cardinality(s) : s \in {r \in SUBSET U : g[r] # h[r]}}
  <1> SUFFICES ASSUME NEW r \in SUBSET U, g[r] # h[r]
               PROVE  FALSE
    OBVIOUS
  <1>1. Sizes \in SUBSET Nat
    BY Smaller, FS_Subset, FS_CardinalityType
  <1>2. Sizes # {}
    OBVIOUS
  <1>3. PICK n \in Sizes : \A k \in Sizes : n <= k
    <2> HIDE DEF Sizes
    <2> QED BY <1>1, <1>2, LeastNumber
  <1>4. PICK s \in SUBSET U : g[s] # h[s] /\ n = Cardinality(s)
    BY <1>3
  <1>5. s \in SUBSET S
    OBVIOUS
  <1>6. /\ g[s] = IF s = {} THEN 0 ELSE f[OneOf(s)] + g[s \ {OneOf(s)}]
        /\ h[s] = IF s = {} THEN 0 ELSE e[OneOf(s)] + h[s \ {OneOf(s)}]
    BY <1>5 DEF IsSum
  <1>7. s # {}
    BY <1>4, <1>6
  <1>8. OneOf(s) \in s
    BY <1>7, OneOfIsIn
  <1> DEFINE less == s \ {OneOf(s)}
  <1>9. /\ less \in SUBSET U
        /\ Cardinality(less) \in Nat /\ n \in Nat
        /\ Cardinality(less) = n - 1
    BY <1>4, <1>5, <1>8, Smaller
  <1>10. g[less] = h[less]
    <2> SUFFICES ASSUME g[less] # h[less]
                 PROVE  FALSE
      OBVIOUS
    <2>1. Cardinality(less) \in Sizes
      BY <1>9
    <2>2. n <= Cardinality(less)
      <3> HIDE DEF Sizes, less
      <3> QED BY <1>3, <2>1
    <2> HIDE DEF less, Sizes
    <2> QED BY <1>9, <2>2
  <1>11. f[OneOf(s)] = e[OneOf(s)]
    BY <1>8
  <1> QED BY <1>4, <1>6, <1>7, <1>10, <1>11

\* Total is such a sum.
LEMMA TotalIs ==
  ASSUME NEW S, IsFiniteSet(S), NEW f, NEW g, IsSum(g, f, S), \A x \in S : f[x] \in Int
  PROVE  Total(f, S) = g[S]
  <1> DEFINE iter == CHOOSE h : h = [s \in SUBSET S |->
                                       IF s = {} THEN 0
                                       ELSE f[CHOOSE x \in s : TRUE]
                                              + h[s \ {CHOOSE x \in s : TRUE}]]
  <1>1. Total(f, S) = iter[S]
    BY DEF Total, MapThenSumSet, MapThenFoldSet
  <1>2. IsSum(iter, f, S)
    BY DEF IsSum, OneOf
  <1> HIDE DEF iter
  <1> QED BY <1>1, <1>2, SumIsUnique

\* The laws of sums.
LEMMA TotalType ==
  ASSUME NEW S, IsFiniteSet(S), NEW f, \A x \in S : f[x] \in Int
  PROVE  Total(f, S) \in Int
  <1>1. PICK g \in [SUBSET S -> Int] : IsSum(g, f, S)
    BY SumExists
  <1> QED BY <1>1, TotalIs

LEMMA TotalEmpty ==
  ASSUME NEW f
  PROVE  Total(f, {}) = 0
  <1>1. IsFiniteSet({})
    BY FS_EmptySet
  <1>2. PICK g \in [SUBSET {} -> Int] : IsSum(g, f, {})
    BY <1>1, SumExists
  <1>3. g[{}] = 0
    BY <1>2 DEF IsSum
  <1>4. Total(f, {}) = g[{}]
    BY <1>1, <1>2, TotalIs
  <1> QED BY <1>3, <1>4

LEMMA TotalSame ==
  ASSUME NEW S, IsFiniteSet(S), NEW f, NEW e,
         \A x \in S : f[x] \in Int /\ f[x] = e[x]
  PROVE  Total(f, S) = Total(e, S)
  <1>1. PICK g \in [SUBSET S -> Int] : IsSum(g, f, S)
    BY SumExists
  <1>2. PICK h \in [SUBSET S -> Int] : IsSum(h, e, S)
    BY SumExists
  <1>3. g[S] = h[S]
    BY <1>1, <1>2, SumIsUnique
  <1>4. Total(f, S) = g[S]
    BY <1>1, TotalIs
  <1>5. Total(e, S) = h[S]
    BY <1>2, TotalIs
  <1> QED BY <1>3, <1>4, <1>5

\* The element that is taken first is the one that CHOOSE gives.
LEMMA TotalChosen ==
  ASSUME NEW S, IsFiniteSet(S), S # {}, NEW f, \A x \in S : f[x] \in Int
  PROVE  Total(f, S) = f[OneOf(S)] + Total(f, S \ {OneOf(S)})
  <1> DEFINE less == S \ {OneOf(S)}
  <1>1. PICK g \in [SUBSET S -> Int] : IsSum(g, f, S)
    BY SumExists
  <1>2. OneOf(S) \in S
    BY OneOfIsIn
  <1>3. IsFiniteSet(less) /\ less \in SUBSET S
    BY FS_Subset
  <1>4. PICK h \in [SUBSET less -> Int] : IsSum(h, f, less)
    <2> HIDE DEF less
    <2> QED BY <1>3, SumExists
  <1>5. g[less] = h[less]
    <2> HIDE DEF less
    <2> QED BY <1>1, <1>3, <1>4, SumIsUnique
  <1>6. Total(f, S) = g[S]
    BY <1>1, TotalIs
  <1>7. Total(f, less) = h[less]
    <2> HIDE DEF less
    <2> QED BY <1>3, <1>4, TotalIs
  <1>8. g[S] = f[OneOf(S)] + g[less]
    BY <1>1 DEF IsSum
  <1> QED BY <1>5, <1>6, <1>7, <1>8

\* And so, the order being without effect, may any other be.
LEMMA TotalRemove ==
  ASSUME NEW S, IsFiniteSet(S), NEW f, \A i \in S : f[i] \in Int, NEW x \in S
  PROVE  Total(f, S) = f[x] + Total(f, S \ {x})
  <1> DEFINE Holds(s) == \A i \in s : Total(f, s) = f[i] + Total(f, s \ {i})
             Sizes == {Cardinality(s) : s \in {r \in SUBSET S : ~Holds(r)}}
  <1> SUFFICES ASSUME NEW r \in SUBSET S, ~Holds(r)
               PROVE  FALSE
    OBVIOUS
  <1>1. PICK n \in Sizes : \A k \in Sizes : n <= k
    <2>1. Sizes \in SUBSET Nat
      BY FS_Subset, FS_CardinalityType
    <2>2. Cardinality(r) \in Sizes
      <3> HIDE DEF Holds
      <3> QED OBVIOUS
    <2> HIDE DEF Sizes
    <2> QED BY <2>1, <2>2, LeastNumber
  <1>2. PICK s \in SUBSET S : ~Holds(s) /\ n = Cardinality(s)
    <2> HIDE DEF Holds
    <2> QED BY <1>1
  <1>3. PICK i \in s : Total(f, s) # f[i] + Total(f, s \ {i})
    BY <1>2
  <1> DEFINE j == OneOf(s)
  <1>4. j \in s
    BY <1>3, OneOfIsIn
  <1>5. IsFiniteSet(s)
    BY FS_Subset
  <1>6. Total(f, s) = f[j] + Total(f, s \ {j})
    BY <1>3, <1>5, TotalChosen
  <1> HIDE DEF j
  <1>7. i # j
    BY <1>3, <1>6
  <1>8. ASSUME NEW k \in s
        PROVE  Holds(s \ {k})
    <2>1. /\ s \ {k} \in SUBSET S
          /\ Cardinality(s \ {k}) \in Nat /\ n \in Nat
          /\ Cardinality(s \ {k}) = n - 1
      BY <1>2, Smaller
    <2>2. SUFFICES ASSUME ~Holds(s \ {k})
                   PROVE  FALSE
      OBVIOUS
    <2>3. Cardinality(s \ {k}) \in Sizes
      <3> HIDE DEF Holds
      <3> QED BY <2>1, <2>2
    <2>4. n <= Cardinality(s \ {k})
      <3> HIDE DEF Sizes
      <3> QED BY <1>1, <2>3
    <2> QED BY <2>1, <2>4
  <1>9. Total(f, s \ {j}) = f[i] + Total(f, (s \ {j}) \ {i})
    BY <1>4, <1>7, <1>8
  <1>10. Total(f, s \ {i}) = f[j] + Total(f, (s \ {i}) \ {j})
    BY <1>4, <1>7, <1>8
  <1>11. (s \ {j}) \ {i} = (s \ {i}) \ {j}
    OBVIOUS
  <1>12. Total(f, (s \ {j}) \ {i}) \in Int /\ f[i] \in Int /\ f[j] \in Int
    <2>1. IsFiniteSet((s \ {j}) \ {i}) /\ (s \ {j}) \ {i} \subseteq S
      BY <1>5, FS_Subset
    <2> QED BY <1>4, <2>1, TotalType
  <1> DEFINE rest == Total(f, (s \ {j}) \ {i})
  <1>13. Total(f, s) = f[j] + (f[i] + rest) /\ Total(f, s \ {i}) = f[j] + rest
    BY <1>6, <1>9, <1>10, <1>11
  <1>14. \A a, b, c \in Int : a + (b + c) = b + (a + c)
    OBVIOUS
  <1> HIDE DEF rest, Sizes, Holds
  <1>15. f[j] + (f[i] + rest) = f[i] + (f[j] + rest)
    BY <1>12, <1>14 DEF rest
  <1> QED BY <1>3, <1>13, <1>15

LEMMA TotalAdd ==
  ASSUME NEW S, IsFiniteSet(S), NEW x, x \notin S, NEW f, \A i \in S \cup {x} : f[i] \in Int
  PROVE  Total(f, S \cup {x}) = f[x] + Total(f, S)
  <1>1. IsFiniteSet(S \cup {x}) /\ (S \cup {x}) \ {x} = S
    BY FS_AddElement
  <1> QED BY <1>1, TotalRemove

\* A sum to which one element comes while the others keep their values.
LEMMA TotalGrow ==
  ASSUME NEW S, IsFiniteSet(S), NEW x, x \notin S, NEW f, NEW e, e[x] \in Int,
         \A i \in S : f[i] \in Int /\ f[i] = e[i]
  PROVE  Total(e, S \cup {x}) = Total(f, S) + e[x]
  <1>1. Total(f, S) = Total(e, S) /\ Total(e, S) \in Int
    BY TotalSame, TotalType
  <1>2. Total(e, S \cup {x}) = e[x] + Total(e, S)
    BY TotalAdd
  <1> QED BY <1>1, <1>2

LEMMA TotalChange ==
  ASSUME NEW S, IsFiniteSet(S), NEW x \in S, NEW f, NEW e,
         \A i \in S : f[i] \in Int /\ e[i] \in Int,
         \A i \in S \ {x} : f[i] = e[i]
  PROVE  Total(e, S) = Total(f, S) + (e[x] - f[x])
  <1>1. IsFiniteSet(S \ {x})
    BY FS_Subset
  <1>2. Total(f, S \ {x}) = Total(e, S \ {x}) /\ Total(f, S \ {x}) \in Int
    BY <1>1, TotalSame, TotalType
  <1>3. /\ Total(f, S) = f[x] + Total(f, S \ {x})
        /\ Total(e, S) = e[x] + Total(e, S \ {x})
    BY TotalRemove
  <1> QED BY <1>2, <1>3
=============================================================================
