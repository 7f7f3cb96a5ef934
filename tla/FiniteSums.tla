----------------------------- MODULE FiniteSums -----------------------------
(***************************************************************************)
(* Facts about the sums of natural numbers that the community module       *)
(* Functions defines by a fold: what one summand adds, for the counters    *)
(* that the statistics keep per plugin and the rate windows per tick.      *)
(*                                                                         *)
(* A sum of naturals over a finite set is the number of pairs of an index  *)
(* and a number from 1 to its summand.  That is the one fact about the     *)
(* fold's recursion; the others are facts about cardinalities.             *)
(***************************************************************************)
EXTENDS Integers, FiniteSets, Functions, FunctionTheorems, WellFoundedInduction, FiniteSetTheorems, TLAPS

\* What holds of a set as soon as it holds of every smaller one holds of every
\* finite set: Good is the set of those it holds of.
LEMMA FiniteSetInduction ==
  ASSUME NEW S, IsFiniteSet(S), NEW Good,
         \A T \in SUBSET S : (\A U \in SUBSET T : U # T => U \in Good) => T \in Good
  PROVE  S \in Good
<1> DEFINE Bad == {T \in SUBSET S : T \notin Good}
<1>1. SUFFICES ASSUME Bad # {} PROVE FALSE
  BY <1>1
<1>2. Bad \subseteq FiniteSubsetsOf(S)
  BY FS_FiniteSubsetsOfFinite
<1>3. PICK T \in Bad : \A U \in Bad : <<U, T>> \notin StrictSubsetOrdering(S)
  <2> HIDE DEF Bad
  <2>1. QED
    BY <1>1, <1>2, FS_StrictSubsetOrderingWellFounded, WFMin
<1>4. \A U \in SUBSET T : U # T => U \in Good
  BY <1>3 DEF StrictSubsetOrdering
<1>5. QED
  BY <1>3, <1>4

-----------------------------------------------------------------------------
(* Pairs. *)

Pairing(f, x) == {x} \X (1 .. f[x])
Pairings(f, S) == UNION {Pairing(f, x) : x \in S}

\* A pair is an index and a number up to its summand.
LEMMA PairingsMembers ==
  ASSUME NEW f, NEW S, NEW x, NEW k
  PROVE  <<x, k>> \in Pairings(f, S) <=> x \in S /\ k \in 1 .. f[x]
BY DEF Pairings, Pairing

\* The pairs of one index are as many as its summand.
LEMMA PairingCount ==
  ASSUME NEW f, NEW x, f[x] \in Nat
  PROVE  IsFiniteSet(Pairing(f, x)) /\ Cardinality(Pairing(f, x)) = f[x]
<1>1. PICK n \in Nat : n = f[x]
  OBVIOUS
<1>2. IsFiniteSet(1 .. n) /\ Cardinality(1 .. n) = n
  BY FS_Interval
<1>3. IsFiniteSet({x}) /\ Cardinality({x}) = 1
  BY FS_Singleton
<1>4. IsFiniteSet({x} \X (1 .. n)) /\ Cardinality({x} \X (1 .. n)) = 1 * n
  BY <1>2, <1>3, FS_Product
<1>5. QED
  BY <1>1, <1>4 DEF Pairing

\* Finitely many summands have finitely many pairs.
LEMMA PairingsFinite ==
  ASSUME NEW f, NEW S, IsFiniteSet(S), \A x \in S : f[x] \in Nat
  PROVE  IsFiniteSet(Pairings(f, S)) /\ Cardinality(Pairings(f, S)) \in Nat
<1> DEFINE T == {Pairing(f, x) : x \in S}
           g == [x \in S |-> Pairing(f, x)]
<1>1. g \in Surjection(S, T)
  BY DEF Surjection
<1>2. IsFiniteSet(T)
  <2> HIDE DEF g, T
  <2>1. QED
    BY <1>1, FS_Surjection
<1>3. \A U \in T : IsFiniteSet(U)
  BY PairingCount
<1>4. IsFiniteSet(UNION T)
  <2> HIDE DEF T
  <2>1. QED
    BY <1>2, <1>3, FS_UNION
<1>5. QED
  BY <1>4, FS_CardinalityType DEF Pairings

\* One index more adds its summand.
LEMMA PairingsOneMore ==
  ASSUME NEW f, NEW S, IsFiniteSet(S), \A x \in S : f[x] \in Nat, NEW x \in S
  PROVE  Cardinality(Pairings(f, S)) = f[x] + Cardinality(Pairings(f, S \ {x}))
<1> DEFINE A == Pairing(f, x)
           B == Pairings(f, S \ {x})
<1>1. Pairings(f, S) = A \cup B
  BY DEF Pairings
<1>2. A \cap B = {}
  BY DEF Pairings, Pairing
<1>3. IsFiniteSet(A) /\ Cardinality(A) = f[x]
  BY PairingCount
<1>4. IsFiniteSet(B) /\ Cardinality(B) \in Nat
  <2>1. IsFiniteSet(S \ {x}) /\ \A y \in S \ {x} : f[y] \in Nat
    BY FS_RemoveElement
  <2>2. QED
    BY <2>1, PairingsFinite
<1>5. Cardinality(A \cup B) = Cardinality(A) + Cardinality(B) - Cardinality({})
  <2> HIDE DEF A, B
  <2>1. QED
    BY <1>2, <1>3, <1>4, FS_Union
<1>6. QED
  <2> HIDE DEF A, B
  <2>1. QED
    BY <1>1, <1>3, <1>4, <1>5, FS_EmptySet DEF B
-----------------------------------------------------------------------------
(* Sums. *)

\* The recursion the fold is defined by.
Pick(s) == CHOOSE x \in s : TRUE
SumsUpTo(sums, f, S) ==
  sums = [s \in SUBSET S |-> IF s = {} THEN 0 ELSE f[Pick(s)] + sums[s \ {Pick(s)}]]

\* The sum of the library, by its recursion.
LEMMA SumIsRecursive ==
  ASSUME NEW f, NEW S
  PROVE  SumFunctionOnSet(f, S) = (CHOOSE sums : SumsUpTo(sums, f, S))[S]
BY DEF SumFunctionOnSet, FoldFunctionOnSet, MapThenFoldSet, SumsUpTo, Pick

\* A sum of naturals is the number of its pairs.
LEMMA SumIsCount ==
  ASSUME NEW f, NEW S, IsFiniteSet(S), \A x \in S : f[x] \in Nat
  PROVE  SumFunctionOnSet(f, S) = Cardinality(Pairings(f, S))
<1> DEFINE W == [s \in SUBSET S |-> Cardinality(Pairings(f, s))]
<1>1. ASSUME NEW s \in SUBSET S
      PROVE  Cardinality(Pairings(f, s)) =
               IF s = {} THEN 0 ELSE f[Pick(s)] + Cardinality(Pairings(f, s \ {Pick(s)}))
  <2>1. CASE s = {}
    BY <2>1, FS_EmptySet DEF Pairings
  <2>2. CASE s # {}
    <3>1. Pick(s) \in s
      BY <2>2 DEF Pick
    <3>2. IsFiniteSet(s) /\ \A x \in s : f[x] \in Nat
      BY FS_Subset
    <3>3. QED
      BY <2>2, <3>1, <3>2, PairingsOneMore
  <2>3. QED
    BY <2>1, <2>2
<1>2. SumsUpTo(W, f, S)
  <2>1. \A s \in SUBSET S : s \ {Pick(s)} \in SUBSET S
    OBVIOUS
  <2>2. W = [s \in SUBSET S |-> IF s = {} THEN 0 ELSE f[Pick(s)] + W[s \ {Pick(s)}]]
    BY <1>1, <2>1
  <2>3. QED
    BY <2>2 DEF SumsUpTo
<1> DEFINE sums == CHOOSE t : SumsUpTo(t, f, S)
<1>3. SumsUpTo(sums, f, S)
  <2> HIDE DEF W
  <2>1. QED
    BY <1>2
<1> DEFINE Good == {T \in SUBSET S : sums[T] = W[T]}
<1>4. ASSUME NEW T \in SUBSET S, \A U \in SUBSET T : U # T => U \in Good
      PROVE  T \in Good
  <2> HIDE DEF sums
  <2>1. sums[T] = IF T = {} THEN 0 ELSE f[Pick(T)] + sums[T \ {Pick(T)}]
    BY <1>3 DEF SumsUpTo
  <2>2. W[T] = IF T = {} THEN 0 ELSE f[Pick(T)] + W[T \ {Pick(T)}]
    BY <1>1
  <2>3. CASE T # {}
    <3>1. Pick(T) \in T
      BY <2>3 DEF Pick
    <3>2. T \ {Pick(T)} \in Good
      BY <1>4, <3>1
    <3>3. QED
      BY <2>1, <2>2, <3>2
  <2>4. QED
    BY <2>1, <2>2, <2>3
<1>5. S \in Good
  <2> HIDE DEF Good
  <2>1. QED
    BY <1>4, FiniteSetInduction
<1>6. QED
  BY <1>5, SumIsRecursive

\* A sum of naturals is a natural.
LEMMA SumType ==
  ASSUME NEW f, NEW S, IsFiniteSet(S), \A x \in S : f[x] \in Nat
  PROVE  SumFunctionOnSet(f, S) \in Nat
BY SumIsCount, PairingsFinite

\* One summand is what its index adds to the sum of the others.
LEMMA SumSplit ==
  ASSUME NEW f, NEW S, IsFiniteSet(S), \A y \in S : f[y] \in Nat, NEW x \in S
  PROVE  SumFunctionOnSet(f, S) = f[x] + SumFunctionOnSet(f, S \ {x})
<1>1. IsFiniteSet(S \ {x}) /\ \A y \in S \ {x} : f[y] \in Nat
  BY FS_RemoveElement
<1>2. QED
  BY <1>1, SumIsCount, PairingsOneMore

\* Equal summands have equal sums.
LEMMA SumSame ==
  ASSUME NEW f, NEW g, NEW S, IsFiniteSet(S), \A x \in S : f[x] \in Nat /\ g[x] = f[x]
  PROVE  SumFunctionOnSet(g, S) = SumFunctionOnSet(f, S)
<1>1. Pairings(g, S) = Pairings(f, S)
  BY DEF Pairings, Pairing
<1>2. QED
  BY <1>1, SumIsCount

\* A sum of zeros is zero, and so is the sum of nothing.
LEMMA SumOfZeros ==
  ASSUME NEW f, NEW S, IsFiniteSet(S), \A x \in S : f[x] = 0
  PROVE  SumFunctionOnSet(f, S) = 0
<1>1. Pairings(f, S) = {}
  <2>1. \A x \in S : Pairing(f, x) = {}
    BY DEF Pairing
  <2>2. QED
    BY <2>1 DEF Pairings
<1>2. QED
  BY <1>1, SumIsCount, FS_EmptySet

\* A summand that changes changes the sum by as much.
LEMMA SumChange ==
  ASSUME NEW S, IsFiniteSet(S), NEW f \in [S -> Nat], NEW g \in [S -> Nat], NEW x \in S,
         \A y \in S \ {x} : g[y] = f[y]
  PROVE  /\ SumFunction(g) = SumFunction(f) + g[x] - f[x]
         /\ SumFunction(f) \in Nat /\ SumFunction(g) \in Nat
<1>1. IsFiniteSet(S \ {x})
  BY FS_RemoveElement
<1>2. SumFunctionOnSet(g, S) = g[x] + SumFunctionOnSet(g, S \ {x})
  BY SumSplit
<1>3. SumFunctionOnSet(f, S) = f[x] + SumFunctionOnSet(f, S \ {x})
  BY SumSplit
<1>4. SumFunctionOnSet(g, S \ {x}) = SumFunctionOnSet(f, S \ {x})
  BY <1>1, SumSame
<1>5. SumFunctionOnSet(f, S \ {x}) \in Nat
  BY <1>1, SumType
<1>6. SumFunction(g) = SumFunctionOnSet(g, S) /\ SumFunction(f) = SumFunctionOnSet(f, S)
  BY DEF SumFunction
<1>7. QED
  BY <1>2, <1>3, <1>4, <1>5, <1>6
\* More summands have a greater sum.
LEMMA SumMonotone ==
  ASSUME NEW f, NEW S, NEW T \in SUBSET S, IsFiniteSet(S), \A x \in S : f[x] \in Nat
  PROVE  SumFunctionOnSet(f, T) <= SumFunctionOnSet(f, S)
<1>1. IsFiniteSet(T) /\ \A x \in T : f[x] \in Nat
  BY FS_Subset
<1>2. Pairings(f, T) \in SUBSET Pairings(f, S)
  BY DEF Pairings
<1>3. IsFiniteSet(Pairings(f, S))
  BY PairingsFinite
<1>4. Cardinality(Pairings(f, T)) <= Cardinality(Pairings(f, S))
  BY <1>2, <1>3, FS_Subset
<1>5. QED
  BY <1>1, <1>4, SumIsCount

\* Summands that all move up by one place, with nothing at the first, have the same sum.
LEMMA SumShift ==
  ASSUME NEW n \in Nat, NEW f, NEW g, \A a \in 0 .. n : f[a] \in Nat,
         g[0] = 0, \A a \in 0 .. n : g[a + 1] = f[a]
  PROVE  SumFunctionOnSet(g, 0 .. n + 1) = SumFunctionOnSet(f, 0 .. n)
<1> DEFINE P == Pairings(f, 0 .. n)
           Q == Pairings(g, 0 .. n + 1)
           up == [p \in P |-> <<p[1] + 1, p[2]>>]
<1>1. IsFiniteSet(0 .. n) /\ IsFiniteSet(0 .. n + 1)
  BY FS_Interval
<1>2. \A b \in 0 .. n + 1 : g[b] \in Nat /\ (b = 0 \/ (b - 1 \in 0 .. n /\ g[b] = f[b - 1]))
  <2>1. ASSUME NEW b \in 0 .. n + 1, b # 0 PROVE b - 1 \in 0 .. n /\ g[b] = f[b - 1]
    <3>1. b - 1 \in 0 .. n /\ (b - 1) + 1 = b
      BY <2>1
    <3>2. QED
      BY <3>1
  <2>2. QED
    BY <2>1
<1>3. \A p \in P : \E a \in 0 .. n : \E k \in 1 .. f[a] : p = <<a, k>>
  BY DEF Pairings, Pairing
<1>4. \A q \in Q : \E b \in 0 .. n + 1 : \E k \in 1 .. g[b] : q = <<b, k>>
  BY DEF Pairings, Pairing
<1>5. ASSUME NEW a \in 0 .. n, NEW k \in 1 .. f[a]
      PROVE  <<a, k>> \in P /\ <<a + 1, k>> \in Q
  <2>1. a + 1 \in 0 .. n + 1
    OBVIOUS
  <2>2. k \in 1 .. g[a + 1]
    OBVIOUS
  <2>3. QED
    BY <2>1, <2>2, PairingsMembers
<1>6. up \in [P -> Q]
  <2> HIDE DEF P, Q
  <2>1. \A p \in P : <<p[1] + 1, p[2]>> \in Q
    BY <1>3, <1>5
  <2>2. QED
    BY <2>1
<1>7. \A p, q \in P : up[p] = up[q] => p = q
  <2> HIDE DEF P, Q
  <2>1. SUFFICES ASSUME NEW p \in P, NEW q \in P, up[p] = up[q] PROVE p = q
    OBVIOUS
  <2>2. PICK a \in 0 .. n : \E k : p = <<a, k>>
    BY <1>3
  <2>2a. PICK k : p = <<a, k>>
    BY <2>2
  <2>3. PICK b \in 0 .. n : \E j : q = <<b, j>>
    BY <1>3
  <2>3a. PICK j : q = <<b, j>>
    BY <2>3
  <2>4. <<a + 1, k>> = <<b + 1, j>>
    BY <2>1, <2>2a, <2>3a
  <2>5. a + 1 = b + 1 /\ k = j
    BY <2>4
  <2>6. QED
    BY <2>2a, <2>3a, <2>5
<1>8. \A q \in Q : \E p \in P : up[p] = q
  <2> HIDE DEF P, Q
  <2>1. SUFFICES ASSUME NEW q \in Q PROVE \E p \in P : up[p] = q
    OBVIOUS
  <2>2. PICK b \in 0 .. n + 1 : \E k \in 1 .. g[b] : q = <<b, k>>
    BY <1>4
  <2>3. PICK k \in 1 .. g[b] : q = <<b, k>>
    BY <2>2
  <2>4. b - 1 \in 0 .. n /\ g[b] = f[b - 1] /\ (b - 1) + 1 = b
    BY <1>2
  <2>5. <<b - 1, k>> \in P
    BY <1>5, <2>4
  <2>6. up[<<b - 1, k>>] = <<b, k>>
    BY <2>4, <2>5
  <2>7. QED
    BY <2>3, <2>5, <2>6
<1>9. ExistsBijection(P, Q)
  <2> HIDE DEF P, Q, up
  <2>1. up \in Bijection(P, Q)
    BY <1>6, <1>7, <1>8 DEF Bijection, Injection, Surjection, IsInjective
  <2>2. QED
    BY <2>1 DEF ExistsBijection
<1>10. IsFiniteSet(P)
  BY <1>1, PairingsFinite
<1>11. Cardinality(Q) = Cardinality(P)
  <2> HIDE DEF P, Q
  <2>1. QED
    BY <1>9, <1>10, FS_Bijection
<1>12. QED
  BY <1>1, <1>2, <1>11, SumIsCount
=============================================================================
