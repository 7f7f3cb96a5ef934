--------------------------- MODULE Console_proofs ---------------------------
(***************************************************************************)
(* Theorems about the programs of cmd/road, cmd/server and cmd/client that *)
(* share files (Console), for any number of processes, any files, plugins, *)
(* answers and crashes; and the lemmas about what they compute with a      *)
(* configuration (ConfigRules, MenuRules) and answer on their ports        *)
(* (ControlAPI), for any configuration.                                    *)
(***************************************************************************)
EXTENDS Console, FiniteSums

-----------------------------------------------------------------------------
(* A list without repetitions: the fold that defines it, unrolled.         *)

\* One element more.
WithNext(seq, drop, i, out) ==
  IF seq[i] \in drop \cup ToSet(out) THEN out ELSE Append(out, seq[i])

\* The recursion of the fold, on the sets of positions in S.
Unfolds(h, seq, drop, S) ==
  h = [u \in SUBSET S |->
         IF u = {} THEN <<>> ELSE WithNext(seq, drop, Max(u), h[u \ {Max(u)}])]

\* Distinct, which leaves out what a list repeats, is a fold, and the library
\* defines a fold by a recursion on the set of positions still to visit.
LEMMA DistinctIsRecursive ==
  ASSUME NEW seq, NEW drop
  PROVE  Distinct(seq, drop) = (CHOOSE h : Unfolds(h, seq, drop, DOMAIN seq))[DOMAIN seq]
BY DEF Distinct, FoldLeft, MapThenFoldSet, Unfolds, WithNext

\* The greatest of a set of positions is one of them.
LEMMA MaxIsIn ==
  ASSUME NEW n \in Nat, NEW u \in SUBSET (1 .. n), u # {}
  PROVE  Max(u) \in u /\ \A y \in u : Max(u) >= y
<1> DEFINE G == {T \in SUBSET (1 .. n) : T = {} \/ \E x \in T : \A y \in T : x >= y}
<1>1. ASSUME NEW T \in SUBSET (1 .. n), \A U \in SUBSET T : U # T => U \in G PROVE T \in G
  <2>1. CASE T = {}
    BY <2>1
  <2>2. CASE T # {}
    <3>1. PICK x : x \in T
      BY <2>2
    <3>2. T \ {x} \in G
      <4>1. T \ {x} \in SUBSET T /\ T \ {x} # T
        BY <3>1
      <4>2. QED
        BY <4>1, <1>1
    <3>3. CASE T \ {x} = {}
      <4>1. \A y \in T : x >= y
        BY <3>1, <3>3
      <4>2. QED
        BY <3>1, <4>1
    <3>4. CASE T \ {x} # {}
      <4>1. PICK z \in T \ {x} : \A y \in T \ {x} : z >= y
        BY <3>2, <3>4
      <4>2. x \in Int /\ z \in Int /\ z \in T
        BY <3>1, <4>1
      <4>3. CASE z >= x
        <5>1. \A y \in T : z >= y
          BY <4>1, <4>3
        <5>2. QED
          BY <4>2, <5>1
      <4>4. CASE x >= z
        <5>1. \A y \in T : x >= y
          BY <4>1, <4>2, <4>4
        <5>2. QED
          BY <3>1, <5>1
      <4>5. z >= x \/ x >= z
        BY <4>2
      <4>6. QED
        BY <4>3, <4>4, <4>5
    <3>5. QED
      BY <3>3, <3>4
  <2>3. QED
    BY <2>1, <2>2
<1>2. IsFiniteSet(1 .. n)
  BY FS_Interval
<1>3. IsFiniteSet(u)
  BY <1>2, FS_Subset
<1>4. u \in G
  <2>1. ASSUME NEW T \in SUBSET u, \A U \in SUBSET T : U # T => U \in G PROVE T \in G
    <3> HIDE DEF G
    <3>1. QED
      BY <2>1, <1>1
  <2> HIDE DEF G
  <2>2. QED
    BY <1>3, <2>1, FiniteSetInduction
<1>5. \E x \in u : \A y \in u : x >= y
  BY <1>4
<1>6. QED
  BY <1>5 DEF Max

\* What holds of 0, and of a number's successor when it holds of the number, holds
\* of every number up to n.
LEMMA Induction ==
  ASSUME NEW n \in Nat, NEW P, 0 \in P, \A k \in 1 .. n : k - 1 \in P => k \in P
  PROVE  n \in P
<1> DEFINE S == 1 .. n
           G == {T \in SUBSET S : \A k \in 0 .. n : T = 1 .. k => k \in P}
<1>1. ASSUME NEW T \in SUBSET S, \A U \in SUBSET T : U # T => U \in G PROVE T \in G
  <2>1. SUFFICES ASSUME NEW k \in 0 .. n, T = 1 .. k, k # 0 PROVE k \in P
    OBVIOUS
  <2>2. 1 .. k - 1 \in SUBSET T /\ 1 .. k - 1 # T
    BY <2>1
  <2>3. 1 .. k - 1 \in G
    BY <1>1, <2>2
  <2>4. k - 1 \in 0 .. n
    BY <2>1
  <2>5. k - 1 \in P
    BY <2>3, <2>4
  <2>6. QED
    BY <2>1, <2>5
<1>2. IsFiniteSet(S)
  BY FS_Interval
<1>3. S \in G
  <2> HIDE DEF G, S
  <2>1. QED
    BY <1>1, <1>2, FiniteSetInduction
<1>4. QED
  BY <1>3

\* The recursion has one solution on the positions in S.
LEMMA UnfoldsOnce ==
  ASSUME NEW n \in Nat, NEW S \in SUBSET (1 .. n), NEW seq, NEW drop,
         NEW h, NEW g, Unfolds(h, seq, drop, S), Unfolds(g, seq, drop, S)
  PROVE  h[S] = g[S]
<1> DEFINE G == {T \in SUBSET S : h[T] = g[T]}
<1>1. ASSUME NEW T \in SUBSET S, \A U \in SUBSET T : U # T => U \in G PROVE T \in G
  <2>1. h[T] = IF T = {} THEN <<>> ELSE WithNext(seq, drop, Max(T), h[T \ {Max(T)}])
    BY DEF Unfolds
  <2>2. g[T] = IF T = {} THEN <<>> ELSE WithNext(seq, drop, Max(T), g[T \ {Max(T)}])
    BY DEF Unfolds
  <2>3. CASE T # {}
    <3>1. Max(T) \in T
      BY <2>3, MaxIsIn
    <3>2. T \ {Max(T)} \in G
      BY <1>1, <3>1
    <3>3. QED
      BY <2>1, <2>2, <3>2
  <2>4. QED
    BY <2>1, <2>2, <2>3
<1>2. IsFiniteSet(S)
  <2>1. IsFiniteSet(1 .. n)
    BY FS_Interval
  <2>2. QED
    BY <2>1, FS_Subset
<1>3. S \in G
  <2> HIDE DEF G
  <2>1. QED
    BY <1>1, <1>2, FiniteSetInduction
<1>4. QED
  BY <1>3

\* And a solution on S is one on every part of S.
LEMMA UnfoldsBelow ==
  ASSUME NEW S, NEW T \in SUBSET S, NEW seq, NEW drop, NEW n \in Nat, S \subseteq 1 .. n,
         NEW h, Unfolds(h, seq, drop, S), NEW g, g = [u \in SUBSET T |-> h[u]]
  PROVE  Unfolds(g, seq, drop, T)
<1>1. ASSUME NEW u \in SUBSET T
      PROVE  h[u] = IF u = {} THEN <<>> ELSE WithNext(seq, drop, Max(u), h[u \ {Max(u)}])
  <2>1. u \in SUBSET S
    OBVIOUS
  <2>2. QED
    BY <2>1 DEF Unfolds
<1>2. \A u \in SUBSET T : u \ {Max(u)} \in SUBSET T
  OBVIOUS
<1>3. g = [u \in SUBSET T |->
             IF u = {} THEN <<>> ELSE WithNext(seq, drop, Max(u), g[u \ {Max(u)}])]
  BY <1>1, <1>2
<1>4. QED
  BY <1>3 DEF Unfolds

\* The recursion has a solution.
LEMMA UnfoldsExists ==
  ASSUME NEW n \in Nat, NEW seq, NEW drop
  PROVE  \E h : Unfolds(h, seq, drop, 1 .. n)
<1> DEFINE Sol(S) == CHOOSE h : Unfolds(h, seq, drop, S)
           Val(S) == IF S = {} THEN <<>> ELSE
                       WithNext(seq, drop, Max(S), Sol(S \ {Max(S)})[S \ {Max(S)}])
           N == 1 .. n
           G == {S \in SUBSET N : \E h : Unfolds(h, seq, drop, S)}
<1>1. ASSUME NEW S \in SUBSET N, \A U \in SUBSET S : U # S => U \in G PROVE S \in G
  <2> DEFINE g == [u \in SUBSET S |-> Val(u)]
  <2>1. ASSUME NEW u \in SUBSET S, u # {}
        PROVE  Sol(u \ {Max(u)})[u \ {Max(u)}] = Val(u \ {Max(u)})
    <3> DEFINE v == u \ {Max(u)}
    <3>1. Max(u) \in u
      BY <2>1, MaxIsIn
    <3>2. v \in G
      BY <1>1, <3>1
    <3>3. Unfolds(Sol(v), seq, drop, v)
      <4>1. \E h : Unfolds(h, seq, drop, v)
        BY <3>2
      <4> HIDE DEF v
      <4>2. QED
        BY <4>1
    <3> HIDE DEF v
    <3>4. Sol(v)[v] = IF v = {} THEN <<>> ELSE WithNext(seq, drop, Max(v), Sol(v)[v \ {Max(v)}])
      <4> HIDE DEF Sol
      <4>1. v \in SUBSET v
        OBVIOUS
      <4>2. QED
        BY <3>3, <4>1 DEF Unfolds
    <3>5. ASSUME v # {} PROVE Sol(v)[v] = Val(v)
      <4> DEFINE w == v \ {Max(v)}
      <4>1. v \in SUBSET (1 .. n)
        BY DEF v
      <4>2. Max(v) \in v
        BY <3>5, <4>1, MaxIsIn
      <4>3. w \in SUBSET v /\ w # v /\ w \in SUBSET S /\ w # S /\ w \in SUBSET (1 .. n)
        BY <4>1, <4>2 DEF v
      <4>4. w \in G
        BY <1>1, <4>3
      <4>5. Unfolds(Sol(w), seq, drop, w)
        <5>1. \E h : Unfolds(h, seq, drop, w)
          BY <4>4
        <5> HIDE DEF w
        <5>2. QED
          BY <5>1
      <4> DEFINE h == Sol(v)
                 f == [x \in SUBSET w |-> h[x]]
      <4> HIDE DEF w, Sol
      <4>6. Unfolds(f, seq, drop, w)
        <5>1. Unfolds(h, seq, drop, v) /\ v \subseteq 1 .. n /\ w \in SUBSET v
          BY <3>3, <4>1, <4>3
        <5>3. f = [x \in SUBSET w |-> h[x]]
          OBVIOUS
        <5> HIDE DEF h, f
        <5>2. QED
          BY <5>1, <5>3, UnfoldsBelow
      <4>7. f[w] = Sol(w)[w]
        <5> DEFINE g2 == Sol(w)
        <5>1. Unfolds(g2, seq, drop, w) /\ w \in SUBSET (1 .. n)
          BY <4>3, <4>5
        <5> HIDE DEF f, g2
        <5>2. f[w] = g2[w]
          BY <5>1, <4>6, UnfoldsOnce
        <5>3. QED
          BY <5>2 DEF g2
      <4>8. Sol(v)[w] = Sol(w)[w]
        BY <4>7
      <4>9. QED
        BY <3>4, <3>5, <4>8 DEF w
    <3>6. ASSUME v = {} PROVE Sol(v)[v] = Val(v)
      BY <3>4, <3>6
    <3>7. Sol(v)[v] = Val(v)
      BY <3>5, <3>6
    <3>8. QED
      BY <3>7 DEF v
  <2>2. \A u \in SUBSET S : u \ {Max(u)} \in SUBSET S
    OBVIOUS
  <2>3. g = [u \in SUBSET S |->
               IF u = {} THEN <<>> ELSE WithNext(seq, drop, Max(u), g[u \ {Max(u)}])]
    <3>1. \A u \in SUBSET S :
            Val(u) = IF u = {} THEN <<>> ELSE WithNext(seq, drop, Max(u), Val(u \ {Max(u)}))
      <4> HIDE DEF Sol
      <4>1. QED
        BY <2>1
    <3> HIDE DEF Val
    <3>2. QED
      BY <2>2, <3>1
  <2>4. QED
    BY <2>3 DEF Unfolds
<1>2. IsFiniteSet(N)
  BY FS_Interval
<1>3. N \in G
  <2> HIDE DEF G, N
  <2>1. QED
    BY <1>1, <1>2, FiniteSetInduction
<1>4. QED
  BY <1>3

\* The fold, one element after the other.
LEMMA DistinctUnfolds ==
  ASSUME NEW T, NEW seq \in Seq(T), NEW drop
  PROVE  \E h : /\ h[0] = <<>> /\ h[Len(seq)] = Distinct(seq, drop)
                /\ \A k \in 1 .. Len(seq) : h[k] = WithNext(seq, drop, k, h[k - 1])
<1> DEFINE n == Len(seq)
<1>1. n \in Nat /\ DOMAIN seq = 1 .. n
  OBVIOUS
<1>2. PICK g : /\ Unfolds(g, seq, drop, 1 .. n)
               /\ Distinct(seq, drop) = g[1 .. n]
  <2>1. \E g : Unfolds(g, seq, drop, 1 .. n)
    BY <1>1, UnfoldsExists
  <2>2. Unfolds(CHOOSE g : Unfolds(g, seq, drop, 1 .. n), seq, drop, 1 .. n)
    BY <2>1
  <2>3. QED
    BY <1>1, <2>2, DistinctIsRecursive
<1> DEFINE h == [k \in 0 .. n |-> g[1 .. k]]
<1> HIDE DEF n
<1>3. ASSUME NEW k \in 1 .. n PROVE h[k] = WithNext(seq, drop, k, h[k - 1])
  <2>1. Max(1 .. k) \in 1 .. k /\ \A y \in 1 .. k : Max(1 .. k) >= y
    <3> DEFINE u == 1 .. k
    <3>1. u \in SUBSET (1 .. n) /\ u # {}
      BY <1>1
    <3> HIDE DEF u
    <3>2. Max(u) \in u /\ \A y \in u : Max(u) >= y
      BY <1>1, <3>1, MaxIsIn
    <3>3. QED
      BY <3>2 DEF u
  <2>2. Max(1 .. k) = k
    BY <2>1
  <2>3. (1 .. k) \ {k} = 1 .. (k - 1)
    OBVIOUS
  <2>4. 1 .. k \in SUBSET (1 .. n) /\ 1 .. k # {}
    BY <1>1
  <2>5. g[1 .. k] = WithNext(seq, drop, Max(1 .. k), g[(1 .. k) \ {Max(1 .. k)}])
    BY <1>2, <2>4 DEF Unfolds
  <2>6. h[k] = g[1 .. k] /\ h[k - 1] = g[1 .. (k - 1)]
    BY <1>1
  <2>7. QED
    BY <2>2, <2>3, <2>5, <2>6
<1>4. h[0] = <<>>
  <2>1. g[{}] = <<>>
    BY <1>2 DEF Unfolds
  <2>2. 1 .. 0 = {} /\ 0 \in 0 .. n
    BY <1>1
  <2>3. QED
    BY <2>1, <2>2
<1>5. h[n] = Distinct(seq, drop)
  BY <1>1, <1>2
<1> HIDE DEF h
<1>6. QED
  BY <1>3, <1>4, <1>5 DEF n

\* Distinct keeps what is not dropped, each once, and what comes first.
LEMMA DistinctKeeps ==
  ASSUME NEW T, NEW seq \in Seq(T), NEW drop
  PROVE  /\ Distinct(seq, drop) \in Seq(T)
         /\ ToSet(Distinct(seq, drop)) = ToSet(seq) \ drop
         /\ IsInjective(Distinct(seq, drop))
         /\ seq # <<>> /\ seq[1] \notin drop =>
              Distinct(seq, drop) # <<>> /\ Distinct(seq, drop)[1] = seq[1]
<1>0. PICK h : /\ h[0] = <<>> /\ h[Len(seq)] = Distinct(seq, drop)
               /\ \A k \in 1 .. Len(seq) : h[k] = WithNext(seq, drop, k, h[k - 1])
  BY DistinctUnfolds, ZenonT(30)
<1> DEFINE n == Len(seq)
<1>1. n \in Nat /\ DOMAIN seq = 1 .. n /\ \A i \in 1 .. n : seq[i] \in T
  OBVIOUS
<1>2. /\ h[0] = <<>> /\ h[n] = Distinct(seq, drop)
      /\ \A k \in 1 .. n : h[k] = WithNext(seq, drop, k, h[k - 1])
  BY <1>0, Zenon
<1> HIDE DEF n
<1> DEFINE Upto(k) == {seq[i] : i \in 1 .. k}
           P == {k \in 0 .. n :
                   /\ h[k] \in Seq(T) /\ ToSet(h[k]) = Upto(k) \ drop
                   /\ IsInjective(h[k])
                   /\ k # 0 /\ seq[1] \notin drop => h[k] # <<>> /\ h[k][1] = seq[1]}
<1>3. 0 \in P
  <2>1. <<>> \in Seq(T) /\ ToSet(<<>>) = {} /\ IsInjective(<<>>) /\ Upto(0) = {}
    BY DEF ToSet, IsInjective
  <2> HIDE DEF Upto
  <2>2. h[0] \in Seq(T) /\ ToSet(h[0]) = {} /\ IsInjective(h[0])
    BY <1>2, <2>1, Zenon
  <2>3. 0 \in 0 .. n
    BY <1>1
  <2>4. QED
    BY <2>1, <2>2, <2>3
<1>4. ASSUME NEW k \in 1 .. n, k - 1 \in P PROVE k \in P
  <2>1. PICK out \in Seq(T) : out = h[k - 1]
    BY <1>4
  <2>2. /\ ToSet(out) = Upto(k - 1) \ drop /\ IsInjective(out)
        /\ k - 1 # 0 /\ seq[1] \notin drop => out # <<>> /\ out[1] = seq[1]
    BY <1>4, <2>1
  <2>3. h[k] = WithNext(seq, drop, k, out)
    BY <1>2, <2>1
  <2>4. seq[k] \in T /\ k \in 0 .. n
    BY <1>1
  <2>5. Upto(k) = Upto(k - 1) \cup {seq[k]}
    <3>1. 1 .. k = (1 .. (k - 1)) \cup {k}
      OBVIOUS
    <3>2. QED
      BY <3>1
  <2> HIDE DEF Upto
  <2>6. CASE seq[k] \in drop \cup ToSet(out)
    <3>1. h[k] = out
      BY <2>3, <2>6 DEF WithNext
    <3>2. Upto(k) \ drop = Upto(k - 1) \ drop
      BY <2>2, <2>5, <2>6
    <3>3. k - 1 = 0 => seq[1] \in drop
      <4>1. SUFFICES ASSUME k - 1 = 0 PROVE seq[1] \in drop
        OBVIOUS
      <4>2. k = 1
        BY <4>1
      <4>3. ToSet(out) = {}
        BY <2>2, <4>1 DEF Upto
      <4>4. QED
        BY <2>6, <4>2, <4>3
    <3>4. QED
      BY <2>1, <2>2, <2>4, <3>1, <3>2, <3>3
  <2>7. CASE seq[k] \notin drop \cup ToSet(out)
    <3>1. h[k] = Append(out, seq[k])
      BY <2>3, <2>7 DEF WithNext
    <3>2. PICK m \in Nat : m = Len(out)
      OBVIOUS
    <3>3. /\ Append(out, seq[k]) \in Seq(T)
          /\ DOMAIN out = 1 .. m /\ DOMAIN Append(out, seq[k]) = 1 .. (m + 1)
          /\ \A i \in 1 .. m : Append(out, seq[k])[i] = out[i]
          /\ Append(out, seq[k])[m + 1] = seq[k]
      BY <2>4, <3>2
    <3> DEFINE next == Append(out, seq[k])
    <3> HIDE DEF next
    <3>4. /\ next \in Seq(T) /\ DOMAIN out = 1 .. m /\ DOMAIN next = 1 .. (m + 1)
          /\ \A i \in 1 .. m : next[i] = out[i]
          /\ next[m + 1] = seq[k] /\ h[k] = next
      BY <3>1, <3>3 DEF next
    <3>10. next # <<>>
      <4>1. 1 \in DOMAIN next
        BY <3>4
      <4>2. QED
        BY <4>1
    <3>5. ToSet(next) = ToSet(out) \cup {seq[k]}
      <4>1. 1 .. (m + 1) = (1 .. m) \cup {m + 1}
        OBVIOUS
      <4>2. QED
        BY <3>4, <4>1 DEF ToSet
    <3>6. ToSet(next) = Upto(k) \ drop
      BY <2>2, <2>5, <2>7, <3>5
    <3>7. IsInjective(next)
      <4>1. \A i \in 1 .. m : next[i] \in ToSet(out)
        BY <3>4 DEF ToSet
      <4>2. \A i \in 1 .. m : next[i] # next[m + 1]
        BY <2>7, <3>4, <4>1
      <4>3. \A i, j \in 1 .. m : next[i] = next[j] => i = j
        BY <2>2, <3>4 DEF IsInjective
      <4>4. \A i, j \in 1 .. (m + 1) : next[i] = next[j] => i = j
        BY <4>2, <4>3
      <4>5. QED
        BY <3>4, <4>4 DEF IsInjective
    <3>8. seq[1] \notin drop => next[1] = seq[1]
      <4>1. CASE k - 1 = 0
        <5>1. ToSet(out) = {}
          BY <2>2, <4>1 DEF Upto
        <5>2. m = 0
          <6>1. ASSUME m # 0 PROVE FALSE
            <7>1. 1 \in DOMAIN out
              BY <3>4, <6>1
            <7>2. out[1] \in ToSet(out)
              BY <7>1 DEF ToSet
            <7>3. QED
              BY <5>1, <7>2
          <6>2. QED
            BY <6>1
        <5>3. QED
          BY <3>4, <4>1, <5>2
      <4>2. CASE k - 1 # 0
        <5>1. seq[1] \notin drop => 1 \in 1 .. m
          BY <2>2, <3>2, <4>2
        <5>2. QED
          BY <2>2, <3>4, <4>2, <5>1
      <4>3. QED
        BY <4>1, <4>2
    <3>9. QED
      BY <2>4, <3>4, <3>6, <3>7, <3>8, <3>10
  <2>8. QED
    BY <2>6, <2>7
<1>5. n \in P
  <2> HIDE DEF P
  <2>1. QED
    BY <1>1, <1>3, <1>4, Induction
<1>6. Upto(n) = ToSet(seq)
  BY <1>1 DEF ToSet
<1>7. seq # <<>> => n # 0
  BY DEF n
<1> HIDE DEF Upto
<1>8. QED
  BY <1>2, <1>5, <1>6, <1>7

-----------------------------------------------------------------------------
(* Texts.                                                                  *)

\* The empty text, and a plain word, are texts.
LEMMA TextsAre ==
  /\ Empty \in TextType
  /\ \A word \in Strings : Text(word) \in TextType
<1>1. \A word \in Strings : Text(word) \in TextType
  BY DEF TextType, Text
<1>2. "" \in Strings
  BY DEF Strings
<1>3. QED
  BY <1>1, <1>2 DEF Empty

\* strings.TrimSpace and strings.ToLower take a text to a text.
LEMMA TextsStay ==
  ASSUME NEW t \in TextType
  PROVE  TrimSpace(t) \in TextType /\ ToLower(t) \in TextType
BY DEF TextType, TrimSpace, ToLower

\* The default auth header, a canonical header name and a normalized record
\* format are texts.
LEMMA NamesAre ==
  /\ DefaultAuthHeaderName \in TextType
  /\ \A t \in TextType : AuthHeaderName(t) \in TextType /\ NormalFormat(t) \in TextType
<1>1. "x-road-token" \in Strings /\ "text" \in Strings
  BY DEF Strings
<1>2. DefaultAuthHeaderName \in TextType /\ Text("text") \in TextType
  BY <1>1, TextsAre DEF DefaultAuthHeaderName
<1>3. QED
  BY <1>2, TextsStay DEF AuthHeaderName, NormalFormat, OrElse

\* Trimming and lower-casing a text a second time changes nothing, and their
\* order does not matter.
LEMMA NormalTwice ==
  /\ \A t : TrimSpace(TrimSpace(t)) = TrimSpace(t) /\ ToLower(ToLower(t)) = ToLower(t)
  /\ \A t : ToLower(TrimSpace(t)) = TrimSpace(ToLower(t))
<1>1. \A t : TrimSpace(TrimSpace(t)) = TrimSpace(t)
  BY DEF TrimSpace
<1>2. \A t : ToLower(ToLower(t)) = ToLower(t)
  BY DEF ToLower
<1>3. \A t : ToLower(TrimSpace(t)) = TrimSpace(ToLower(t))
  BY DEF TrimSpace, ToLower
<1>4. QED
  BY <1>1, <1>2, <1>3

\* A word written in the program is trimmed and in lower case.
LEMMA WordsAreNormal ==
  ASSUME NEW word
  PROVE  TrimSpace(Text(word)) = Text(word) /\ ToLower(Text(word)) = Text(word)
<1>1. PICK t : t = [word |-> word, spaced |-> FALSE, upper |-> FALSE]
  OBVIOUS
<1>2. t.spaced = FALSE /\ t.upper = FALSE /\ t = [f \in {"word", "spaced", "upper"} |-> t[f]]
  BY <1>1
<1>3. [t EXCEPT !.spaced = FALSE] = t
  BY <1>2
<1>4. [t EXCEPT !.upper = FALSE] = t
  BY <1>2
<1>5. QED
  BY <1>1, <1>3, <1>4 DEF TrimSpace, ToLower, Text

\* A canonical header name is canonical, the default header's name among them.
LEMMA HeadersAreNormal ==
  ASSUME NEW t
  PROVE  /\ AuthHeaderName(AuthHeaderName(t)) = AuthHeaderName(t)
         /\ AuthHeaderName(DefaultAuthHeaderName) = DefaultAuthHeaderName
         /\ DefaultAuthHeaderName # Empty
<1>1. TrimSpace(ToLower(TrimSpace(t))) = ToLower(TrimSpace(t))
  BY NormalTwice
<1>2. AuthHeaderName(AuthHeaderName(t)) = AuthHeaderName(t)
  BY <1>1, NormalTwice DEF AuthHeaderName
<1>3. AuthHeaderName(DefaultAuthHeaderName) = DefaultAuthHeaderName
  BY WordsAreNormal DEF AuthHeaderName, DefaultAuthHeaderName
<1>4. DefaultAuthHeaderName # Empty
  BY DEF DefaultAuthHeaderName, Empty, Text
<1>5. QED
  BY <1>2, <1>3, <1>4

-----------------------------------------------------------------------------
(* Configurations stay configurations.                                     *)

\* normalizeConfig (config.go) takes a server configuration to one: every
\* field it fills in or rewrites keeps its type.
LEMMA NormalServerType ==
  ASSUME NEW cfg \in ServerType, NEW env PROVE NormalServer(cfg, env) \in ServerType
<1>1. SecretExtras(cfg.token, cfg.extra) \in Seq(SecretType)
  <2>1. cfg.extra \in Seq(SecretType)
    BY DEF ServerType
  <2>2. QED
    BY <2>1, DistinctKeeps DEF SecretExtras
<1>2. /\ Distinct(cfg.allowedOrigins, {<<>>}) \in Seq(Seq(Strings))
      /\ Distinct(cfg.allowedHosts, {<<>>}) \in Seq(Seq(Strings))
  <2>1. cfg.allowedOrigins \in Seq(Seq(Strings)) /\ cfg.allowedHosts \in Seq(Seq(Strings))
    BY DEF ServerType
  <2>2. QED
    BY <2>1, DistinctKeeps
<1>3. NormalHeader(cfg.header, WSAuthEnabled(cfg, env)) \in TextType
  <2>1. cfg.header \in TextType
    BY DEF ServerType
  <2>2. QED
    BY <2>1, TextsStay, NamesAre DEF NormalHeader, OrElse
<1>4. [i \in DOMAIN cfg.enabled |-> TrimSpace(cfg.enabled[i])] \in Seq(TextType)
  <2>1. cfg.enabled \in Seq(TextType)
    BY DEF ServerType
  <2>2. PICK n \in Nat : DOMAIN cfg.enabled = 1 .. n
    BY <2>1
  <2>3. \A i \in 1 .. n : TrimSpace(cfg.enabled[i]) \in TextType
    BY <2>1, <2>2, TextsStay
  <2>4. QED
    BY <2>2, <2>3
<1>5. NormalFormat(cfg.format) \in TextType
  <2>1. cfg.format \in TextType
    BY DEF ServerType
  <2>2. QED
    BY <2>1, NamesAre
<1>6. NormalRecord(cfg.record) \in RecordType
  <2>1. cfg.record \in RecordType
    BY DEF ServerType
  <2>2. QED
    <3>1. PICK r \in RecordType : r = cfg.record
      BY <2>1
    <3>2. PICK d \in DurationType : d = DurationOrDefault(r.duration)
      BY DEF RecordType, DurationOrDefault, DurationType
    <3>3. PICK m \in Int : m = IF r.maxEvents = 0 THEN 5000 ELSE r.maxEvents
      BY DEF RecordType
    <3>4. NormalRecord(r) \in RecordType
      <4>1. NormalRecord(r) = [r EXCEPT !.duration = d, !.maxEvents = m]
        BY <3>2, <3>3 DEF NormalRecord
      <4>2. [r EXCEPT !.duration = d, !.maxEvents = m] \in RecordType
        BY DEF RecordType
      <4>3. QED
        BY <4>1, <4>2
    <3>5. QED
      BY <3>1, <3>4
<1>7. NormalSizes(cfg.sizes) \in SizesType
  <2>1. cfg.sizes.buffer \in Int /\ cfg.sizes.message \in Int /\ cfg.sizes.header \in Int
    BY DEF ServerType, SizesType
  <2>2. Default.sizes = [buffer |-> 32768, message |-> 1048576, header |-> 1048576]
    BY DEF Default
  <2>3. QED
    BY <2>1, <2>2 DEF AtLeast, MinimumSafeBufferSize, SizesType, NormalSizes
<1>8. NormalWaits(cfg.waits) \in WaitsType
  <2>1. cfg.waits \in WaitsType
    BY DEF ServerType
  <2>2. QED
    BY <2>1 DEF NormalWaits, WaitsType, DurationType, DurationOrDefault
<1>9. /\ OrDefault(cfg.tcp, NoAddr, Default.tcp) \in AddrType
      /\ OrDefault(cfg.httpAddr, NoAddr, Default.httpAddr) \in AddrType
      /\ OrDefault(cfg.controlAddr, NoAddr, Default.controlAddr) \in AddrType
  <2>1. cfg.tcp \in AddrType /\ cfg.httpAddr \in AddrType /\ cfg.controlAddr \in AddrType
    BY DEF ServerType
  <2>2. Default.tcp \in AddrType /\ Default.httpAddr \in AddrType /\ Default.controlAddr \in AddrType
    BY DEF Default, Addr, AddrType, Strings
  <2>3. QED
    BY <2>1, <2>2 DEF OrDefault
<1>10. /\ OrDefault(cfg.wsEndpoint, "", "/ws") \in Strings
       /\ OrDefault(cfg.pluginDir, "", "plugins") \in Strings
  BY ZenonT(30) DEF ServerType, OrDefault, Strings
<1>11. PICK tcp \in AddrType, http \in AddrType, control \in AddrType :
         /\ tcp = OrDefault(cfg.tcp, NoAddr, Default.tcp)
         /\ http = OrDefault(cfg.httpAddr, NoAddr, Default.httpAddr)
         /\ control = OrDefault(cfg.controlAddr, NoAddr, Default.controlAddr)
  BY <1>9
<1>12. PICK endpoint \in Strings, dir \in Strings :
         endpoint = OrDefault(cfg.wsEndpoint, "", "/ws")
         /\ dir = OrDefault(cfg.pluginDir, "", "plugins")
  BY <1>10
<1>13. PICK extra \in Seq(SecretType) : extra = SecretExtras(cfg.token, cfg.extra)
  BY <1>1
<1>14. PICK origins \in Seq(Seq(Strings)), hosts \in Seq(Seq(Strings)) :
         origins = Distinct(cfg.allowedOrigins, {<<>>}) /\ hosts = Distinct(cfg.allowedHosts, {<<>>})
  BY <1>2
<1>15. PICK header \in TextType, format \in TextType :
         header = NormalHeader(cfg.header, WSAuthEnabled(cfg, env)) /\ format = NormalFormat(cfg.format)
  BY <1>3, <1>5
<1>16. PICK enabled \in Seq(TextType) : enabled = [i \in DOMAIN cfg.enabled |-> TrimSpace(cfg.enabled[i])]
  BY <1>4
<1>17. PICK record \in RecordType, sizes \in SizesType, waits \in WaitsType :
         record = NormalRecord(cfg.record) /\ sizes = NormalSizes(cfg.sizes) /\ waits = NormalWaits(cfg.waits)
  BY <1>6, <1>7, <1>8
<1>18. NormalServer(cfg, env) =
         [cfg EXCEPT !.tcp = tcp, !.httpAddr = http, !.controlAddr = control,
            !.wsEndpoint = endpoint, !.pluginDir = dir, !.extra = extra, !.header = header,
            !.allowedOrigins = origins, !.allowedHosts = hosts, !.enabled = enabled,
            !.waits = waits, !.sizes = sizes, !.format = format, !.record = record]
  BY <1>11, <1>12, <1>13, <1>14, <1>15, <1>16, <1>17 DEF NormalServer
<1>19. [cfg EXCEPT !.tcp = tcp, !.httpAddr = http, !.controlAddr = control,
          !.wsEndpoint = endpoint, !.pluginDir = dir, !.extra = extra, !.header = header,
          !.allowedOrigins = origins, !.allowedHosts = hosts, !.enabled = enabled,
          !.waits = waits, !.sizes = sizes, !.format = format, !.record = record] \in ServerType
  BY DEF ServerType
<1>20. QED
  BY <1>18, <1>19

\* Moving the selected plugin to the front of plugins.enabled leaves a list of
\* names.
LEMMA SelectedFirstType ==
  ASSUME NEW name \in TextType, NEW enabled \in Seq(TextType)
  PROVE  SelectedFirst(name, enabled) \in Seq(TextType)
<1>1. PICK n \in TextType : n = TrimSpace(name)
  BY TextsStay
<1>2. PICK s \in Seq(TextType) : s = <<n>> \o enabled
  <2>1. PICK one \in Seq(TextType) : one = <<n>>
    <3>1. <<n>> \in Seq(TextType)
      OBVIOUS
    <3>2. QED
      BY <3>1
  <2>2. one \o enabled \in Seq(TextType)
    OBVIOUS
  <2>3. QED
    BY <2>1, <2>2
<1>3. Distinct(s, {Empty}) \in Seq(TextType)
  BY DistinctKeeps
<1>4. QED
  BY <1>1, <1>2, <1>3 DEF SelectedFirst

\* The addresses of the defaults, of a public server and of a port typed over
\* one are addresses.
LEMMA AddrsAre ==
  ASSUME NEW addr \in AddrType, NEW port
  PROVE  /\ Addr("0.0.0.0", 0) \in AddrType
         /\ port \in Int => Addr("127.0.0.1", port) \in AddrType
         /\ port \in Int => Override(addr, port) \in AddrType
<1>1. "0.0.0.0" \in Strings /\ "127.0.0.1" \in Strings
  BY DEF Strings
<1>2. QED
  BY <1>1 DEF Addr, AddrType, Override

\* withSelectedPlugin gives a server configuration.
LEMMA WithPluginType ==
  ASSUME NEW cfg \in ServerType, NEW plugin \in PluginType
  PROVE  WithPlugin(cfg, plugin) \in ServerType
<1>1. plugin.name \in TextType /\ cfg.enabled \in Seq(TextType) /\ cfg.tcp \in AddrType
  BY DEF PluginType, ServerType
<1>2. PICK enabled \in Seq(TextType) : enabled = SelectedFirst(plugin.name, cfg.enabled)
  BY <1>1, SelectedFirstType
<1>3. PICK tcp \in AddrType : tcp = IF plugin.network = Text("udp") THEN Addr("0.0.0.0", 0) ELSE cfg.tcp
  BY <1>1, AddrsAre
<1>4. WithPlugin(cfg, plugin) = [cfg EXCEPT !.pluginDir = "plugins", !.enabled = enabled, !.tcp = tcp]
  BY <1>2, <1>3 DEF WithPlugin
<1>5. "plugins" \in Strings
  BY DEF Strings
<1>6. [cfg EXCEPT !.pluginDir = "plugins", !.enabled = enabled, !.tcp = tcp] \in ServerType
  BY <1>5 DEF ServerType
<1>7. QED
  BY <1>4, <1>6

\* So do the port overrides of a run, and they touch no secret.
LEMMA WithPortsType ==
  ASSUME NEW cfg \in ServerType, NEW plugin, NEW ports, OverridesAccepted(cfg, plugin, ports)
  PROVE  /\ WithPorts(cfg, ports) \in ServerType
         /\ WithPorts(cfg, ports).token = cfg.token
         /\ WithPorts(cfg, ports).extra = cfg.extra
<1>1. cfg.tcp \in AddrType /\ cfg.httpAddr \in AddrType /\ cfg.controlAddr \in AddrType
  BY DEF ServerType
<1>2. ASSUME NEW port, NEW least \in {0, 1}, InRange(port, least) PROVE port \in Int
  BY <1>2 DEF InRange, NoPort
<1>3. /\ ports.tcp \in Int /\ (cfg.http => ports.http \in Int)
      /\ cfg.control => ports.control \in Int
  BY <1>2 DEF OverridesAccepted
<1>4. PICK tcp \in AddrType : tcp = Override(cfg.tcp, ports.tcp)
  BY <1>1, <1>3, AddrsAre
<1>5. PICK http \in AddrType : http = IF cfg.http THEN Override(cfg.httpAddr, ports.http) ELSE cfg.httpAddr
  BY <1>1, <1>3, AddrsAre
<1>6. PICK control \in AddrType :
        control = IF cfg.control THEN Override(cfg.controlAddr, ports.control) ELSE cfg.controlAddr
  BY <1>1, <1>3, AddrsAre
<1>7. WithPorts(cfg, ports) = [cfg EXCEPT !.tcp = tcp, !.httpAddr = http, !.controlAddr = control]
  BY <1>4, <1>5, <1>6 DEF WithPorts
<1>8. /\ [cfg EXCEPT !.tcp = tcp, !.httpAddr = http, !.controlAddr = control] \in ServerType
      /\ [cfg EXCEPT !.tcp = tcp, !.httpAddr = http, !.controlAddr = control].token = cfg.token
      /\ [cfg EXCEPT !.tcp = tcp, !.httpAddr = http, !.controlAddr = control].extra = cfg.extra
  BY DEF ServerType
<1>9. QED
  BY <1>7, <1>8

\* The first two of a list's three elements are a list of the same kind.
LEMMA FirstTwo ==
  ASSUME NEW S, NEW l \in Seq(S), Len(l) = 3
  PROVE  SubSeq(l, 1, 2) \in Seq(S)
OBVIOUS

\* The configuration of a public server (wizard_security.go) is a server
\* configuration.
LEMMA PublicServerConfigType ==
  ASSUME NEW cfg \in ServerType, NEW plugin \in PluginType,
         NEW ports \in [tcp : Int, http : Int, control : Int],
         NEW host \in Seq(Strings), NEW token \in SecretType
  PROVE  PublicServerConfig(cfg, plugin, ports, host, token) \in ServerType
<1>1. PICK enabled \in Seq(TextType) : enabled = SelectedFirst(plugin.name, cfg.enabled)
  <2>1. plugin.name \in TextType /\ cfg.enabled \in Seq(TextType)
    BY DEF PluginType, ServerType
  <2>2. QED
    BY <2>1, SelectedFirstType
<1>2. ports.http \in Int /\ ports.control \in Int /\ 0 \in Int
  OBVIOUS
<1>3. PICK local \in AddrType, http \in AddrType, control \in AddrType :
        /\ local = Addr("127.0.0.1", 0)
        /\ http = Addr("127.0.0.1", ports.http) /\ control = Addr("127.0.0.1", ports.control)
  <2>1. cfg.tcp \in AddrType
    BY DEF ServerType
  <2>2. QED
    BY <1>2, <2>1, AddrsAre
<1>4. PICK hosts \in Seq(Seq(Strings)), origins \in Seq(Seq(Strings)) :
        hosts = PublicAllowedHosts(host) /\ origins = PublicAllowedOrigins(host)
  <2>1. <<"127", "0", "0", "1">> \in Seq(Strings) /\ <<"localhost">> \in Seq(Strings) /\ <<"::1">> \in Seq(Strings)
    <3>1. PICK s1 \in Strings, s2 \in Strings, s3 \in Strings, s4 \in Strings, s5 \in Strings :
            s1 = "127" /\ s2 = "0" /\ s3 = "1" /\ s4 = "localhost" /\ s5 = "::1"
      BY DEF Strings
    <3>2. <<s1, s2, s2, s3>> \in Seq(Strings) /\ <<s4>> \in Seq(Strings) /\ <<s5>> \in Seq(Strings)
      OBVIOUS
    <3>3. QED
      BY <3>1, <3>2
  <2>2. PICK l1 \in Seq(Strings), l2 \in Seq(Strings), l3 \in Seq(Strings) :
          l1 = <<"127", "0", "0", "1">> /\ l2 = <<"localhost">> /\ l3 = <<"::1">>
    BY <2>1
  <2>3. LocalHosts = <<l1, l2, l3>>
    BY <2>2 DEF LocalHosts
  <2>4. PICK l \in Seq(Seq(Strings)) : l = LocalHosts /\ Len(l) = 3
    <3>1. PICK S : S = Seq(Strings)
      OBVIOUS
    <3>2. l1 \in S /\ l2 \in S /\ l3 \in S
      BY <3>1
    <3>3. <<l1, l2, l3>> \in Seq(S) /\ Len(<<l1, l2, l3>>) = 3
      BY <3>2
    <3>4. QED
      BY <2>3, <3>1, <3>3
  <2>5. SubSeq(l, 1, 2) \in Seq(Seq(Strings))
    BY <2>4, FirstTwo
  <2>6. PublicAllowedHosts(host) \in Seq(Seq(Strings))
    <3>1. <<>> \in Seq(Seq(Strings)) /\ <<host>> \o l \in Seq(Seq(Strings))
      OBVIOUS
    <3>2. QED
      BY <2>4, <3>1 DEF PublicAllowedHosts
  <2>7. PublicAllowedOrigins(host) \in Seq(Seq(Strings))
    <3>1. PICK two \in Seq(Seq(Strings)) : two = SubSeq(l, 1, 2)
      BY <2>5
    <3>2. PICK rest \in Seq(Seq(Strings)) : rest = IF host = <<>> THEN <<>> ELSE <<host>>
      <4>1. PICK S : S = Seq(Strings)
        OBVIOUS
      <4>2. <<>> \in Seq(S) /\ <<host>> \in Seq(S)
        BY <4>1
      <4>3. QED
        BY <4>1, <4>2
    <3>3. two \o rest \in Seq(Seq(Strings))
      OBVIOUS
    <3>4. QED
      BY <2>4, <3>1, <3>2, <3>3 DEF PublicAllowedOrigins
  <2>8. QED
    BY <2>6, <2>7
<1>5. PICK header \in TextType : header = DefaultAuthHeaderName
  BY NamesAre
<1>6. PICK limits \in LimitsType :
        limits = [maxConnections |-> 16, maxConnectionsPerIP |-> 8, rateLimitPerMinute |-> 60]
  <2>1. [maxConnections |-> 16, maxConnectionsPerIP |-> 8, rateLimitPerMinute |-> 60] \in LimitsType
    BY DEF LimitsType
  <2>2. QED
    BY <2>1
<1>7. PublicServerConfig(cfg, plugin, ports, host, token) =
        [cfg EXCEPT
           !.tcp = local, !.http = TRUE, !.httpAddr = http, !.wsEndpoint = "/ws",
           !.token = token, !.extra = <<>>, !.header = header, !.trustProxy = TRUE,
           !.limits = limits, !.allowedHosts = hosts, !.allowedOrigins = origins,
           !.control = TRUE, !.controlAddr = control, !.pluginAPIPublic = FALSE,
           !.enabled = enabled]
  BY <1>1, <1>3, <1>4, <1>5, <1>6 DEF PublicServerConfig
<1>8. "/ws" \in Strings /\ <<>> \in Seq(SecretType)
  <2>1. "/ws" \in Strings
    BY DEF Strings
  <2>2. QED
    BY <2>1
<1>9. [cfg EXCEPT
         !.tcp = local, !.http = TRUE, !.httpAddr = http, !.wsEndpoint = "/ws",
         !.token = token, !.extra = <<>>, !.header = header, !.trustProxy = TRUE,
         !.limits = limits, !.allowedHosts = hosts, !.allowedOrigins = origins,
         !.control = TRUE, !.controlAddr = control, !.pluginAPIPublic = FALSE,
         !.enabled = enabled] \in ServerType
  BY <1>8 DEF ServerType
<1>10. QED
  BY <1>7, <1>9

\* So is the one the executable carries in itself.
LEMMA DefaultType == Default \in ServerType
<1>1. PICK tcp \in AddrType, httpAddr \in AddrType, controlAddr \in AddrType :
        tcp = Default.tcp /\ httpAddr = Default.httpAddr /\ controlAddr = Default.controlAddr
  <2>1. Default.tcp \in AddrType /\ Default.httpAddr \in AddrType /\ Default.controlAddr \in AddrType
    BY DEF Default, Addr, AddrType, Strings
  <2>2. QED
    BY <2>1
<1>2. PICK token \in SecretType, header \in TextType, format \in TextType, name \in TextType :
        token = NoSecret /\ header = Empty /\ format = Text("text") /\ name = Text("minecraft")
  <2>1. "" \in Strings /\ "text" \in Strings /\ "minecraft" \in Strings
    BY DEF Strings
  <2>2. QED
    BY <2>1, TextsAre DEF NoSecret, Word, SecretType
<1>3. PICK extra \in Seq(SecretType), origins \in Seq(Seq(Strings)), enabled \in Seq(TextType) :
        extra = <<>> /\ origins = <<>> /\ enabled = <<name>>
  <2>1. <<>> \in Seq(SecretType) /\ <<>> \in Seq(Seq(Strings)) /\ <<name>> \in Seq(TextType)
    OBVIOUS
  <2>2. QED
    BY <2>1
<1>4. PICK limits \in LimitsType : limits = Default.limits
  <2>1. Default.limits \in LimitsType
    BY DEF Default, LimitsType
  <2>2. QED
    BY <2>1
<1>5. PICK waits \in WaitsType : waits = Default.waits
  <2>1. Default.waits =
          [wait \in {"dial", "keepAlive", "read", "write", "handshake", "idle", "ping", "readHeader",
                     "controlRead", "controlWrite", "controlReadHeader"} |-> "ok"]
    BY DEF Default
  <2>2. Default.waits \in WaitsType
    BY <2>1 DEF WaitsType, DurationType
  <2>3. QED
    BY <2>2
<1>6. PICK sizes \in SizesType : sizes = Default.sizes
  <2>1. Default.sizes \in SizesType
    BY DEF Default, SizesType
  <2>2. QED
    BY <2>1
<1>7. PICK record \in RecordType : record = DefaultRecord
  <2>1. DefaultRecord \in RecordType
    BY DEF DefaultRecord, RecordType, DurationType
  <2>2. QED
    BY <2>1
<1>8. PICK endpoint \in Strings, dir \in Strings : endpoint = "/ws" /\ dir = "plugins"
  BY DEF Strings
<1>9. Default =
        [tcp |-> tcp, http |-> TRUE, httpAddr |-> httpAddr, wsEndpoint |-> endpoint,
         token |-> token, extra |-> extra, header |-> header,
         allowedOrigins |-> origins, allowedHosts |-> origins, trustProxy |-> FALSE,
         limits |-> limits, waits |-> waits, sizes |-> sizes,
         control |-> TRUE, controlAddr |-> controlAddr, pluginAPIPublic |-> TRUE,
         pluginDir |-> dir, enabled |-> enabled, format |-> format, record |-> record]
  BY <1>1, <1>2, <1>3, <1>4, <1>5, <1>6, <1>7, <1>8 DEF Default
<1>10. [tcp |-> tcp, http |-> TRUE, httpAddr |-> httpAddr, wsEndpoint |-> endpoint,
         token |-> token, extra |-> extra, header |-> header,
         allowedOrigins |-> origins, allowedHosts |-> origins, trustProxy |-> FALSE,
         limits |-> limits, waits |-> waits, sizes |-> sizes,
         control |-> TRUE, controlAddr |-> controlAddr, pluginAPIPublic |-> TRUE,
         pluginDir |-> dir, enabled |-> enabled, format |-> format, record |-> record] \in ServerType
  BY DEF ServerType
<1>11. QED
  BY <1>9, <1>10

\* And the one the settings page writes.
LEMMA ServerEditedType ==
  ASSUME NEW cfg \in ServerType, NEW env, NEW answers \in ServerAnswerType,
         NEW fresh \in SecretType
  PROVE  ServerEdited(cfg, env, answers, fresh) \in ServerType
<1>1. PICK http \in BOOLEAN, control \in BOOLEAN, public \in BOOLEAN :
        /\ http = Answered(answers.http, cfg.http)
        /\ control = Answered(answers.control, cfg.control)
        /\ public = Answered(answers.public, cfg.pluginAPIPublic)
  <2>1. /\ cfg.http \in BOOLEAN /\ cfg.control \in BOOLEAN /\ cfg.pluginAPIPublic \in BOOLEAN
        /\ answers.http \in Seq(BOOLEAN) /\ answers.control \in Seq(BOOLEAN)
        /\ answers.public \in Seq(BOOLEAN)
    BY DEF ServerType, ServerAnswerType
  <2>2. QED
    BY <2>1 DEF Answered
<1>2. PICK c \in ServerType :
        c = [cfg EXCEPT !.http = http, !.control = control, !.pluginAPIPublic = public]
  BY DEF ServerType
<1>3. ServerEdited(cfg, env, answers, fresh) = ServerAuthEdited(c, env, answers, fresh)
  BY <1>1, <1>2 DEF ServerEdited
<1>4. c.token \in SecretType /\ c.extra \in Seq(SecretType) /\ c.header \in TextType
  BY DEF ServerType
<1>5. answers.token \in Seq(SecretType) /\ answers.header \in Seq(TextType)
  BY DEF ServerAnswerType
<1>6. PICK token \in SecretType : token = Answered(answers.token, ShownToken(c, fresh))
  <2>1. ShownToken(c, fresh) \in SecretType
    <3>1. CASE c.token # NoSecret
      BY <1>4, <3>1 DEF ShownToken
    <3>2. CASE c.token = NoSecret /\ c.extra # <<>> /\ c.extra[1] # NoSecret
      BY <1>4, <3>2 DEF ShownToken
    <3>3. CASE c.token = NoSecret /\ ~ (c.extra # <<>> /\ c.extra[1] # NoSecret)
      BY <3>3 DEF ShownToken
    <3>4. QED
      BY <3>1, <3>2, <3>3
  <2>2. QED
    BY <1>5, <2>1 DEF Answered
<1>7. PICK extra \in Seq(SecretType) : extra = SecretExtras(token, c.extra)
  BY <1>4, DistinctKeeps DEF SecretExtras
<1>8. PICK header \in TextType : header = TrimSpace(Answered(answers.header, ShownHeader(c.header)))
  <2>1. ShownHeader(c.header) \in TextType
    BY <1>4, NamesAre DEF ShownHeader
  <2>2. Answered(answers.header, ShownHeader(c.header)) \in TextType
    BY <1>5, <2>1 DEF Answered
  <2>3. QED
    BY <2>2, TextsStay
<1>9. /\ [c EXCEPT !.token = token, !.extra = extra, !.header = header] \in ServerType
      /\ [c EXCEPT !.token = NoSecret, !.extra = <<>>, !.header = Empty] \in ServerType
  <2>1. NoSecret \in SecretType /\ Empty \in TextType /\ <<>> \in Seq(SecretType)
    <3>1. "" \in Strings
      BY DEF Strings
    <3>2. NoSecret \in SecretType
      BY <3>1 DEF NoSecret, Word, SecretType
    <3>3. <<>> \in Seq(SecretType)
      OBVIOUS
    <3>4. QED
      BY <3>2, <3>3, TextsAre
  <2>2. QED
    BY <2>1 DEF ServerType
<1>10. \/ ServerEdited(cfg, env, answers, fresh) =
             [c EXCEPT !.token = token, !.extra = extra, !.header = header]
       \/ ServerEdited(cfg, env, answers, fresh) =
             [c EXCEPT !.token = NoSecret, !.extra = <<>>, !.header = Empty]
  BY <1>3, <1>6, <1>7, <1>8 DEF ServerAuthEdited
<1>11. QED
  BY <1>9, <1>10

\* Normalizing the record options of UDP leaves record options.
LEMMA NormalRecordType ==
  ASSUME NEW r \in RecordType PROVE NormalRecord(r) \in RecordType
<1>1. PICK d \in DurationType : d = DurationOrDefault(r.duration)
  BY DEF RecordType, DurationOrDefault, DurationType
<1>2. PICK m \in Int : m = IF r.maxEvents = 0 THEN 5000 ELSE r.maxEvents
  BY DEF RecordType
<1>3. NormalRecord(r) = [r EXCEPT !.duration = d, !.maxEvents = m]
  BY <1>1, <1>2 DEF NormalRecord
<1>4. [r EXCEPT !.duration = d, !.maxEvents = m] \in RecordType
  BY DEF RecordType
<1>5. QED
  BY <1>3, <1>4

\* normalizeClientConfig takes a client configuration to one.
LEMMA NormalClientType ==
  ASSUME NEW maps, NEW cfg \in ClientType(maps), NEW env
  PROVE  NormalClient(cfg, env) \in ClientType(maps)
<1>1. PICK listen \in AddrType : listen = OrDefault(cfg.listen, NoAddr, DefaultClient.listen)
  <2>1. cfg.listen \in AddrType
    BY DEF ClientType
  <2>2. DefaultClient.listen \in AddrType
    BY DEF DefaultClient, Addr, AddrType, Strings
  <2>3. QED
    BY <2>1, <2>2 DEF OrDefault
<1>2. Text("tcp") \in TextType /\ Text("minecraft") \in TextType
  BY TextsAre DEF Strings
<1>3. PICK network \in TextType, plugin \in TextType :
        /\ network = ToLower(TrimSpace(OrElse(cfg.network, Text("tcp"))))
        /\ plugin = OrElse(cfg.plugin, Text("minecraft"))
  <2>1. cfg.network \in TextType /\ cfg.plugin \in TextType
    BY DEF ClientType
  <2>2. OrElse(cfg.network, Text("tcp")) \in TextType /\ OrElse(cfg.plugin, Text("minecraft")) \in TextType
    BY <1>2, <2>1 DEF OrElse
  <2>3. QED
    BY <2>2, TextsStay
<1>4. PICK listeners \in Seq(ListenerType) :
        listeners = [i \in DOMAIN cfg.udpListeners |-> NormalListener(cfg.udpListeners[i])]
  <2>1. cfg.udpListeners \in Seq(ListenerType)
    BY DEF ClientType
  <2>2. PICK n \in Nat : DOMAIN cfg.udpListeners = 1 .. n
    BY <2>1
  <2>3. ASSUME NEW listener \in ListenerType PROVE NormalListener(listener) \in ListenerType
    <3>1. listener.addr \in TextType /\ listener.target \in TextType
      BY DEF ListenerType
    <3>2. TrimSpace(listener.addr) \in TextType /\ TrimSpace(listener.target) \in TextType
      BY <3>1, TextsStay
    <3>3. QED
      BY <3>2 DEF NormalListener, ListenerType
  <2>4. \A i \in 1 .. n : NormalListener(cfg.udpListeners[i]) \in ListenerType
    BY <2>1, <2>2, <2>3
  <2>5. [i \in DOMAIN cfg.udpListeners |-> NormalListener(cfg.udpListeners[i])] \in Seq(ListenerType)
    BY <2>2, <2>4
  <2>6. QED
    BY <2>5
<1>5. PICK url \in URLType : url = OrDefault(cfg.url, NoURL, DefaultClient.url)
  <2>1. cfg.url \in URLType
    BY DEF ClientType
  <2>2. DefaultClient.url \in URLType
    BY DEF DefaultClient, URL, URLType, Strings
  <2>3. QED
    BY <2>1, <2>2 DEF OrDefault
<1>6. PICK header \in TextType, format \in TextType :
        /\ header = NormalHeader(cfg.header, ResolveSecret(cfg.token, env) # "")
        /\ format = NormalFormat(cfg.format)
  <2>1. cfg.header \in TextType /\ cfg.format \in TextType
    BY DEF ClientType
  <2>2. NormalHeader(cfg.header, ResolveSecret(cfg.token, env) # "") \in TextType
    BY <2>1, TextsStay, NamesAre DEF NormalHeader, OrElse
  <2>3. QED
    BY <2>1, <2>2, NamesAre
<1>7. PICK retries \in Int, record \in RecordType :
        retries = AtLeast(0, cfg.retries, 0) /\ record = NormalRecord(cfg.record)
  <2>1. cfg.retries \in Int /\ cfg.record \in RecordType
    BY DEF ClientType
  <2>2. QED
    BY <2>1, NormalRecordType DEF AtLeast
<1>8. PICK waits \in ClientWaitsType :
        waits = [wait \in DOMAIN cfg.waits |->
                   IF wait \in {"handshake", "read", "write"} THEN cfg.waits[wait]
                   ELSE DurationOrDefault(cfg.waits[wait])]
  <2>1. cfg.waits \in ClientWaitsType
    BY DEF ClientType
  <2>2. [wait \in DOMAIN cfg.waits |->
            IF wait \in {"handshake", "read", "write"} THEN cfg.waits[wait]
            ELSE DurationOrDefault(cfg.waits[wait])] \in ClientWaitsType
    BY <2>1 DEF ClientWaitsType, DurationType, DurationOrDefault
  <2>3. QED
    BY <2>2
<1>9. PICK sizes \in ClientSizesType :
        sizes = [buffer |-> AtLeast(MinimumSafeBufferSize, cfg.sizes.buffer, DefaultClient.sizes.buffer),
                 message |-> AtLeast(1, cfg.sizes.message, DefaultClient.sizes.message)]
  <2>1. cfg.sizes.buffer \in Int /\ cfg.sizes.message \in Int
    BY DEF ClientType, ClientSizesType
  <2>2. DefaultClient.sizes = [buffer |-> 32768, message |-> 1048576]
    BY DEF DefaultClient
  <2>3. [buffer |-> AtLeast(MinimumSafeBufferSize, cfg.sizes.buffer, DefaultClient.sizes.buffer),
         message |-> AtLeast(1, cfg.sizes.message, DefaultClient.sizes.message)] \in ClientSizesType
    BY <2>1, <2>2 DEF AtLeast, MinimumSafeBufferSize, ClientSizesType
  <2>4. QED
    BY <2>3
<1>10. NormalClient(cfg, env) =
         [cfg EXCEPT !.listen = listen, !.network = network, !.udpListeners = listeners,
            !.url = url, !.plugin = plugin, !.header = header, !.retries = retries,
            !.waits = waits, !.sizes = sizes, !.format = format, !.record = record]
  BY <1>1, <1>3, <1>4, <1>5, <1>6, <1>7, <1>8, <1>9 DEF NormalClient
<1>11. [cfg EXCEPT !.listen = listen, !.network = network, !.udpListeners = listeners,
          !.url = url, !.plugin = plugin, !.header = header, !.retries = retries,
          !.waits = waits, !.sizes = sizes, !.format = format, !.record = record] \in ClientType(maps)
  BY DEF ClientType
<1>12. QED
  BY <1>10, <1>11

\* The client configuration the executable carries in itself is one.
LEMMA DefaultClientType ==
  ASSUME NEW maps, <<>> \in maps PROVE DefaultClient \in ClientType(maps)
<1>1. PICK listen \in AddrType : listen = DefaultClient.listen
  <2>1. DefaultClient.listen \in AddrType
    BY DEF DefaultClient, Addr, AddrType, Strings
  <2>2. QED
    BY <2>1
<1>2. PICK url \in URLType : url = DefaultClient.url
  <2>1. DefaultClient.url \in URLType
    BY DEF DefaultClient, URL, URLType, Strings
  <2>2. QED
    BY <2>1
<1>3. PICK network \in TextType, plugin \in TextType, format \in TextType :
        network = Text("tcp") /\ plugin = Text("minecraft") /\ format = Text("text")
  BY TextsAre DEF Strings
<1>4. PICK token \in SecretType, header \in TextType : token = NoSecret /\ header = Empty
  <2>1. "" \in Strings
    BY DEF Strings
  <2>2. QED
    BY <2>1, TextsAre DEF NoSecret, Word, SecretType
<1>5. PICK record \in RecordType : record = DefaultRecord
  <2>1. DefaultRecord \in RecordType
    BY DEF DefaultRecord, RecordType, DurationType
  <2>2. QED
    BY <2>1
<1>6. PICK waits \in ClientWaitsType : waits = DefaultClient.waits
  <2>1. DefaultClient.waits \in ClientWaitsType
    <3>1. DefaultClient.waits =
            [wait \in {"retryInitial", "retryMax", "idle", "ping", "udpIdle", "udpMetrics", "handshake",
                       "read", "write"} |-> "ok"]
      BY DEF DefaultClient
    <3>2. QED
      BY <3>1 DEF ClientWaitsType, DurationType
  <2>2. QED
    BY <2>1
<1>7. PICK sizes \in ClientSizesType : sizes = DefaultClient.sizes
  <2>1. DefaultClient.sizes \in ClientSizesType
    BY DEF DefaultClient, ClientSizesType
  <2>2. QED
    BY <2>1
<1>8. PICK listeners \in Seq(ListenerType) : listeners = <<>>
  <2>1. <<>> \in Seq(ListenerType)
    OBVIOUS
  <2>2. QED
    BY <2>1
<1>9. DefaultClient =
        [listen |-> listen, network |-> network, udpListeners |-> listeners, url |-> url,
         plugin |-> plugin, token |-> token, header |-> header, headers |-> <<>>,
         retries |-> 3, waits |-> waits, sizes |-> sizes, format |-> format, record |-> record]
  BY <1>1, <1>2, <1>3, <1>4, <1>5, <1>6, <1>7, <1>8 DEF DefaultClient
<1>10. [listen |-> listen, network |-> network, udpListeners |-> listeners, url |-> url,
        plugin |-> plugin, token |-> token, header |-> header, headers |-> <<>>,
        retries |-> 3, waits |-> waits, sizes |-> sizes, format |-> format, record |-> record]
         \in ClientType(maps)
  BY DEF ClientType
<1>11. QED
  BY <1>9, <1>10

\* The client configuration of a public server, written for a friend, is one,
\* whatever the template was.
LEMMA PublicClientConfigType ==
  ASSUME NEW maps, <<>> \in maps, NEW template \in ClientType(maps) \cup {Absent, Torn},
         NEW env, NEW plugin \in PluginType, NEW url \in URLType, NEW token \in SecretType
  PROVE  PublicClientConfig(template, env, plugin, url, token) \in ClientType(maps)
<1>1. PICK cfg \in ClientType(maps) :
        cfg = IF LoadsClient(template, env, TRUE, TRUE) THEN NormalClient(template, env)
              ELSE DefaultClient
  <2>1. CASE LoadsClient(template, env, TRUE, TRUE)
    <3>1. template \in ClientType(maps)
      BY <2>1 DEF LoadsClient, Readable
    <3>2. NormalClient(template, env) \in ClientType(maps)
      BY <3>1, NormalClientType
    <3>3. QED
      BY <2>1, <3>2
  <2>2. CASE ~ LoadsClient(template, env, TRUE, TRUE)
    BY <2>2, DefaultClientType
  <2>3. QED
    BY <2>1, <2>2
<1>2. PICK name \in TextType, network \in TextType, header \in TextType :
        name = plugin.name /\ network = plugin.network /\ header = DefaultAuthHeaderName
  BY NamesAre DEF PluginType
<1>3. PublicClientConfig(template, env, plugin, url, token) =
        [cfg EXCEPT !.url = url, !.plugin = name, !.network = network, !.token = token,
                    !.header = header]
  BY <1>1, <1>2 DEF PublicClientConfig
<1>4. [cfg EXCEPT !.url = url, !.plugin = name, !.network = network, !.token = token,
                  !.header = header] \in ClientType(maps)
  BY DEF ClientType
<1>5. QED
  BY <1>3, <1>4

\* The address a user typed, completed by normalizeClientWSURL, is an address.
LEMMA NormalClientWSURLType ==
  ASSUME NEW url \in URLType, NEW local
  PROVE  NormalClientWSURL(url, local) \in URLType
<1>1. url.scheme \in Strings /\ url.host \in Strings /\ url.path \in Strings
  BY DEF URLType
<1>2. "ws" \in Strings /\ "wss" \in Strings /\ "/ws" \in Strings
  BY DEF Strings
<1>3. WSScheme(url, local) \in Strings
  <2>1. CASE url.scheme = ""
    BY <1>2, <2>1 DEF WSScheme
  <2>2. CASE url.scheme = "http"
    BY <1>2, <2>2 DEF WSScheme
  <2>3. CASE url.scheme = "https"
    BY <1>2, <2>3 DEF WSScheme
  <2>4. CASE url.scheme \notin {"", "http", "https"}
    BY <1>1, <2>4 DEF WSScheme
  <2>5. QED
    BY <2>1, <2>2, <2>3, <2>4
<1>4. QED
  BY <1>1, <1>2, <1>3 DEF NormalClientWSURL, URL, URLType

\* A token the user types leaves a client configuration.
LEMMA PromptedTokenType ==
  ASSUME NEW maps, NEW cfg \in ClientType(maps), NEW token \in SecretType
  PROVE  PromptedToken(cfg, token) \in ClientType(maps)
<1>1. PICK header \in TextType : header = OrDefault(cfg.header, Empty, DefaultAuthHeaderName)
  <2>1. cfg.header \in TextType
    BY DEF ClientType
  <2>2. OrDefault(cfg.header, Empty, DefaultAuthHeaderName) \in TextType
    BY <2>1, NamesAre DEF OrDefault
  <2>3. QED
    BY <2>2
<1>2. [cfg EXCEPT !.token = token, !.header = header] \in ClientType(maps)
  BY DEF ClientType
<1>3. PromptedToken(cfg, token) \in {cfg, [cfg EXCEPT !.token = token, !.header = header]}
  BY <1>1 DEF PromptedToken
<1>4. QED
  BY <1>2, <1>3

\* So does the profile fetched from the server,
LEMMA WithProfileType ==
  ASSUME NEW maps, NEW cfg \in ClientType(maps), NEW profile, profile.name \in TextType
  PROVE  WithProfile(cfg, profile) \in ClientType(maps)
<1>1. cfg.plugin \in TextType /\ cfg.network \in TextType
  BY DEF ClientType
<1>2. Text("tcp") \in TextType /\ Text("udp") \in TextType
  BY TextsAre DEF Strings
<1>3. PICK plugin \in TextType : plugin = IF IsBlank(profile.name) THEN cfg.plugin ELSE profile.name
  BY <1>1
<1>4. PICK network \in TextType :
        network = IF ToLower(TrimSpace(profile.network)) \in {Text("tcp"), Text("udp")}
                  THEN ToLower(TrimSpace(profile.network)) ELSE cfg.network
  BY <1>1, <1>2
<1>5. WithProfile(cfg, profile) = [cfg EXCEPT !.plugin = plugin, !.network = network]
  BY <1>3, <1>4 DEF WithProfile
<1>6. [cfg EXCEPT !.plugin = plugin, !.network = network] \in ClientType(maps)
  BY DEF ClientType
<1>7. QED
  BY <1>5, <1>6

\* the template of the plugin it names,
LEMMA FromTemplateType ==
  ASSUME NEW maps, NEW cfg \in ClientType(maps), NEW template \in ClientType(maps),
         NEW profile, profile.name \in TextType, NEW env
  PROVE  FromTemplate(cfg, template, profile, env) \in ClientType(maps)
<1>1. PICK loaded \in ClientType(maps) : loaded = NormalClient(template, env)
  BY NormalClientType
<1>2. /\ cfg.url \in URLType /\ cfg.token \in SecretType /\ cfg.header \in TextType
      /\ cfg.headers \in maps /\ loaded.headers \in maps /\ loaded.network \in TextType
  BY DEF ClientType
<1>3. Text("tcp") \in TextType /\ Text("udp") \in TextType
  BY TextsAre DEF Strings
<1>4. PICK plugin \in TextType : plugin = TrimSpace(profile.name)
  BY TextsStay
<1>5. PICK headers \in maps : headers = IF cfg.headers = <<>> THEN loaded.headers ELSE cfg.headers
  BY <1>2
<1>6. PICK network \in TextType :
        network = IF profile.network \in {Text("tcp"), Text("udp")} THEN profile.network ELSE loaded.network
  BY <1>2, <1>3
<1>7. PICK url \in URLType, token \in SecretType, header \in TextType :
        url = cfg.url /\ token = cfg.token /\ header = cfg.header
  BY <1>2
<1>8. FromTemplate(cfg, template, profile, env) =
        [loaded EXCEPT !.url = url, !.plugin = plugin, !.token = token, !.header = header,
                       !.headers = headers, !.network = network]
  BY <1>1, <1>4, <1>5, <1>6, <1>7 DEF FromTemplate
<1>9. [loaded EXCEPT !.url = url, !.plugin = plugin, !.token = token, !.header = header,
                     !.headers = headers, !.network = network] \in ClientType(maps)
  BY DEF ClientType
<1>10. QED
  BY <1>8, <1>9

\* and the settings page.
LEMMA ClientEditedType ==
  ASSUME NEW maps, NEW cfg \in ClientType(maps), NEW env, NEW answers \in ClientAnswerType,
         NEW local
  PROVE  ClientEdited(cfg, env, answers, local) \in ClientType(maps)
<1>1. /\ cfg.url \in URLType /\ cfg.plugin \in TextType /\ cfg.network \in TextType
      /\ cfg.token \in SecretType /\ cfg.header \in TextType
  BY DEF ClientType
<1>2. /\ answers.url \in Seq(URLType) /\ answers.plugin \in Seq(PluginType)
      /\ answers.network \in Seq(TextType) /\ answers.token \in Seq(SecretType)
      /\ answers.header \in Seq(TextType)
  BY DEF ClientAnswerType
<1>3. Text("tcp") \in TextType /\ Text("udp") \in TextType
  BY TextsAre DEF Strings
<1>4. PICK url \in URLType :
        url = IF answers.url = <<>> THEN cfg.url ELSE NormalClientWSURL(answers.url[1], local)
  <2>1. CASE answers.url = <<>>
    BY <1>1, <2>1
  <2>2. CASE answers.url # <<>>
    <3>1. answers.url[1] \in URLType
      BY <1>2, <2>2
    <3>2. NormalClientWSURL(answers.url[1], local) \in URLType
      BY <3>1, NormalClientWSURLType
    <3>3. QED
      BY <2>2, <3>2
  <2>3. QED
    BY <2>1, <2>2
<1>5. answers.plugin # <<>> => answers.plugin[1] \in PluginType
  BY <1>2
<1>6. PICK plugin \in TextType :
        plugin = IF answers.plugin = <<>> THEN cfg.plugin ELSE answers.plugin[1].name
  <2>1. answers.plugin # <<>> => answers.plugin[1].name \in TextType
    BY <1>5 DEF PluginType
  <2>2. QED
    BY <1>1, <2>1
<1>7. PICK network \in TextType : network = PluginNetwork(answers, ShownNetwork(cfg.network))
  <2>1. ShownNetwork(cfg.network) \in TextType
    BY <1>3 DEF ShownNetwork
  <2>2. Answered(answers.network, ShownNetwork(cfg.network)) \in TextType
    BY <1>2, <2>1 DEF Answered
  <2>3. PluginNetwork(answers, ShownNetwork(cfg.network)) \in TextType
    BY <1>3, <2>2 DEF PluginNetwork
  <2>4. QED
    BY <2>3
<1>8. PICK moved \in ClientType(maps) :
        moved = [cfg EXCEPT !.url = url, !.plugin = plugin, !.network = network]
  <2>1. [cfg EXCEPT !.url = url, !.plugin = plugin, !.network = network] \in ClientType(maps)
    BY DEF ClientType
  <2>2. QED
    BY <2>1
<1>9. ClientEdited(cfg, env, answers, local) = ClientAuthEdited(moved, answers)
  BY <1>4, <1>6, <1>7, <1>8 DEF ClientEdited
<1>10. moved.token \in SecretType /\ moved.header \in TextType
  BY DEF ClientType
<1>11. PICK token \in SecretType : token = Answered(answers.token, moved.token)
  <2>1. Answered(answers.token, moved.token) \in SecretType
    BY <1>2, <1>10 DEF Answered
  <2>2. QED
    BY <2>1
<1>12. PICK header \in TextType :
         header = TrimSpace(Answered(answers.header, ShownHeader(moved.header)))
  <2>1. ShownHeader(moved.header) \in TextType
    BY <1>10, NamesAre DEF ShownHeader
  <2>2. Answered(answers.header, ShownHeader(moved.header)) \in TextType
    BY <1>2, <2>1 DEF Answered
  <2>3. QED
    BY <2>2, TextsStay
<1>13. /\ [moved EXCEPT !.token = token, !.header = header] \in ClientType(maps)
       /\ [moved EXCEPT !.token = NoSecret, !.header = Empty] \in ClientType(maps)
  <2>1. "" \in Strings
    BY DEF Strings
  <2>2. NoSecret \in SecretType /\ Empty \in TextType
    BY <2>1, TextsAre DEF NoSecret, Word, SecretType
  <2>3. QED
    BY <2>2 DEF ClientType
<1>14. ClientAuthEdited(moved, answers) \in
         {[moved EXCEPT !.token = token, !.header = header],
          [moved EXCEPT !.token = NoSecret, !.header = Empty]}
  BY <1>11, <1>12 DEF ClientAuthEdited
<1>15. QED
  BY <1>9, <1>13, <1>14

-----------------------------------------------------------------------------
(* What was normalized, read again.                                        *)

\* The fields of a normalized server configuration that LoadConfig judges
\* again when it reads the file back, each from the fields it was made of.
LEMMA NormalFields ==
  ASSUME NEW cfg \in ServerType, NEW e
  PROVE  LET normal == NormalServer(cfg, e) IN
         /\ normal.token = cfg.token /\ normal.extra = SecretExtras(cfg.token, cfg.extra)
         /\ normal.header = NormalHeader(cfg.header, WSAuthEnabled(cfg, e))
         /\ normal.limits = cfg.limits /\ normal.waits = NormalWaits(cfg.waits)
         /\ normal.enabled = [i \in DOMAIN cfg.enabled |-> TrimSpace(cfg.enabled[i])]
         /\ normal.format = NormalFormat(cfg.format) /\ normal.record = NormalRecord(cfg.record)
<1>1. PICK extra, header, enabled, waits, sizes, format, record, origins, hosts, tcp, http, control, ws, dir :
        /\ extra = SecretExtras(cfg.token, cfg.extra)
        /\ header = NormalHeader(cfg.header, WSAuthEnabled(cfg, e))
        /\ enabled = [i \in DOMAIN cfg.enabled |-> TrimSpace(cfg.enabled[i])]
        /\ waits = NormalWaits(cfg.waits) /\ sizes = NormalSizes(cfg.sizes)
        /\ format = NormalFormat(cfg.format) /\ record = NormalRecord(cfg.record)
        /\ origins = Distinct(cfg.allowedOrigins, {<<>>}) /\ hosts = Distinct(cfg.allowedHosts, {<<>>})
        /\ tcp = OrDefault(cfg.tcp, NoAddr, Default.tcp)
        /\ http = OrDefault(cfg.httpAddr, NoAddr, Default.httpAddr)
        /\ control = OrDefault(cfg.controlAddr, NoAddr, Default.controlAddr)
        /\ ws = OrDefault(cfg.wsEndpoint, "", "/ws")
        /\ dir = OrDefault(cfg.pluginDir, "", "plugins")
  OBVIOUS
<1>2. NormalServer(cfg, e) =
        [cfg EXCEPT !.tcp = tcp, !.httpAddr = http, !.controlAddr = control, !.wsEndpoint = ws,
           !.pluginDir = dir, !.extra = extra, !.header = header, !.allowedOrigins = origins,
           !.allowedHosts = hosts, !.enabled = enabled, !.waits = waits, !.sizes = sizes,
           !.format = format, !.record = record]
  BY <1>1 DEF NormalServer
<1>3. QED
  BY <1>1, <1>2, ZenonT(30) DEF ServerType

\* Normalizing adds no secret and leaves authentication as it was: the extra
\* tokens it drops are the empty and the repeated ones.
LEMMA TokensStay ==
  ASSUME NEW cfg \in ServerType, NEW e
  PROVE  /\ SecretsOf(NormalServer(cfg, e)) \subseteq SecretsOf(cfg)
         /\ WSAuthEnabled(NormalServer(cfg, e), e) = WSAuthEnabled(cfg, e)
<1>1. PICK normal : normal = NormalServer(cfg, e)
  OBVIOUS
<1>2. normal.token = cfg.token /\ normal.extra = SecretExtras(cfg.token, cfg.extra)
  BY <1>1, NormalFields
<1>3. PICK extra \in Seq(SecretType) : extra = cfg.extra
  BY DEF ServerType
<1>4. ToSet(normal.extra) = ToSet(extra) \ {NoSecret, cfg.token}
  BY <1>2, <1>3, DistinctKeeps DEF SecretExtras
<1>5. SecretsOf(normal) \subseteq SecretsOf(cfg) /\ SecretsOf(cfg) \subseteq SecretsOf(normal) \cup {NoSecret}
  BY <1>2, <1>3, <1>4 DEF SecretsOf
<1>6. ResolveSecret(NoSecret, e) = ""
  BY DEF ResolveSecret, NoSecret, Word
<1>7. WSAuthTokens(normal, e) = WSAuthTokens(cfg, e)
  BY <1>5, <1>6 DEF WSAuthTokens
<1>8. QED
  BY <1>1, <1>5, <1>7 DEF WSAuthEnabled

\* Record options that were accepted are accepted after normalizing,
LEMMA RecordTwice ==
  ASSUME NEW r \in RecordType, ValidRecord(r)
  PROVE  ValidRecord(NormalRecord(r))
<1>2. r.maxEvents >= 0 /\ NotNegative(r.duration) /\ r.maxEvents \in Int
  BY DEF ValidRecord, RecordType
<1>3. PICK n : n = NormalRecord(r)
  OBVIOUS
<1>4. n.duration = DurationOrDefault(r.duration) /\ n.maxEvents = IF r.maxEvents = 0 THEN 5000 ELSE r.maxEvents
  BY <1>3 DEF NormalRecord, RecordType
<1>5. NotNegative(n.duration)
  BY <1>2, <1>4 DEF NotNegative, DurationOrDefault
<1>6. n.maxEvents >= 0
  BY <1>2, <1>4
<1>7. QED
  BY <1>3, <1>5, <1>6 DEF ValidRecord

\* a record format that was accepted is not rewritten,
LEMMA FormatTwice ==
  ASSUME NEW format, ValidFormat(format)
  PROVE  NormalFormat(format) = format
<1>1. format \in {Text("text"), Text("json")}
  BY DEF ValidFormat
<1>2. ToLower(TrimSpace(format)) = format
  BY <1>1, WordsAreNormal
<1>3. format # Empty
  <2>1. Text("text").word = "text" /\ Text("json").word = "json" /\ Text("").word = ""
    BY DEF Text
  <2>2. Text("text") # Text("") /\ Text("json") # Text("")
    BY <2>1
  <2>3. QED
    BY <1>1, <2>2 DEF Empty
<1>4. QED
  BY <1>2, <1>3 DEF NormalFormat, OrElse

\* durations that parse still parse once the missing ones have their defaults,
LEMMA WaitsTwice ==
  ASSUME NEW waits \in WaitsType, \A wait \in DOMAIN waits : Parses(waits[wait])
  PROVE  \A wait \in DOMAIN NormalWaits(waits) : Parses(NormalWaits(waits)[wait])
<1>1. PICK n : n = NormalWaits(waits)
  OBVIOUS
<1>2. DOMAIN n = DOMAIN waits
      /\ \A wait \in DOMAIN waits : n[wait] = waits[wait] \/ n[wait] = DurationOrDefault(waits[wait])
  BY <1>1 DEF NormalWaits, WaitsType
<1>3. QED
  BY <1>1, <1>2 DEF Parses, DurationOrDefault

\* and a normalized auth header is left alone.
LEMMA HeaderTwice ==
  ASSUME NEW header, NEW authenticated \in BOOLEAN
  PROVE  LET normal == NormalHeader(header, authenticated) IN
         authenticated => NormalHeader(normal, authenticated) = normal
<1>1. SUFFICES ASSUME authenticated
               PROVE  LET normal == NormalHeader(header, TRUE) IN NormalHeader(normal, TRUE) = normal
  OBVIOUS
<1>2. PICK name : name = AuthHeaderName(header)
  OBVIOUS
<1>3. AuthHeaderName(name) = name /\ AuthHeaderName(DefaultAuthHeaderName) = DefaultAuthHeaderName
      /\ DefaultAuthHeaderName # Empty
  BY <1>2, HeadersAreNormal
<1>4. QED
  BY <1>2, <1>3 DEF NormalHeader, OrElse

\* The list of plugins with the selected one first starts with that name,
\* trimmed; it names no plugin twice and none by a blank name. This is what
\* the validation of plugins.enabled asks for when the file is read back.
LEMMA SelectedFirstIs ==
  ASSUME NEW name \in TextType, ~ IsBlank(name), NEW enabled \in Seq(TextType),
         \A i \in DOMAIN enabled : TrimSpace(enabled[i]) = enabled[i]
  PROVE  LET selected == SelectedFirst(name, enabled) IN
         /\ selected # <<>> /\ selected[1] = TrimSpace(name)
         /\ IsInjective(selected) /\ Empty \notin ToSet(selected)
         /\ \A i \in DOMAIN selected : TrimSpace(selected[i]) = selected[i]
<1>1. PICK n \in TextType : n = TrimSpace(name)
  BY TextsStay
<1>2. n # Empty /\ TrimSpace(n) = n
  BY <1>1, NormalTwice DEF IsBlank
<1>3. PICK s \in Seq(TextType) :
        /\ s = <<n>> \o enabled /\ s # <<>> /\ s[1] = n
        /\ \A i \in DOMAIN s : s[i] = n \/ \E j \in DOMAIN enabled : s[i] = enabled[j]
  <2>1. PICK one \in Seq(TextType) : one = <<n>>
    <3>1. <<n>> \in Seq(TextType)
      OBVIOUS
    <3>2. QED
      BY <3>1
  <2>2. PICK s \in Seq(TextType) : s = one \o enabled
    <3>1. one \o enabled \in Seq(TextType)
      OBVIOUS
    <3>2. QED
      BY <3>1
  <2>3. Len(s) = 1 + Len(enabled) /\ DOMAIN s = 1 .. Len(s) /\ Len(enabled) \in Nat /\ DOMAIN enabled = 1 .. Len(enabled)
    BY <2>1, <2>2
  <2>4. \A i \in 1 .. Len(s) : s[i] = IF i = 1 THEN n ELSE enabled[i - 1]
    BY <2>1, <2>2, <2>3
  <2>5. s # <<>> /\ s[1] = n
    BY <2>3, <2>4
  <2>6. \A i \in DOMAIN s : s[i] = n \/ \E j \in DOMAIN enabled : s[i] = enabled[j]
    <3>1. ASSUME NEW i \in DOMAIN s, i # 1 PROVE \E j \in DOMAIN enabled : s[i] = enabled[j]
      <4>1. i - 1 \in DOMAIN enabled /\ s[i] = enabled[i - 1]
        BY <2>3, <2>4, <3>1
      <4>2. QED
        BY <4>1
    <3>2. QED
      BY <2>5, <3>1
  <2>7. QED
    BY <2>1, <2>2, <2>5, <2>6
<1>4. PICK selected : selected = Distinct(s, {Empty})
  OBVIOUS
<1>5. /\ selected \in Seq(TextType) /\ ToSet(selected) = ToSet(s) \ {Empty} /\ IsInjective(selected)
      /\ selected # <<>> /\ selected[1] = n
  <2>1. PICK drop : drop = {Empty}
    OBVIOUS
  <2>2. s # <<>> /\ s[1] \notin drop
    BY <1>2, <1>3, <2>1
  <2>3. /\ Distinct(s, drop) \in Seq(TextType) /\ ToSet(Distinct(s, drop)) = ToSet(s) \ drop
        /\ IsInjective(Distinct(s, drop))
        /\ Distinct(s, drop) # <<>> /\ Distinct(s, drop)[1] = s[1]
    BY <2>2, DistinctKeeps, SMTT(30)
  <2>4. QED
    BY <1>3, <1>4, <2>1, <2>3
<1>6. ASSUME NEW i \in DOMAIN selected PROVE TrimSpace(selected[i]) = selected[i]
  <2>1. selected[i] \in ToSet(s)
    BY <1>5, <1>6 DEF ToSet
  <2>2. PICK j \in DOMAIN s : selected[i] = s[j]
    BY <2>1 DEF ToSet
  <2>3. QED
    BY <1>2, <1>3, <2>2
<1>7. QED
  BY <1>1, <1>3, <1>4, <1>5, <1>6 DEF SelectedFirst

-----------------------------------------------------------------------------
(* The secrets of a configuration, and a server that is closed.            *)

\* The secrets of a server configuration are secrets, its token one of them.
LEMMA SecretsAre ==
  ASSUME NEW server \in ServerType
  PROVE  SecretsOf(server) \subseteq SecretType /\ server.token \in SecretsOf(server)
<1>1. server.token \in SecretType /\ server.extra \in Seq(SecretType)
  BY DEF ServerType
<1>2. PICK extra \in Seq(SecretType) : extra = server.extra
  BY <1>1
<1>3. ToSet(extra) \subseteq SecretType
  BY DEF ToSet
<1>4. QED
  BY <1>1, <1>2, <1>3 DEF SecretsOf

\* A server with this configuration and environment lets nobody in silently:
\* when it names any secret at all, authentication is on and no secret names a
\* variable that is unset.
Closed(server, e) ==
  SecretsOf(server) # {NoSecret} =>
    /\ WSAuthEnabled(server, e)
    /\ \A secret \in SecretsOf(server) : ~ MissingEnv(secret, e)

\* A configuration none of whose secrets names an unset variable is closed.
LEMMA StrictIsClosed ==
  ASSUME NEW server \in ServerType, NEW e, \A secret \in SecretsOf(server) : ~ MissingEnv(secret, e)
  PROVE  Closed(server, e)
<1>1. ASSUME SecretsOf(server) # {NoSecret} PROVE WSAuthEnabled(server, e)
  <2>1. PICK secret \in SecretsOf(server) : secret # NoSecret
    BY <1>1, SecretsAre
  <2>2. ResolveSecret(secret, e) # ""
    <3>1. CASE secret.env
      BY <2>1, <3>1 DEF MissingEnv
    <3>2. CASE ~ secret.env
      <4>1. secret \in SecretType
        BY SecretsAre
      <4>2. secret.name # ""
        <5>1. ASSUME secret.name = "" PROVE FALSE
          <6>1. secret = [env |-> FALSE, name |-> ""]
            BY <3>2, <4>1, <5>1 DEF SecretType
          <6>2. QED
            BY <2>1, <6>1 DEF NoSecret, Word
        <5>2. QED
          BY <5>1
      <4>3. QED
        BY <3>2, <4>2 DEF ResolveSecret
    <3>3. QED
      BY <3>1, <3>2
  <2>3. QED
    BY <2>1, <2>2 DEF WSAuthEnabled, WSAuthTokens
<1>2. QED
  BY <1>1 DEF Closed

\* A public server has one secret: the token it is given.
LEMMA PublicSecrets ==
  ASSUME NEW cfg \in ServerType, NEW plugin, NEW ports, NEW host, NEW token
  PROVE  /\ SecretsOf(PublicServerConfig(cfg, plugin, ports, host, token)) = {token}
<1>1. PICK server : server = PublicServerConfig(cfg, plugin, ports, host, token)
  OBVIOUS
<1>2. server.token = token /\ server.extra = <<>>
  BY <1>1 DEF PublicServerConfig, ServerType
<1>3. ToSet(server.extra) = {}
  BY <1>2 DEF ToSet
<1>4. QED
  BY <1>1, <1>2, <1>3 DEF SecretsOf

-----------------------------------------------------------------------------
(* The headers of a request, and what a server answers.                    *)

\* x is the header table of a request that sets each name of the map H once:
\* each canonical name carries the value of the one entry that has it.
Ordered(x, H) ==
  /\ x = [n \in {AuthHeaderName(m) : m \in DOMAIN H} |-> x[n]]
  /\ \A n \in DOMAIN H : x[AuthHeaderName(n)] = H[n]

\* A map with no two names for one header is set to the same table in
\* whichever order Go walks it.
LEMMA OneOrder ==
  ASSUME NEW H, \A m, n \in DOMAIN H : AuthHeaderName(m) = AuthHeaderName(n) => m = n,
         NEW x \in SetInAnyOrder(H)
  PROVE  Ordered(x, H)
<1> DEFINE names == {AuthHeaderName(n) : n \in DOMAIN H}
<1>1. PICK f \in [names -> DOMAIN H] :
        (\A n \in names : AuthHeaderName(f[n]) = n) /\ x = [n \in names |-> H[f[n]]]
  BY DEF SetInAnyOrder
<1>2. ASSUME NEW n \in DOMAIN H PROVE x[AuthHeaderName(n)] = H[n]
  <2>1. AuthHeaderName(n) \in names
    OBVIOUS
  <2>2. PICK m : m = AuthHeaderName(n) /\ m \in names
    BY <2>1
  <2>3. AuthHeaderName(f[m]) = m /\ f[m] \in DOMAIN H
    BY <1>1, <2>2
  <2>4. f[m] = n
    BY <2>2, <2>3
  <2>5. QED
    BY <1>1, <2>2, <2>4
<1>3. x = [n \in names |-> x[n]]
  BY <1>1
<1>4. QED
  BY <1>2, <1>3 DEF Ordered

\* There is only one such table.
LEMMA SameOrder ==
  ASSUME NEW H, NEW x, NEW y, Ordered(x, H), Ordered(y, H)
  PROVE  x = y
<1>1. PICK keys : keys = {AuthHeaderName(m) : m \in DOMAIN H}
  OBVIOUS
<1>2. x = [n \in keys |-> x[n]] /\ y = [n \in keys |-> y[n]]
  BY <1>1 DEF Ordered
<1>3. \A n \in keys : x[n] = y[n]
  BY <1>1 DEF Ordered
<1>4. QED
  BY <1>2, <1>3

\* The headers a server reads beside the host.
Others(headers) == Restrict(headers, DOMAIN headers \ {HostHeader})

\* A request as the server receives it, field by field: the headers without
\* the host, and no origin when they name none.
LEMMA Requests ==
  ASSUME NEW where, NEW headers, NEW host
  PROVE  LET request == Received(where, headers, host) IN
         /\ request.method = "GET" /\ request.path = where /\ request.plugin = Empty
         /\ request.target = Empty /\ request.headers = Others(headers) /\ request.host = host
         /\ OriginHeader \notin DOMAIN headers => request.origin = NoOrigin
BY DEF Received, Request, Others

\* The dial asks the host it is given, unless the headers name one.
LEMMA Dials ==
  ASSUME NEW where, NEW headers, NEW host
  PROVE  \E named : /\ DialRequest(where, headers, host) = Received(where, headers, named)
                    /\ HostHeader \notin DOMAIN headers => named = host
BY DEF DialRequest

\* What a WebSocket endpoint answers a GET: never 200; 401 to one without the
\* token; and to one with it, from an accepted origin, only 101, 400 or 502,
\* from another 403 too.
LEMMA SocketAnswers ==
  ASSUME NEW s, NEW e, NEW plugins, NEW request, request.method = "GET"
  PROVE  /\ WebSocketStatus(s, e, plugins, request) # 200
         /\ ~ ValidateWSToken(s, e, request) => WebSocketStatus(s, e, plugins, request) = 401
         /\ ValidateWSToken(s, e, request) =>
              WebSocketStatus(s, e, plugins, request) \in {101, 400, 502, 403}
         /\ ValidateWSToken(s, e, request) /\ CheckWebSocketOrigin(s, request) =>
              WebSocketStatus(s, e, plugins, request) \in {101, 400, 502}
BY DEF WebSocketStatus

\* Headers to which /api/info answers 200 are not unauthorized at the WebSocket
\* endpoint, and forbidden only if they name a host or an origin: both ask the
\* same token, and the same host of the URL.
LEMMA PreflightPasses ==
  ASSUME NEW s, NEW e, NEW plugins, NEW headers, NEW host,
         DataStatus(s, e, plugins, FetchRequest("/api/info", headers, host)) = 200
  PROVE  Welcome(headers, DataStatus(s, e, plugins, DialRequest(s.wsEndpoint, headers, host)))
<1>0. PICK ws : ws = s.wsEndpoint
  OBVIOUS
<1>1. PICK named : /\ DialRequest(ws, headers, host) = Received(ws, headers, named)
                   /\ HostHeader \notin DOMAIN headers => named = host
  BY Dials
<1>2. PICK q, r : /\ q = Received("/api/info", headers, host)
                  /\ r = Received(ws, headers, named)
  OBVIOUS
<1>3. /\ q.method = "GET" /\ q.path = "/api/info" /\ q.headers = Others(headers) /\ q.host = host
      /\ r.method = "GET" /\ r.path = ws /\ r.headers = Others(headers) /\ r.host = named
      /\ OriginHeader \notin DOMAIN headers => r.origin = NoOrigin
  BY <1>2, Requests
<1>4. HostAllowed(s, q) /\ ValidateWSToken(s, e, q)
  <2>1. WebSocketStatus(s, e, plugins, q) # 200
    BY <1>3, SocketAnswers
  <2>2. DataStatus(s, e, plugins, q) = 200
    BY <1>2 DEF FetchRequest
  <2>3. q.path = "/api/info" /\ q.path # "/api/ping"
    BY <1>3
  <2>4. QED
    BY <2>1, <2>2, <2>3 DEF DataStatus
<1>5. ValidateWSToken(s, e, r)
  BY <1>3, <1>4 DEF ValidateWSToken, Provided
<1>6. ~ NamesAddress(headers) => HostAllowed(s, r) /\ CheckWebSocketOrigin(s, r)
  <2>1. ASSUME ~ NamesAddress(headers) PROVE r.host = q.host /\ r.origin = NoOrigin
    BY <1>1, <1>3, <2>1 DEF NamesAddress
  <2>2. QED
    BY <1>4, <2>1 DEF HostAllowed, CheckWebSocketOrigin
<1>7. /\ WebSocketStatus(s, e, plugins, r) \in {101, 400, 502, 403}
      /\ ~ NamesAddress(headers) => WebSocketStatus(s, e, plugins, r) \in {101, 400, 502}
  BY <1>3, <1>5, <1>6, SocketAnswers
<1>8. /\ HostAllowed(s, r) => DataStatus(s, e, plugins, r) \in {WebSocketStatus(s, e, plugins, r), 200}
      /\ ~ HostAllowed(s, r) => DataStatus(s, e, plugins, r) = 403
  <2>1. r.path = s.wsEndpoint /\ r.method = "GET"
    BY <1>0, <1>3
  <2>2. QED
    BY <1>5, <2>1 DEF DataStatus, Get
<1>9. Welcome(headers, DataStatus(s, e, plugins, r))
  BY <1>6, <1>7, <1>8 DEF Welcome
<1>10. QED
  BY <1>0, <1>1, <1>2, <1>9

-----------------------------------------------------------------------------
(* Types.                                                                  *)

\* The program is at one of the labels, or is writing a file and goes there
\* next.
Going(l, h, labels) == l \in labels \/ (l = "fill" /\ h.next \in labels)

\* The content has the type of the path: each file is read and written as one
\* kind of configuration.
WriteOK(path, content) ==
  \/ path \in ServerPaths /\ content \in ServerFile
  \/ path \in ClientPaths /\ content \in ClientFile

\* What a program holds at each label. A configuration chosen two steps ago is
\* still there when it is used, and the file under way is of the right kind.
Placed(l, h) ==
  /\ l = "fill" => h.next \in {"layout", "reload", "free", "hint", "listen", "preflight", "end"}
  /\ l = "fill" => WriteOK(h.path, h.content)
  /\ l \in FlowNames => h.flow = l
  /\ l = "choose" => h.flow = "wizard"
  /\ Going(l, h, {"layout", "seed"}) => h.flow \in FlowNames
  /\ l = "seed" => h.path \in ServerPaths \cup ClientPaths
  /\ Going(l, h, {"free", "template", "reload", "hint"}) =>
       /\ h.plugin \in MenuPlugins(Folders) /\ h.edit \in Ports /\ h.flow \in {"server", "wizard"}
  /\ Going(l, h, {"hint"}) => h.flow = "wizard"
  /\ Going(l, h, {"free", "hint", "listen", "running"}) => h.server \in ServerType
  /\ Going(l, h, {"input", "profile", "preflight", "dial"}) => h.client \in ClientType(HeaderMaps)
  /\ l = "running" => Loads(Disk, h.server.enabled)

\* One program: the types of what it holds, and what it holds where it is.
LocalOK(l, h) == HandTypeOK(h) /\ Placed(l, h)

\* The files, the programs, the lock and the tokens.
CoreOK ==
  /\ FilesTypeOK(files)
  /\ author \in [ServerPaths \cup ClientPaths -> Consoles \cup {Nobody}]
  /\ at \in [Consoles -> Labels]
  /\ hand = [d \in Consoles |-> hand[d]] /\ \A c \in Consoles : LocalOK(at[c], hand[c])
  /\ lock \in Consoles \cup {Nobody}
  /\ minted \in 0 .. Len(Tokens)

\* The inductive type invariant: ConsoleTypeOK, with what each program holds
\* at each label.
TypeInv ==
  /\ CoreOK
  /\ environ \in [Consoles -> Environments]
  /\ flows \in [Consoles -> Nat] /\ crashes \in Nat

\* The fields of what a program holds.
Fields ==
  {"flow", "server", "client", "plugin", "told", "require", "retried", "checked", "edit",
   "path", "content", "next"}

\* One program of CoreOK.
LEMMA HandsAre ==
  ASSUME CoreOK, NEW c \in Consoles
  PROVE  HandTypeOK(hand[c]) /\ Placed(at[c], hand[c]) /\ DOMAIN hand[c] = Fields
<1>1. HandTypeOK(hand[c]) /\ Placed(at[c], hand[c])
  BY DEF CoreOK, LocalOK
<1>2. QED
  BY <1>1 DEF HandTypeOK, Idle, Fields

\* Leaving the lock or the tokens alone, or releasing the lock, keeps their
\* types.
LEMMA LocksAre ==
  ASSUME CoreOK, NEW c \in Consoles
  PROVE  /\ (lock' = lock => lock' \in Consoles \cup {Nobody})
         /\ (minted' = minted => minted' \in 0 .. Len(Tokens))
         /\ (lock' = Released(c) => lock' \in Consoles \cup {Nobody})
BY DEF CoreOK, Released

\* The least of a set of numbers is one of them.
LEMMA MinIsIn ==
  ASSUME NEW S \in SUBSET Nat, S # {}
  PROVE  Min(S) \in S
<1>1. PICK n \in S : \A m \in S : n <= m
  <2>1. PICK n : n \in S
    OBVIOUS
  <2> DEFINE P == {k \in 0 .. n : (\E m \in S : m <= k) => \E m \in S : \A x \in S : m <= x}
  <2>2. 0 \in P
    <3>1. ASSUME NEW m \in S, m <= 0 PROVE \A x \in S : m <= x
      BY <3>1
    <3>2. QED
      BY <2>1, <3>1
  <2>3. ASSUME NEW k \in 1 .. n, k - 1 \in P PROVE k \in P
    <3>1. ASSUME NEW m \in S, m <= k PROVE \E y \in S : \A x \in S : y <= x
      <4>1. CASE \E y \in S : y <= k - 1
        BY <2>3, <4>1
      <4>2. CASE \A y \in S : ~ (y <= k - 1)
        <5>1. \A x \in S : m <= x
          BY <2>1, <3>1, <4>2
        <5>2. QED
          BY <5>1
      <4>3. QED
        BY <4>1, <4>2
    <3>2. k \in 0 .. n
      BY <2>1
    <3>3. QED
      BY <3>1, <3>2
  <2>4. n \in Nat
    BY <2>1
  <2>5. n \in P
    <3> HIDE DEF P
    <3>1. QED
      BY <2>2, <2>3, <2>4, Induction
  <2>6. n <= n
    BY <2>4
  <2>7. QED
    BY <2>1, <2>5, <2>6
<1>2. QED
  BY <1>1 DEF Min

\* A plugin of the menu is a plugin; its client file is no server file and its
\* server file no client file.
LEMMA MenuPluginsType ==
  ASSUME NEW plugin \in MenuPlugins(Folders)
  PROVE  plugin \in PluginType /\ plugin.client \notin ServerPaths /\ plugin.server \notin ClientPaths
<1>1. PICK folder \in DOMAIN Folders : plugin = MenuPlugin(folder, Folders[folder])
  BY DEF MenuPlugins
<1>2. PICK doc \in PluginType : doc = Folders[folder] /\ doc.server \notin ClientPaths /\ doc.client \notin ServerPaths
  BY FoldersAssumption
<1>3. doc.name \in TextType /\ doc.network \in TextType /\ doc.server \in Strings /\ doc.client \in Strings
  BY DEF PluginType
<1>4. folder \in TextType /\ Text("tcp") \in TextType
  BY FoldersAssumption, TextsAre DEF Strings
<1>5. PICK name \in TextType, network \in TextType :
        /\ name = OrElse(TrimSpace(doc.name), folder)
        /\ network = OrElse(ToLower(TrimSpace(doc.network)), Text("tcp"))
  <2>1. TrimSpace(doc.name) \in TextType /\ ToLower(TrimSpace(doc.network)) \in TextType
    BY <1>3, TextsStay
  <2>2. QED
    BY <1>4, <2>1 DEF OrElse
<1>6. plugin = [name |-> name, network |-> network, server |-> doc.server, client |-> doc.client]
  BY <1>1, <1>2, <1>5 DEF MenuPlugin
<1>7. [name |-> name, network |-> network, server |-> doc.server, client |-> doc.client] \in PluginType
  BY <1>3 DEF PluginType
<1>8. QED
  BY <1>2, <1>6, <1>7

\* A file that LoadConfig or LoadClientConfig accepts is a configuration of
\* its kind, normalized too.
LEMMA LoadedType ==
  ASSUME NEW content, NEW env, NEW strict
  PROVE  /\ content \in ServerFile /\ LoadsServer(content, env, strict) =>
              content \in ServerType /\ NormalServer(content, env) \in ServerType
         /\ \A checkURL : content \in ClientFile /\ LoadsClient(content, env, strict, checkURL) =>
              /\ content \in ClientType(HeaderMaps)
              /\ NormalClient(content, env) \in ClientType(HeaderMaps)
<1>1. ASSUME content \in ServerFile, LoadsServer(content, env, strict)
      PROVE  content \in ServerType /\ NormalServer(content, env) \in ServerType
  <2>1. content \in ServerType
    BY <1>1 DEF ServerFile, LoadsServer, Readable
  <2>2. QED
    BY <2>1, NormalServerType
<1>2. ASSUME NEW checkURL, content \in ClientFile, LoadsClient(content, env, strict, checkURL)
      PROVE  content \in ClientType(HeaderMaps) /\ NormalClient(content, env) \in ClientType(HeaderMaps)
  <2>1. content \in ClientType(HeaderMaps)
    BY <1>2 DEF ClientFile, LoadsClient, Readable
  <2>2. QED
    BY <2>1, NormalClientType
<1>3. QED
  BY <1>1, <1>2

\* The next generated token is a word, and not the empty one.
LEMMA FreshToken ==
  ASSUME CoreOK, minted < Len(Tokens)
  PROVE  /\ Word(Tokens[minted + 1]) \in SecretType /\ Tokens[minted + 1] # ""
         /\ minted + 1 \in 0 .. Len(Tokens)
<1>1. PICK n \in Nat : n = Len(Tokens) /\ DOMAIN Tokens = 1 .. n /\ \A i \in 1 .. n : Tokens[i] \in Strings
  <2>1. Tokens \in Seq(Strings)
    BY ValuesAssumption
  <2>2. QED
    BY <2>1
<1>2. minted \in 0 .. n /\ minted < n
  BY <1>1 DEF CoreOK
<1>3. minted + 1 \in 1 .. n
  BY <1>2
<1>4. Tokens[minted + 1] \in Strings /\ Tokens[minted + 1] # ""
  BY <1>1, <1>3, ValuesAssumption
<1>5. Word(Tokens[minted + 1]) \in SecretType
  BY <1>4 DEF Word, SecretType
<1>6. minted + 1 \in 0 .. n
  BY <1>3
<1>7. QED
  BY <1>1, <1>4, <1>5, <1>6

\* The plugin a running server uses by default has a name that is a text.
LEMMA DefaultNameType ==
  ASSUME CoreOK, NEW d \in Consoles, Running(d)
  PROVE  DefaultName(hand[d].server.enabled) \in TextType
<1>1. PICK k : k = hand[d]
  OBVIOUS
<1>2. Placed("running", k)
  BY <1>1, HandsAre DEF Running
<1>3. k.server \in ServerType /\ Loads(Disk, k.server.enabled)
  BY <1>2 DEF Placed, Going
<1>4. PICK enabled \in Seq(TextType) : enabled = k.server.enabled
  BY <1>3 DEF ServerType
<1>5. enabled # <<>>
  BY <1>3, <1>4 DEF Loads
<1>6. enabled[1] \in TextType
  BY <1>5
<1>7. QED
  BY <1>1, <1>4, <1>6, TextsStay DEF DefaultName

\* A program that goes to a label with something that fits there leaves every
\* program in order.
LEMMA Frame ==
  ASSUME CoreOK, NEW c \in Consoles, NEW l \in Labels, NEW h, Goto(c, l), Hold(c, h), LocalOK(l, h)
  PROVE  /\ at' \in [Consoles -> Labels]
         /\ hand' = [d \in Consoles |-> hand'[d]] /\ \A d \in Consoles : LocalOK(at'[d], hand'[d])
<1>1. at \in [Consoles -> Labels] /\ hand = [d \in Consoles |-> hand[d]] /\ \A d \in Consoles : LocalOK(at[d], hand[d])
  BY DEF CoreOK
<1>2. at' = [at EXCEPT ![c] = l] /\ hand' = [hand EXCEPT ![c] = h]
  BY DEF Goto, Hold
<1>3. at' \in [Consoles -> Labels] /\ hand' = [d \in Consoles |-> hand'[d]]
  BY <1>1, <1>2
<1>4. ASSUME NEW d \in Consoles PROVE LocalOK(at'[d], hand'[d])
  <2>1. CASE d = c
    <3>1. at'[d] = l /\ hand'[d] = h
      BY <1>1, <1>2, <2>1
    <3>2. QED
      BY <3>1
  <2>2. CASE d # c
    <3>1. at'[d] = at[d] /\ hand'[d] = hand[d]
      BY <1>1, <1>2, <2>2
    <3>2. QED
      BY <1>1, <3>1
  <2>3. QED
    BY <2>1, <2>2
<1>5. QED
  BY <1>3, <1>4

\* Such a step, when it writes no file, keeps CoreOK.
LEMMA FrameKeeps ==
  ASSUME CoreOK, NEW c \in Consoles, NEW l \in Labels, NEW h, Goto(c, l), Hold(c, h), LocalOK(l, h),
         UNCHANGED <<files, author>>, lock' \in Consoles \cup {Nobody}, minted' \in 0 .. Len(Tokens)
  PROVE  CoreOK'
<1>1. /\ at' \in [Consoles -> Labels]
      /\ hand' = [d \in Consoles |-> hand'[d]] /\ \A d \in Consoles : LocalOK(at'[d], hand'[d])
  BY Frame
<1>2. FilesTypeOK(files)' /\ author' \in [ServerPaths \cup ClientPaths -> Consoles \cup {Nobody}]
  BY DEF CoreOK, FilesTypeOK
<1>3. QED
  BY <1>1, <1>2 DEF CoreOK

\* Such a step, when it writes one file, keeps CoreOK if the content has the
\* type of the path.
LEMMA FrameWrites ==
  ASSUME CoreOK, NEW c \in Consoles, NEW l \in Labels, NEW h, Goto(c, l), Hold(c, h), LocalOK(l, h),
         NEW path, NEW content, WriteOK(path, content),
         files' = [files EXCEPT ![path] = content], author' = [author EXCEPT ![path] = c],
         lock' \in Consoles \cup {Nobody}, minted' \in 0 .. Len(Tokens)
  PROVE  CoreOK'
<1>1. /\ at' \in [Consoles -> Labels]
      /\ hand' = [d \in Consoles |-> hand'[d]] /\ \A d \in Consoles : LocalOK(at'[d], hand'[d])
  BY Frame
<1>2. FilesTypeOK(files) /\ author \in [ServerPaths \cup ClientPaths -> Consoles \cup {Nobody}]
  BY DEF CoreOK
<1>3. FilesTypeOK(files')
  BY <1>2, PathsAssumption DEF FilesTypeOK, WriteOK
<1>4. author' \in [ServerPaths \cup ClientPaths -> Consoles \cup {Nobody}]
  BY <1>2
<1>5. QED
  BY <1>1, <1>3, <1>4 DEF CoreOK, FilesTypeOK

\* A program that is down or in its menu holds nothing.
LEMMA IdleOK == LocalOK("down", Idle) /\ LocalOK("menu", Idle)
<1>1. Idle.flow = "none" /\ Idle.server = Absent /\ Idle.client = Absent /\ Idle.plugin = Empty
      /\ Idle.told = NoSecret /\ Idle.require = FALSE /\ Idle.retried = FALSE /\ Idle.path = "" /\ Idle.next = ""
  BY DEF Idle
<1>2. NoSecret \in SecretType
  <2>1. "" \in Strings
    BY DEF Strings
  <2>2. QED
    BY <2>1 DEF NoSecret, Word, SecretType
<1>3. HandTypeOK(Idle)
  BY <1>1, <1>2 DEF HandTypeOK
<1>4. QED
  BY <1>3 DEF LocalOK, Placed, Going, FlowNames

\* A step to another label with the same things in hand keeps CoreOK if they
\* fit there.
LEMMA GotoOK ==
  ASSUME CoreOK, NEW c \in Consoles, NEW l \in Labels, Goto(c, l), Placed(l, hand[c]),
         UNCHANGED <<files, author, hand, lock, minted>>
  PROVE  CoreOK'
<1>1. HandTypeOK(hand[c])
  BY HandsAre
<1>2. Hold(c, hand[c])
  BY DEF Hold, CoreOK
<1>3. LocalOK(l, hand[c])
  BY <1>1 DEF LocalOK
<1>4. QED
  BY <1>2, <1>3, LocksAre, FrameKeeps

\* Leaving a flow keeps CoreOK.
LEMMA LeaveOK ==
  ASSUME CoreOK, NEW c \in Consoles, Leave(c)
  PROVE  CoreOK'
<1>1. Ended(hand[c].flow) \in {"down", "menu"}
  BY DEF Ended
<1>2. Ended(hand[c].flow) \in Labels
  BY <1>1 DEF Labels
<1>3. Goto(c, Ended(hand[c].flow)) /\ Hold(c, Idle) /\ UNCHANGED <<files, author, minted>>
  BY DEF Leave
<1>4. LocalOK(Ended(hand[c].flow), Idle)
  BY <1>1, IdleOK
<1>5. lock' \in Consoles \cup {Nobody} /\ minted' \in 0 .. Len(Tokens)
  BY DEF CoreOK, Leave, Released
<1>6. QED
  BY <1>2, <1>3, <1>4, <1>5, FrameKeeps

\* The first half of os.WriteFile keeps CoreOK: the file is empty, and the
\* content and what comes next are in hand, of the right types.
LEMMA BeginWriteOK ==
  ASSUME CoreOK, NEW c \in Consoles, NEW path, NEW content, WriteOK(path, content),
         NEW next \in {"layout", "reload", "free", "hint", "listen", "preflight", "end"},
         NEW h, HandTypeOK(h),
         next \in {"layout"} => h.flow \in FlowNames,
         next \in {"free", "reload", "hint"} =>
           /\ h.plugin \in MenuPlugins(Folders) /\ h.edit \in Ports /\ h.flow \in {"server", "wizard"},
         next = "hint" => h.flow = "wizard",
         next \in {"free", "hint", "listen"} => h.server \in ServerType,
         next = "preflight" => h.client \in ClientType(HeaderMaps),
         BeginWrite(c, path, content, next, h),
         lock' \in Consoles \cup {Nobody}, minted' \in 0 .. Len(Tokens)
  PROVE  CoreOK'
<1>1. PICK k : k = [h EXCEPT !.path = path, !.content = content, !.next = next]
  OBVIOUS
<1>2. DOMAIN h = {"flow", "server", "client", "plugin", "told", "require", "retried", "checked", "edit",
                  "path", "content", "next"}
  BY DEF HandTypeOK, Idle
<1>3. /\ DOMAIN k = DOMAIN h
      /\ k.path = path /\ k.content = content /\ k.next = next
      /\ k.flow = h.flow /\ k.server = h.server /\ k.client = h.client /\ k.plugin = h.plugin
      /\ k.told = h.told /\ k.require = h.require /\ k.retried = h.retried /\ k.edit = h.edit
  BY <1>1, <1>2
<1>4. path \in ServerPaths \cup ClientPaths
  BY DEF WriteOK
<1>5. next \in Labels \cup {"end", ""}
  BY DEF Labels
<1>6. HandTypeOK(k)
  BY <1>3, <1>4, <1>5 DEF HandTypeOK
<1>7. Placed("fill", k)
  BY <1>3 DEF Placed, Going, FlowNames
<1>8. Goto(c, "fill") /\ Hold(c, k)
  BY <1>1 DEF BeginWrite
<1>9. "fill" \in Labels
  BY DEF Labels
<1>10. WriteOK(path, Torn)
  BY DEF WriteOK, ServerFile, ClientFile
<1>11. files' = [files EXCEPT ![path] = Torn] /\ author' = [author EXCEPT ![path] = c]
  BY DEF BeginWrite
<1>12. LocalOK("fill", k)
  BY <1>6, <1>7 DEF LocalOK
<1>13. QED
  BY <1>8, <1>9, <1>10, <1>11, <1>12, FrameWrites

\* The initial states have their types.
LEMMA TypeInvInit == Init => TypeInv
<1> SUFFICES ASSUME Init PROVE TypeInv
  OBVIOUS
<1>1. files \in StartFiles /\ author = [f \in DOMAIN files |-> Nobody] /\ at = [c \in Consoles |-> "down"]
      /\ hand = [c \in Consoles |-> Idle] /\ lock = Nobody /\ minted = 0 /\ crashes = 0
      /\ environ \in [Consoles -> Environments] /\ flows = [c \in Consoles |-> 0]
  BY DEF Init
<1>2. FilesTypeOK(files)
  BY <1>1, ValuesAssumption
<1>3. author \in [ServerPaths \cup ClientPaths -> Consoles \cup {Nobody}]
  BY <1>1, <1>2 DEF FilesTypeOK
<1>4. at \in [Consoles -> Labels]
  BY <1>1 DEF Labels
<1>5. \A c \in Consoles : LocalOK(at[c], hand[c])
  BY <1>1, IdleOK
<1>6. Len(Tokens) \in Nat
  <2>1. Tokens \in Seq(Strings)
    BY ValuesAssumption
  <2>2. QED
    BY <2>1
<1>7. QED
  BY <1>1, <1>2, <1>3, <1>4, <1>5, <1>6 DEF TypeInv, CoreOK

\* Starting a program keeps CoreOK.
LEMMA StartOK ==
  ASSUME CoreOK, NEW c \in Consoles, NEW e, NEW flow \in Flows[c], Start(c, e, flow)
  PROVE  CoreOK'
<1>1. flow \in FlowNames
  BY ConsoleAssumption
<1>2. PICK h : h = [Idle EXCEPT !.flow = flow]
  OBVIOUS
<1>3. HandTypeOK(Idle) /\ DOMAIN Idle = Fields
  BY IdleOK DEF LocalOK, Idle, Fields
<1>4. /\ DOMAIN h = DOMAIN Idle /\ h.flow = flow /\ h.server = Idle.server /\ h.client = Idle.client
      /\ h.plugin = Idle.plugin /\ h.told = Idle.told /\ h.require = Idle.require
      /\ h.retried = Idle.retried /\ h.path = Idle.path /\ h.next = Idle.next
  BY <1>2, <1>3 DEF Fields
<1>5. HandTypeOK(h)
  BY <1>1, <1>3, <1>4 DEF HandTypeOK
<1>6. LocalOK("layout", h)
  BY <1>1, <1>4, <1>5 DEF LocalOK, Placed, Going, FlowNames
<1>7. Goto(c, "layout") /\ Hold(c, h) /\ "layout" \in Labels /\ UNCHANGED <<files, author, lock, minted>>
  BY <1>2 DEF Start, Labels
<1>8. QED
  BY <1>6, <1>7, LocksAre, FrameKeeps

\* The second half of os.WriteFile keeps CoreOK.
LEMMA FillOK ==
  ASSUME CoreOK, NEW c \in Consoles, Fill(c)
  PROVE  CoreOK'
<1>1. PICK k : k = hand[c]
  OBVIOUS
<1>2. at[c] = "fill" /\ HandTypeOK(k) /\ Placed("fill", k)
  BY <1>1 DEF Fill, CoreOK, LocalOK
<1>3. DOMAIN k = {"flow", "server", "client", "plugin", "told", "require", "retried", "checked", "edit",
                  "path", "content", "next"}
  BY <1>2 DEF HandTypeOK, Idle
<1>4. PICK l, h :
        /\ l = IF k.next = "end" THEN Ended(k.flow) ELSE k.next
        /\ h = IF k.next = "end" THEN Idle ELSE [k EXCEPT !.path = "", !.content = Absent, !.next = ""]
  OBVIOUS
<1>5. Goto(c, l) /\ Hold(c, h)
  BY <1>1, <1>4 DEF Fill
<1>6. l \in Labels /\ LocalOK(l, h)
  <2>1. CASE k.next = "end"
    <3>1. l \in {"down", "menu"} /\ h = Idle
      BY <1>4, <2>1 DEF Ended
    <3>2. QED
      BY <3>1, IdleOK DEF Labels
  <2>2. CASE k.next # "end"
    <3>1. l = k.next /\ h = [k EXCEPT !.path = "", !.content = Absent, !.next = ""]
      BY <1>4, <2>2
    <3>2. l \in {"layout", "reload", "free", "hint", "listen", "preflight"}
      BY <1>2, <2>2, <3>1 DEF Placed
    <3>3. /\ DOMAIN h = DOMAIN k
          /\ h.path = "" /\ h.next = ""
          /\ h.flow = k.flow /\ h.server = k.server /\ h.client = k.client /\ h.plugin = k.plugin
          /\ h.told = k.told /\ h.require = k.require /\ h.retried = k.retried /\ h.edit = k.edit
      BY <1>3, <3>1
    <3>4. HandTypeOK(h)
      BY <1>2, <3>3 DEF HandTypeOK
    <3>5. Placed(l, h)
      BY <1>2, <3>1, <3>2, <3>3 DEF Placed, Going, FlowNames
    <3>6. l \in Labels
      BY <3>2 DEF Labels
    <3>7. QED
      BY <3>4, <3>5, <3>6 DEF LocalOK
  <2>3. QED
    BY <2>1, <2>2
<1>7. WriteOK(k.path, k.content)
  BY <1>2 DEF Placed
<1>8. files' = [files EXCEPT ![k.path] = k.content] /\ author' = [author EXCEPT ![k.path] = c]
  BY <1>1 DEF Fill
<1>9. lock' \in Consoles \cup {Nobody} /\ minted' \in 0 .. Len(Tokens)
  BY DEF Fill, CoreOK
<1>10. QED
  BY <1>5, <1>6, <1>7, <1>8, <1>9, FrameWrites

\* A crash keeps CoreOK.
LEMMA CrashOK ==
  ASSUME CoreOK, NEW c \in Consoles, Crash(c)
  PROVE  CoreOK'
<1>1. Goto(c, "down") /\ Hold(c, Idle) /\ UNCHANGED <<files, author, minted>> /\ "down" \in Labels
  BY DEF Crash, Labels
<1>2. lock' \in Consoles \cup {Nobody} /\ minted' \in 0 .. Len(Tokens)
  BY LocksAre DEF Crash
<1>3. QED
  BY <1>1, <1>2, IdleOK, FrameKeeps

\* Looking at the runtime files keeps CoreOK.
LEMMA LayoutOK ==
  ASSUME CoreOK, NEW c \in Consoles, Layout(c)
  PROVE  CoreOK'
<1>1. PICK k : k = hand[c]
  OBVIOUS
<1>2. at[c] = "layout" /\ HandTypeOK(k) /\ Placed("layout", k) /\ DOMAIN k = Fields
  BY <1>1, HandsAre DEF Layout
<1>3. k.flow \in FlowNames
  BY <1>2 DEF Placed, Going
<1>4. UNCHANGED <<files, author, lock, minted>>
  BY DEF Layout
<1>5. CASE Missing = {}
  <2>1. Goto(c, k.flow) /\ UNCHANGED hand
    BY <1>1, <1>5 DEF Layout
  <2>2. Hold(c, k)
    BY <1>1, <2>1 DEF Hold, CoreOK
  <2>3. LocalOK(k.flow, k)
    BY <1>2, <1>3 DEF LocalOK, Placed, Going, FlowNames
  <2>4. k.flow \in Labels
    BY <1>3 DEF Labels
  <2>5. QED
    BY <1>4, <2>1, <2>2, <2>3, <2>4, LocksAre, FrameKeeps
<1>6. CASE Missing # {}
  <2>1. PICK i \in Missing : i = Min(Missing)
    <3>1. Missing \subseteq Nat
      BY ValuesAssumption DEF Missing
    <3>2. Min(Missing) \in Missing
      BY <1>6, <3>1, MinIsIn
    <3>3. QED
      BY <3>2
  <2>2. PICK path \in ServerPaths \cup ClientPaths : path = Seeds[i].path
    BY ValuesAssumption DEF Missing
  <2>3. PICK h : h = [k EXCEPT !.path = path]
    OBVIOUS
  <2>4. Goto(c, "seed") /\ Hold(c, h) /\ "seed" \in Labels
    BY <1>1, <1>6, <2>1, <2>2, <2>3 DEF Layout, Labels
  <2>5. /\ DOMAIN h = DOMAIN k /\ h.flow = k.flow /\ h.server = k.server /\ h.client = k.client
        /\ h.plugin = k.plugin /\ h.told = k.told /\ h.require = k.require
        /\ h.retried = k.retried /\ h.path = path /\ h.next = k.next
    BY <1>2, <2>3 DEF Fields
  <2>6. HandTypeOK(h)
    BY <1>2, <2>5 DEF HandTypeOK
  <2>7. LocalOK("seed", h)
    BY <1>3, <2>5, <2>6 DEF LocalOK, Placed, Going, FlowNames
  <2>8. QED
    BY <1>4, <2>4, <2>7, LocksAre, FrameKeeps
<1>7. QED
  BY <1>5, <1>6

\* Writing a missing runtime file keeps CoreOK.
LEMMA SeedOK ==
  ASSUME CoreOK, NEW c \in Consoles, Seed(c)
  PROVE  CoreOK'
<1>1. HandTypeOK(hand[c]) /\ Placed("seed", hand[c]) /\ hand[c].flow \in FlowNames
  BY HandsAre DEF Seed, Placed, Going
<1>2. PICK i \in DOMAIN Seeds : BeginWrite(c, Seeds[i].path, Seeds[i].content, "layout", hand[c])
  BY DEF Seed, ToSet
<1>3. WriteOK(Seeds[i].path, Seeds[i].content)
  BY ValuesAssumption DEF WriteOK, ServerFile, ClientFile
<1>4. lock' \in Consoles \cup {Nobody} /\ minted' \in 0 .. Len(Tokens)
  BY LocksAre DEF Seed
<1>5. QED
  BY <1>1, <1>2, <1>3, <1>4, BeginWriteOK

\* Taking the wizard's lock keeps CoreOK.
LEMMA AcquireLockOK ==
  ASSUME CoreOK, NEW c \in Consoles, AcquireLock(c)
  PROVE  CoreOK'
<1>1. CASE Leave(c)
  BY <1>1, LeaveOK
<1>2. CASE lock' = c /\ Goto(c, "choose") /\ UNCHANGED <<files, author, hand, minted>>
  <2>1. PICK k : k = hand[c]
    OBVIOUS
  <2>2. at[c] = "wizard" /\ HandTypeOK(k) /\ Placed("wizard", k)
    BY <2>1, HandsAre DEF AcquireLock
  <2>3. k.flow = "wizard"
    BY <2>2 DEF Placed, FlowNames
  <2>4. LocalOK("choose", k)
    BY <2>2, <2>3 DEF LocalOK, Placed, Going, FlowNames
  <2>5. Hold(c, k)
    BY <1>2, <2>1 DEF Hold, CoreOK
  <2>6. "choose" \in Labels
    BY DEF Labels
  <2>7. QED
    BY <1>2, <2>4, <2>5, <2>6, LocksAre, FrameKeeps
<1>3. QED
  BY <1>1, <1>2 DEF AcquireLock

\* Choosing a plugin in the menu keeps CoreOK.
LEMMA ChoosePluginOK ==
  ASSUME CoreOK, NEW c \in Consoles, NEW plugin \in MenuPlugins(Folders), ChoosePlugin(c, plugin)
  PROVE  CoreOK'
<1>1. PICK k : k = hand[c]
  OBVIOUS
<1>2. HandTypeOK(k) /\ Placed(at[c], k) /\ DOMAIN k = Fields
  BY <1>1, HandsAre
<1>3. PICK ports \in Ports :
        Hold(c, [k EXCEPT !.plugin = plugin, !.edit = ports,
                   !.server = IF at[c] = "choose"
                              THEN PublicServerConfig(Default, plugin, ports, <<>>, NoSecret) ELSE @])
  BY <1>1 DEF ChoosePlugin
<1>4. plugin \in PluginType
  BY MenuPluginsType
<1>5. UNCHANGED <<files, author, lock, minted>>
  BY DEF ChoosePlugin
<1>6. CASE at[c] = "server" /\ Goto(c, "template")
  <2>1. PICK h : h = [k EXCEPT !.plugin = plugin, !.edit = ports]
    OBVIOUS
  <2>2. Hold(c, h)
    BY <1>3, <1>6, <2>1
  <2>3. k.flow = "server"
    BY <1>2, <1>6 DEF Placed, FlowNames
  <2>4. /\ DOMAIN h = DOMAIN k /\ h.flow = k.flow /\ h.server = k.server /\ h.client = k.client
        /\ h.plugin = plugin /\ h.told = k.told /\ h.require = k.require /\ h.edit = ports
        /\ h.retried = k.retried /\ h.path = k.path /\ h.next = k.next
    BY <1>2, <2>1 DEF Fields
  <2>5. HandTypeOK(h)
    BY <1>2, <1>4, <2>4 DEF HandTypeOK
  <2>6. LocalOK("template", h)
    BY <2>3, <2>4, <2>5 DEF LocalOK, Placed, Going, FlowNames
  <2>7. "template" \in Labels
    BY DEF Labels
  <2>8. QED
    BY <1>5, <1>6, <2>2, <2>6, <2>7, LocksAre, FrameKeeps
<1>7. CASE at[c] = "choose" /\ Goto(c, "free")
  <2>1. PICK server \in ServerType : server = PublicServerConfig(Default, plugin, ports, <<>>, NoSecret)
    <3>1. ports \in [tcp : Int, http : Int, control : Int]
      BY ValuesAssumption
    <3>2. NoSecret \in SecretType /\ <<>> \in Seq(Strings)
      <4>1. "" \in Strings
        BY DEF Strings
      <4>2. NoSecret \in SecretType
        BY <4>1 DEF NoSecret, Word, SecretType
      <4>3. QED
        BY <4>2
    <3>3. QED
      BY <1>4, <3>1, <3>2, DefaultType, PublicServerConfigType
  <2>2. PICK h : h = [k EXCEPT !.plugin = plugin, !.edit = ports, !.server = server]
    OBVIOUS
  <2>3. Hold(c, h)
    BY <1>3, <1>7, <2>1, <2>2
  <2>4. k.flow = "wizard"
    BY <1>2, <1>7 DEF Placed
  <2>5. /\ DOMAIN h = DOMAIN k /\ h.flow = k.flow /\ h.server = server /\ h.client = k.client
        /\ h.plugin = plugin /\ h.told = k.told /\ h.require = k.require /\ h.edit = ports
        /\ h.retried = k.retried /\ h.path = k.path /\ h.next = k.next
    BY <1>2, <2>2 DEF Fields
  <2>6. HandTypeOK(h)
    BY <1>2, <1>4, <2>5 DEF HandTypeOK
  <2>7. LocalOK("free", h)
    BY <2>4, <2>5, <2>6 DEF LocalOK, Placed, Going, FlowNames
  <2>8. "free" \in Labels
    BY DEF Labels
  <2>9. QED
    BY <1>5, <1>7, <2>3, <2>7, <2>8, LocksAre, FrameKeeps
<1>8. QED
  BY <1>6, <1>7 DEF ChoosePlugin

\* Building server.menu.json from the plugin's template keeps CoreOK.
LEMMA BuildServerConfigOK ==
  ASSUME CoreOK, NEW c \in Consoles, BuildServerConfig(c)
  PROVE  CoreOK'
<1>1. PICK k : k = hand[c]
  OBVIOUS
<1>2. HandTypeOK(k) /\ Placed("template", k)
  BY <1>1, HandsAre DEF BuildServerConfig
<1>3. k.plugin \in MenuPlugins(Folders) /\ k.edit \in Ports /\ k.flow \in {"server", "wizard"}
  BY <1>2 DEF Placed, Going
<1>4. PICK template : template = files[ServerTemplate(k.plugin, Exists)]
  OBVIOUS
<1>5. CASE Leave(c)
  BY <1>5, LeaveOK
<1>6. CASE ~ Leave(c)
  <2>1. /\ LoadsServer(template, environ[c], TRUE)
        /\ BeginWrite(c, "server.menu.json", WithPlugin(NormalServer(template, environ[c]), k.plugin),
                      "reload", k)
        /\ UNCHANGED <<lock, minted>>
    BY <1>1, <1>4, <1>6 DEF BuildServerConfig
  <2>2. FilesTypeOK(files)
    BY DEF CoreOK
  <2>3. k.plugin \in PluginType /\ k.plugin.server \notin ClientPaths
    BY <1>3, MenuPluginsType
  <2>4. ServerTemplate(k.plugin, Exists) \in ServerPaths
    <3>1. FallbackTemplate(k.plugin) \in ServerPaths
      BY PathsAssumption DEF FallbackTemplate, ServerJSON
    <3>2. Exists \subseteq ServerPaths \cup ClientPaths
      BY <2>2 DEF Exists, FilesTypeOK
    <3>3. QED
      BY <2>3, <3>1, <3>2 DEF ServerTemplate
  <2>5. template \in ServerFile
    BY <1>4, <2>2, <2>4 DEF FilesTypeOK
  <2>6. NormalServer(template, environ[c]) \in ServerType
    BY <2>1, <2>5, LoadedType
  <2>7. PICK content \in ServerType : content = WithPlugin(NormalServer(template, environ[c]), k.plugin)
    BY <2>3, <2>6, WithPluginType
  <2>8. WriteOK("server.menu.json", content)
    BY PathsAssumption DEF WriteOK, ServerFile
  <2>9. BeginWrite(c, "server.menu.json", content, "reload", k)
    BY <2>1, <2>7
  <2>10. QED
    BY <1>2, <1>3, <2>1, <2>8, <2>9, LocksAre, BeginWriteOK
<1>7. QED
  BY <1>5, <1>6

\* Reading server.menu.json back keeps CoreOK.
LEMMA ReloadServerOK ==
  ASSUME CoreOK, NEW c \in Consoles, ReloadServer(c)
  PROVE  CoreOK'
<1>1. PICK k : k = hand[c]
  OBVIOUS
<1>2. HandTypeOK(k) /\ Placed("reload", k) /\ DOMAIN k = Fields
  BY <1>1, HandsAre DEF ReloadServer
<1>3. k.plugin \in MenuPlugins(Folders) /\ k.edit \in Ports /\ k.flow \in {"server", "wizard"}
  BY <1>2 DEF Placed, Going
<1>4. PICK file, e : file = files["server.menu.json"] /\ e = environ[c]
  OBVIOUS
<1>5. PICK cfg, token : cfg = NormalServer(file, e) /\ token = Word(Tokens[minted + 1])
  OBVIOUS
<1>6. file \in ServerFile
  BY <1>4, PathsAssumption DEF CoreOK, FilesTypeOK
<1>7. LoadsServer(file, e, TRUE) => cfg \in ServerType
  BY <1>5, <1>6, LoadedType
<1>8. CASE /\ LoadsServer(file, e, TRUE)
           /\ k.flow = "server" /\ OverridesAccepted(cfg, k.plugin, k.edit)
           /\ BeginWrite(c, "server.runtime.menu.json", WithPorts(cfg, k.edit), "free",
                         [k EXCEPT !.server = WithPorts(cfg, k.edit)])
           /\ UNCHANGED <<lock, minted>>
  <2>1. PICK server \in ServerType : server = WithPorts(cfg, k.edit)
    BY <1>7, <1>8, WithPortsType
  <2>2. PICK h : h = [k EXCEPT !.server = server]
    OBVIOUS
  <2>3. /\ DOMAIN h = DOMAIN k /\ h.flow = k.flow /\ h.server = server /\ h.client = k.client
        /\ h.plugin = k.plugin /\ h.told = k.told /\ h.require = k.require /\ h.edit = k.edit
        /\ h.retried = k.retried /\ h.path = k.path /\ h.next = k.next
    BY <1>2, <2>2 DEF Fields
  <2>4. HandTypeOK(h)
    BY <1>2, <2>3 DEF HandTypeOK
  <2>5. WriteOK("server.runtime.menu.json", server)
    BY PathsAssumption DEF WriteOK, ServerFile
  <2>6. BeginWrite(c, "server.runtime.menu.json", server, "free", h)
    BY <1>8, <2>1, <2>2
  <2>7. QED
    BY <1>3, <1>8, <2>3, <2>4, <2>5, <2>6, LocksAre, BeginWriteOK
<1>9. CASE /\ LoadsServer(file, e, TRUE)
           /\ k.flow = "wizard" /\ minted < Len(Tokens)
           /\ minted' = minted + 1
           /\ BeginWrite(c, "server.public.menu.json",
                PublicServerConfig(cfg, k.plugin, k.edit, PublicHost, token), "hint",
                [k EXCEPT !.server = PublicServerConfig(cfg, k.plugin, k.edit, PublicHost, token),
                          !.told = token])
           /\ UNCHANGED lock
  <2>1. token \in SecretType /\ minted' \in 0 .. Len(Tokens)
    BY <1>5, <1>9, FreshToken
  <2>2. PICK server \in ServerType : server = PublicServerConfig(cfg, k.plugin, k.edit, PublicHost, token)
    <3>1. k.plugin \in PluginType
      BY <1>3, MenuPluginsType
    <3>2. k.edit \in [tcp : Int, http : Int, control : Int]
      BY <1>3, ValuesAssumption
    <3>3. PublicHost \in Seq(Strings)
      BY ValuesAssumption
    <3>4. QED
      BY <1>7, <1>9, <2>1, <3>1, <3>2, <3>3, PublicServerConfigType
  <2>3. PICK h : h = [k EXCEPT !.server = server, !.told = token]
    OBVIOUS
  <2>4. /\ DOMAIN h = DOMAIN k /\ h.flow = k.flow /\ h.server = server /\ h.client = k.client
        /\ h.plugin = k.plugin /\ h.told = token /\ h.require = k.require /\ h.edit = k.edit
        /\ h.retried = k.retried /\ h.path = k.path /\ h.next = k.next
    BY <1>2, <2>3 DEF Fields
  <2>5. HandTypeOK(h)
    BY <1>2, <2>1, <2>4 DEF HandTypeOK
  <2>6. WriteOK("server.public.menu.json", server)
    BY PathsAssumption DEF WriteOK, ServerFile
  <2>7. BeginWrite(c, "server.public.menu.json", server, "hint", h)
    BY <1>9, <2>2, <2>3
  <2>8. QED
    BY <1>3, <1>9, <2>1, <2>4, <2>5, <2>6, <2>7, LocksAre, BeginWriteOK
<1>10. CASE Leave(c)
  BY <1>10, LeaveOK
<1>11. QED
  BY <1>1, <1>4, <1>5, <1>8, <1>9, <1>10 DEF ReloadServer

\* Writing the friend's client file keeps CoreOK.
LEMMA WriteHintOK ==
  ASSUME CoreOK, NEW c \in Consoles, WriteHint(c)
  PROVE  CoreOK'
<1>1. PICK k : k = hand[c]
  OBVIOUS
<1>2. HandTypeOK(k) /\ Placed("hint", k)
  BY <1>1, HandsAre DEF WriteHint
<1>3. k.plugin \in MenuPlugins(Folders) /\ k.edit \in Ports /\ k.server \in ServerType
  BY <1>2 DEF Placed, Going
<1>4. PICK template : template = IF k.plugin.client \in Exists THEN files[k.plugin.client] ELSE Absent
  OBVIOUS
<1>5. k.plugin \in PluginType /\ k.plugin.client \notin ServerPaths
  BY <1>3, MenuPluginsType
<1>6. template \in ClientType(HeaderMaps) \cup {Absent, Torn}
  BY <1>4, <1>5 DEF Exists, CoreOK, FilesTypeOK, ClientFile
<1>7. PICK content \in ClientType(HeaderMaps) :
        content = PublicClientConfig(template, environ[c], k.plugin, PublicURL, k.told)
  <2>1. <<>> \in HeaderMaps /\ PublicURL \in URLType
    BY ValuesAssumption
  <2>2. k.told \in SecretType
    BY <1>2 DEF HandTypeOK
  <2>3. QED
    BY <1>5, <1>6, <2>1, <2>2, PublicClientConfigType
<1>8. WriteOK("client.public.menu.json", content)
  BY PathsAssumption DEF WriteOK, ClientFile
<1>9. BeginWrite(c, "client.public.menu.json", content, "listen", k)
  BY <1>1, <1>4, <1>7 DEF WriteHint
<1>10. lock' \in Consoles \cup {Nobody} /\ minted' \in 0 .. Len(Tokens)
  BY LocksAre DEF WriteHint
<1>11. QED
  BY <1>2, <1>3, <1>8, <1>9, <1>10, BeginWriteOK

\* Asking whether the ports are free keeps CoreOK.
LEMMA PortsFreeOK ==
  ASSUME CoreOK, NEW c \in Consoles, PortsFree(c)
  PROVE  CoreOK'
<1>1. PICK k : k = hand[c]
  OBVIOUS
<1>2. Placed("free", k)
  BY <1>1, HandsAre DEF PortsFree
<1>3. PICK l : l = AfterPorts(k.flow)
  OBVIOUS
<1>4. l \in {"template", "listen"} /\ (l = "template" => k.flow = "wizard")
  BY <1>3 DEF AfterPorts
<1>5. Placed(l, k)
  BY <1>2, <1>4 DEF Placed, Going, FlowNames
<1>6. l \in Labels
  BY <1>4 DEF Labels
<1>7. QED
  BY <1>1, <1>3, <1>5, <1>6, GotoOK DEF PortsFree

\* Opening the listeners keeps CoreOK.
LEMMA ListenOK ==
  ASSUME CoreOK, NEW c \in Consoles, Listen(c)
  PROVE  CoreOK'
<1>1. PICK k : k = hand[c]
  OBVIOUS
<1>2. Placed("listen", k) /\ Loads(Disk, k.server.enabled)
  BY <1>1, HandsAre DEF Listen, EngineStarts
<1>3. Placed("running", k)
  BY <1>2 DEF Placed, Going, FlowNames
<1>4. "running" \in Labels
  BY DEF Labels
<1>5. QED
  BY <1>1, <1>3, <1>4, GotoOK DEF Listen

\* Ending the owner of a port keeps CoreOK.
LEMMA KillOwnerOK ==
  ASSUME CoreOK, NEW c \in Consoles, NEW d \in Consoles, KillOwner(c, d)
  PROVE  CoreOK'
<1>1. Goto(d, "down") /\ Hold(d, Idle) /\ UNCHANGED <<files, author, minted>> /\ "down" \in Labels
  BY DEF KillOwner, Labels
<1>2. lock' \in Consoles \cup {Nobody} /\ minted' \in 0 .. Len(Tokens)
  BY LocksAre DEF KillOwner
<1>3. QED
  BY <1>1, <1>2, IdleOK, FrameKeeps

\* The server program's own start keeps CoreOK.
LEMMA RoadServerOK ==
  ASSUME CoreOK, NEW c \in Consoles, RoadServer(c)
  PROVE  CoreOK'
<1>1. PICK k : k = hand[c]
  OBVIOUS
<1>2. HandTypeOK(k) /\ Placed("road-server", k) /\ DOMAIN k = Fields
  BY <1>1, HandsAre DEF RoadServer
<1>3. CASE Leave(c)
  BY <1>3, LeaveOK
<1>4. CASE ~ Leave(c)
  <2>1. /\ LoadsServer(files[ServerJSON], environ[c], TRUE)
        /\ Goto(c, "listen")
        /\ Hold(c, [k EXCEPT !.server = NormalServer(files[ServerJSON], environ[c])])
        /\ UNCHANGED <<files, author, lock, minted>>
    BY <1>1, <1>4 DEF RoadServer
  <2>2. PICK file, e : file = files[ServerJSON] /\ e = environ[c]
    OBVIOUS
  <2>3. file \in ServerFile
    BY <2>2, PathsAssumption DEF CoreOK, FilesTypeOK
  <2>4. PICK server \in ServerType : server = NormalServer(file, e)
    BY <2>1, <2>2, <2>3, LoadedType
  <2>5. PICK h : h = [k EXCEPT !.server = server]
    OBVIOUS
  <2>6. /\ DOMAIN h = DOMAIN k /\ h.flow = k.flow /\ h.server = server /\ h.client = k.client
        /\ h.plugin = k.plugin /\ h.told = k.told /\ h.require = k.require
        /\ h.retried = k.retried /\ h.path = k.path /\ h.next = k.next
    BY <1>2, <2>5 DEF Fields
  <2>7. HandTypeOK(h)
    BY <1>2, <2>6 DEF HandTypeOK
  <2>8. LocalOK("listen", h)
    BY <2>6, <2>7 DEF LocalOK, Placed, Going, FlowNames
  <2>9. Hold(c, h) /\ "listen" \in Labels
    BY <2>1, <2>2, <2>4, <2>5 DEF Labels
  <2>10. QED
    BY <2>1, <2>8, <2>9, LocksAre, FrameKeeps
<1>5. QED
  BY <1>3, <1>4

\* A client's step that writes no file keeps CoreOK.
LEMMA ClientStepOK ==
  ASSUME CoreOK, NEW c \in Consoles, NEW l \in {"input", "profile", "preflight", "dial"},
         NEW cfg \in ClientType(HeaderMaps), NEW require \in BOOLEAN, NEW retried \in BOOLEAN,
         NEW checked, Goto(c, l),
         Hold(c, [hand[c] EXCEPT !.client = cfg, !.require = require, !.retried = retried,
                                 !.checked = checked]),
         UNCHANGED <<files, author, lock, minted>>
  PROVE  CoreOK'
<1>1. PICK k : k = hand[c]
  OBVIOUS
<1>2. HandTypeOK(k) /\ DOMAIN k = Fields
  BY <1>1, HandsAre
<1>3. PICK h : h = [k EXCEPT !.client = cfg, !.require = require, !.retried = retried, !.checked = checked]
  OBVIOUS
<1>4. /\ DOMAIN h = DOMAIN k /\ h.flow = k.flow /\ h.server = k.server /\ h.client = cfg
      /\ h.plugin = k.plugin /\ h.told = k.told /\ h.require = require
      /\ h.retried = retried /\ h.path = k.path /\ h.next = k.next
  BY <1>2, <1>3 DEF Fields
<1>5. HandTypeOK(h)
  BY <1>2, <1>4 DEF HandTypeOK
<1>6. LocalOK(l, h)
  BY <1>4, <1>5 DEF LocalOK, Placed, Going, FlowNames
<1>7. Hold(c, h) /\ l \in Labels
  BY <1>1, <1>3 DEF Labels
<1>8. QED
  BY <1>6, <1>7, LocksAre, FrameKeeps

\* Replacing some of the four fields a client's step writes is replacing all
\* four.
LEMMA HandsStay ==
  ASSUME CoreOK, NEW c \in Consoles, NEW cfg
  PROVE  /\ [hand[c] EXCEPT !.client = cfg] =
              [hand[c] EXCEPT !.client = cfg, !.require = hand[c].require,
                              !.retried = hand[c].retried, !.checked = hand[c].checked]
         /\ \A require : [hand[c] EXCEPT !.client = cfg, !.require = require] =
              [hand[c] EXCEPT !.client = cfg, !.require = require,
                              !.retried = hand[c].retried, !.checked = hand[c].checked]
         /\ [hand[c] EXCEPT !.client = cfg, !.retried = TRUE] =
              [hand[c] EXCEPT !.client = cfg, !.require = hand[c].require,
                              !.retried = TRUE, !.checked = hand[c].checked]
         /\ \A checked : [hand[c] EXCEPT !.checked = checked] =
              [hand[c] EXCEPT !.client = hand[c].client, !.require = hand[c].require,
                              !.retried = hand[c].retried, !.checked = checked]
         /\ hand[c].require \in BOOLEAN /\ hand[c].retried \in BOOLEAN
<1>1. PICK k : k = hand[c]
  OBVIOUS
<1>2. HandTypeOK(k) /\ DOMAIN k = Fields
  BY <1>1, HandsAre
<1>3. k.require \in BOOLEAN /\ k.retried \in BOOLEAN
  BY <1>2 DEF HandTypeOK
<1>4. /\ [k EXCEPT !.client = cfg] =
              [k EXCEPT !.client = cfg, !.require = k.require,
                              !.retried = k.retried, !.checked = k.checked]
      /\ \A require : [k EXCEPT !.client = cfg, !.require = require] =
              [k EXCEPT !.client = cfg, !.require = require,
                              !.retried = k.retried, !.checked = k.checked]
      /\ [k EXCEPT !.client = cfg, !.retried = TRUE] =
              [k EXCEPT !.client = cfg, !.require = k.require,
                              !.retried = TRUE, !.checked = k.checked]
      /\ \A checked : [k EXCEPT !.checked = checked] =
              [k EXCEPT !.client = k.client, !.require = k.require,
                              !.retried = k.retried, !.checked = checked]
  BY <1>2 DEF Fields
<1>5. QED
  BY <1>1, <1>3, <1>4

\* A client's step that only replaces its configuration keeps CoreOK.
LEMMA HoldClientOK ==
  ASSUME CoreOK, NEW c \in Consoles, NEW l \in {"input", "profile", "preflight", "dial"},
         NEW cfg \in ClientType(HeaderMaps), Goto(c, l),
         Hold(c, [hand[c] EXCEPT !.client = cfg]), UNCHANGED <<files, author, lock, minted>>
  PROVE  CoreOK'
<1>1. PICK require \in BOOLEAN, retried \in BOOLEAN : require = hand[c].require /\ retried = hand[c].retried
  BY HandsStay
<1>2. PICK checked : checked = hand[c].checked
  OBVIOUS
<1>3. Hold(c, [hand[c] EXCEPT !.client = cfg, !.require = require, !.retried = retried, !.checked = checked])
  BY <1>1, <1>2, HandsStay
<1>4. QED
  BY <1>3, ClientStepOK

\* Reading the client's file keeps CoreOK.
LEMMA OpenClientOK ==
  ASSUME CoreOK, NEW c \in Consoles, OpenClient(c)
  PROVE  CoreOK'
<1>1. PICK file, e : file = files[ClientJSON] /\ e = environ[c]
  OBVIOUS
<1>2. file \in ClientFile
  BY <1>1, PathsAssumption DEF CoreOK, FilesTypeOK
<1>3. CASE /\ LoadsClient(file, e, TRUE, TRUE)
           /\ Goto(c, "input")
           /\ Hold(c, [hand[c] EXCEPT !.client = NormalClient(file, e)])
           /\ UNCHANGED <<files, author, lock, minted>>
  <2>1. NormalClient(file, e) \in ClientType(HeaderMaps)
    BY <1>2, <1>3, LoadedType
  <2>2. QED
    BY <1>3, <2>1, HoldClientOK
<1>4. CASE /\ LoadsClient(file, e, TRUE, FALSE)
           /\ Goto(c, "input")
           /\ \E url \in {u \in URLs : ClientWSURLAccepted(u, DOMAIN LocalNames)} :
                Hold(c, [hand[c] EXCEPT !.client =
                  [NormalClient(file, e) EXCEPT !.url = NormalClientWSURL(url, DOMAIN LocalNames)]])
           /\ UNCHANGED <<files, author, lock, minted>>
  <2>1. PICK u \in URLs :
          Hold(c, [hand[c] EXCEPT !.client =
            [NormalClient(file, e) EXCEPT !.url = NormalClientWSURL(u, DOMAIN LocalNames)]])
    BY <1>4
  <2>2. PICK url \in URLType : url = NormalClientWSURL(u, DOMAIN LocalNames)
    <3>1. u \in URLType
      BY ValuesAssumption
    <3>2. QED
      BY <3>1, NormalClientWSURLType
  <2>3. PICK loaded \in ClientType(HeaderMaps) : loaded = NormalClient(file, e)
    BY <1>2, <1>4, LoadedType
  <2>4. PICK cfg \in ClientType(HeaderMaps) : cfg = [loaded EXCEPT !.url = url]
    <3>1. [loaded EXCEPT !.url = url] \in ClientType(HeaderMaps)
      BY DEF ClientType
    <3>2. QED
      BY <3>1
  <2>5. Hold(c, [hand[c] EXCEPT !.client = cfg])
    BY <2>1, <2>2, <2>3, <2>4
  <2>6. QED
    BY <1>4, <2>5, HoldClientOK
<1>5. CASE Leave(c)
  BY <1>5, LeaveOK
<1>6. QED
  BY <1>1, <1>3, <1>4, <1>5 DEF OpenClient

\* Asking the address and the token keeps CoreOK.
LEMMA ConnectionOK ==
  ASSUME CoreOK, NEW c \in Consoles, NEW typed \in {<<>>} \cup {<<url>> : url \in URLs},
         Connection(c, typed)
  PROVE  CoreOK'
<1>1. CASE Leave(c)
  BY <1>1, LeaveOK
<1>2. CASE ~ Leave(c)
  <2>1. PICK k : k = hand[c]
    OBVIOUS
  <2>2. Placed("input", k)
    BY <2>1, HandsAre DEF Connection
  <2>3. k.client \in ClientType(HeaderMaps)
    BY <2>2 DEF Placed, Going
  <2>4. PICK cfg \in ClientType(HeaderMaps) :
          cfg = IF typed = <<>> THEN k.client
                ELSE [k.client EXCEPT !.url = NormalClientWSURL(typed[1], DOMAIN LocalNames)]
    <3>1. CASE typed = <<>>
      BY <2>3, <3>1
    <3>2. CASE typed # <<>>
      <4>1. PICK u \in URLs : typed = <<u>>
        BY <3>2
      <4>2. PICK url \in URLType : url = NormalClientWSURL(u, DOMAIN LocalNames)
        <5>1. u \in URLType
          BY ValuesAssumption
        <5>2. QED
          BY <5>1, NormalClientWSURLType
      <4>3. PICK old \in ClientType(HeaderMaps) : old = k.client
        BY <2>3
      <4>4. [old EXCEPT !.url = url] \in ClientType(HeaderMaps)
        BY DEF ClientType
      <4>5. typed[1] = u
        BY <4>1
      <4>6. QED
        BY <3>2, <4>2, <4>3, <4>4, <4>5
    <3>3. QED
      BY <3>1, <3>2
  <2>5. PICK require \in BOOLEAN :
          require = ShouldRequireClientProfile(cfg, typed # <<>>, DOMAIN LocalNames)
    BY DEF ShouldRequireClientProfile
  <2>6. /\ Goto(c, "profile")
        /\ Hold(c, [hand[c] EXCEPT !.client = cfg, !.require = require])
        /\ UNCHANGED <<files, author, lock, minted>>
    BY <1>2, <2>1, <2>4, <2>5 DEF Connection
  <2>7. PICK retried \in BOOLEAN : retried = hand[c].retried
    BY HandsStay
  <2>8. PICK checked : checked = hand[c].checked
    OBVIOUS
  <2>9. Hold(c, [hand[c] EXCEPT !.client = cfg, !.require = require, !.retried = retried, !.checked = checked])
    BY <2>6, <2>7, <2>8, HandsStay
  <2>10. QED
    BY <2>6, <2>9, ClientStepOK
<1>3. QED
  BY <1>1, <1>2

\* Writing client.menu.json keeps CoreOK.
LEMMA WriteClientMenuOK ==
  ASSUME CoreOK, NEW c \in Consoles, NEW cfg \in ClientType(HeaderMaps), WriteClientMenu(c, cfg)
  PROVE  CoreOK'
<1>1. PICK k : k = hand[c]
  OBVIOUS
<1>2. HandTypeOK(k) /\ DOMAIN k = Fields
  BY <1>1, HandsAre
<1>3. PICK h : h = [k EXCEPT !.client = cfg]
  OBVIOUS
<1>4. /\ DOMAIN h = DOMAIN k /\ h.flow = k.flow /\ h.server = k.server /\ h.client = cfg
      /\ h.plugin = k.plugin /\ h.told = k.told /\ h.require = k.require
      /\ h.retried = k.retried /\ h.path = k.path /\ h.next = k.next
  BY <1>2, <1>3 DEF Fields
<1>5. HandTypeOK(h)
  BY <1>2, <1>4 DEF HandTypeOK
<1>6. BeginWrite(c, "client.menu.json", cfg, "preflight", h) /\ UNCHANGED <<lock, minted>>
  BY <1>1, <1>3 DEF WriteClientMenu
<1>7. WriteOK("client.menu.json", cfg)
  BY PathsAssumption DEF WriteOK, ClientFile
<1>8. QED
  BY <1>4, <1>5, <1>6, <1>7, LocksAre, BeginWriteOK

\* Applying a server's profile keeps CoreOK.
LEMMA ApplyProfileOK ==
  ASSUME CoreOK, NEW c \in Consoles, hand[c].client \in ClientType(HeaderMaps),
         NEW profile, profile.name \in TextType, ApplyProfile(c, profile)
  PROVE  CoreOK'
<1>1. PICK cfg \in ClientType(HeaderMaps) : cfg = WithProfile(hand[c].client, profile)
  BY WithProfileType
<1>2. PICK path : path = ClientTemplate(MenuPlugins(Folders), profile)
  OBVIOUS
<1>3. path \notin ServerPaths \/ path = ""
  <2>1. ASSUME path # "" PROVE path \notin ServerPaths
    <3>1. PICK plugin \in MenuPlugins(Folders) : path = plugin.client
      BY <1>2, <2>1 DEF ClientTemplate
    <3>2. QED
      BY <3>1, MenuPluginsType
  <2>2. QED
    BY <2>1
<1>4. PICK template : template = IF path \in Exists THEN files[path] ELSE Absent
  OBVIOUS
<1>5. CASE path = ""
  BY <1>1, <1>2, <1>5, WriteClientMenuOK DEF ApplyProfile
<1>6. CASE path # "" /\ LoadsClient(template, environ[c], FALSE, FALSE)
  <2>1. template \in ClientFile
    BY <1>3, <1>4, <1>6 DEF Exists, CoreOK, FilesTypeOK, ClientFile
  <2>2. template \in ClientType(HeaderMaps)
    BY <1>6, <2>1, LoadedType
  <2>3. PICK cfg2 \in ClientType(HeaderMaps) : cfg2 = FromTemplate(cfg, template, profile, environ[c])
    BY <2>2, FromTemplateType
  <2>4. WriteClientMenu(c, cfg2)
    BY <1>1, <1>2, <1>4, <1>6, <2>3 DEF ApplyProfile
  <2>5. QED
    BY <2>4, WriteClientMenuOK
<1>7. CASE path # "" /\ ~ LoadsClient(template, environ[c], FALSE, FALSE)
  <2>1. Leave(c)
    BY <1>1, <1>2, <1>4, <1>7 DEF ApplyProfile
  <2>2. QED
    BY <2>1, LeaveOK
<1>8. QED
  BY <1>5, <1>6, <1>7

\* Asking the server's profile keeps CoreOK.
LEMMA ProfileOK ==
  ASSUME CoreOK, NEW c \in Consoles, Profile(c)
  PROVE  CoreOK'
<1>1. PICK k : k = hand[c]
  OBVIOUS
<1>2. at[c] = "profile" /\ Placed("profile", k)
  BY <1>1, HandsAre DEF Profile
<1>3. k.client \in ClientType(HeaderMaps)
  BY <1>2 DEF Placed, Going
<1>4. CASE Leave(c)
  BY <1>4, LeaveOK
<1>5. CASE WriteClientMenu(c, k.client)
  BY <1>3, <1>5, WriteClientMenuOK
<1>6. CASE /\ \E token \in PromptTokens :
                Hold(c, [hand[c] EXCEPT !.client = PromptedToken(@, token), !.retried = TRUE])
           /\ UNCHANGED <<files, author, at, lock, minted>>
  <2>1. PICK token \in PromptTokens :
          Hold(c, [hand[c] EXCEPT !.client = PromptedToken(@, token), !.retried = TRUE])
    BY <1>6
  <2>2. PICK cfg \in ClientType(HeaderMaps) : cfg = PromptedToken(k.client, token)
    <3>1. token \in SecretType
      BY ValuesAssumption
    <3>2. QED
      BY <1>3, <3>1, PromptedTokenType
  <2>3. Hold(c, [hand[c] EXCEPT !.client = cfg, !.retried = TRUE])
    BY <1>1, <2>1, <2>2
  <2>4. PICK require \in BOOLEAN : require = hand[c].require
    BY HandsStay
  <2>5. PICK checked : checked = hand[c].checked
    OBVIOUS
  <2>6. Hold(c, [hand[c] EXCEPT !.client = cfg, !.require = require, !.retried = TRUE, !.checked = checked])
    BY <2>3, <2>4, <2>5, HandsStay
  <2>7. Goto(c, "profile")
    BY <1>2, <1>6 DEF Goto, CoreOK
  <2>8. QED
    BY <1>6, <2>6, <2>7, ClientStepOK
<1>7. CASE \E profile \in MenuPlugins(Folders) : ApplyProfile(c, profile)
  <2>1. PICK profile \in MenuPlugins(Folders) : ApplyProfile(c, profile)
    BY <1>7
  <2>2. profile \in PluginType
    BY MenuPluginsType
  <2>3. profile.name \in TextType
    BY <2>2 DEF PluginType
  <2>4. QED
    BY <1>1, <1>3, <2>1, <2>3, ApplyProfileOK
<1>8. CASE \E d \in Consoles : \E network : Running(d) /\
             ApplyProfile(c, [name |-> DefaultName(hand[d].server.enabled), network |-> network])
  <2>1. PICK d \in Consoles : \E network : Running(d) /\
          ApplyProfile(c, [name |-> DefaultName(hand[d].server.enabled), network |-> network])
    BY <1>8
  <2>1a. PICK network : Running(d) /\
           ApplyProfile(c, [name |-> DefaultName(hand[d].server.enabled), network |-> network])
    BY <2>1
  <2>2. PICK name \in TextType : name = DefaultName(hand[d].server.enabled)
    BY <2>1a, DefaultNameType
  <2>3. PICK profile : profile = [name |-> name, network |-> network]
    OBVIOUS
  <2>4. profile.name \in TextType
    BY <2>3
  <2>5. ApplyProfile(c, profile)
    BY <2>1a, <2>2, <2>3
  <2>6. QED
    BY <1>1, <1>3, <2>4, <2>5, ApplyProfileOK
<1>9. \/ Leave(c) \/ WriteClientMenu(c, k.client)
      \/ /\ \E token \in PromptTokens :
              Hold(c, [hand[c] EXCEPT !.client = PromptedToken(@, token), !.retried = TRUE])
         /\ UNCHANGED <<files, author, at, lock, minted>>
      \/ \E profile \in IF Reach(k.client.url) = {} THEN MenuPlugins(Folders)
                        ELSE {[name |-> DefaultName(hand[d].server.enabled),
                               network |-> ResolvePlugin(Plugins(d), hand[d].server.enabled, Empty).target.network] :
                                d \in Reach(k.client.url)} :
           ApplyProfile(c, profile)
  BY <1>1, ZenonT(30) DEF Profile
<1>10. ASSUME Reach(k.client.url) # {},
              \E profile \in {[name |-> DefaultName(hand[d].server.enabled),
                               network |-> ResolvePlugin(Plugins(d), hand[d].server.enabled, Empty).target.network] :
                                d \in Reach(k.client.url)} : ApplyProfile(c, profile)
       PROVE  \E d \in Consoles : \E network : Running(d) /\
                ApplyProfile(c, [name |-> DefaultName(hand[d].server.enabled), network |-> network])
  <2>1. PICK d \in Reach(k.client.url) :
          ApplyProfile(c, [name |-> DefaultName(hand[d].server.enabled),
                           network |-> ResolvePlugin(Plugins(d), hand[d].server.enabled, Empty).target.network])
    BY <1>10
  <2>2. d \in Consoles /\ Running(d)
    BY DEF Reach
  <2>3. QED
    BY <2>1, <2>2
<1>11. QED
  BY <1>4, <1>5, <1>6, <1>7, <1>8, <1>9, <1>10

\* The preflight request keeps CoreOK.
LEMMA PreflightOK ==
  ASSUME CoreOK, NEW c \in Consoles, Preflight(c)
  PROVE  CoreOK'
<1>1. PICK k : k = hand[c]
  OBVIOUS
<1>2. HandTypeOK(k) /\ Placed("preflight", k)
  BY <1>1, HandsAre DEF Preflight
<1>3. k.client \in ClientType(HeaderMaps)
  BY <1>2 DEF Placed, Going
<1>4. CASE Leave(c)
  BY <1>4, LeaveOK
<1>5. CASE Goto(c, "dial") /\ UNCHANGED <<files, author, hand, lock, minted>>
  <2>1. Placed("dial", k)
    BY <1>3 DEF Placed, Going, FlowNames
  <2>2. "dial" \in Labels
    BY DEF Labels
  <2>3. QED
    BY <1>1, <1>5, <2>1, <2>2, GotoOK
<1>6. CASE /\ Goto(c, "dial")
           /\ \E checked : Hold(c, [hand[c] EXCEPT !.checked = checked])
           /\ UNCHANGED <<files, author, lock, minted>>
  <2>1. PICK checked : Hold(c, [hand[c] EXCEPT !.checked = checked])
    BY <1>6
  <2>2. PICK cfg \in ClientType(HeaderMaps) : cfg = hand[c].client
    BY <1>1, <1>3
  <2>3. PICK require \in BOOLEAN, retried \in BOOLEAN : require = hand[c].require /\ retried = hand[c].retried
    BY HandsStay
  <2>4. Hold(c, [hand[c] EXCEPT !.client = cfg, !.require = require, !.retried = retried,
                                !.checked = checked])
    BY <2>1, <2>2, <2>3, HandsStay
  <2>5. Goto(c, "dial") /\ UNCHANGED <<files, author, lock, minted>>
    BY <1>6
  <2>6. PICK l \in {"input", "profile", "preflight", "dial"} : l = "dial"
    OBVIOUS
  <2>7. Goto(c, l)
    BY <2>5, <2>6
  <2>8. QED
    BY <2>4, <2>5, <2>7, ClientStepOK
<1>7. CASE hand[c].flow = "client" /\ ~ hand[c].require
  BY <1>1, <1>5, <1>7 DEF Preflight
<1>8. CASE ~ (hand[c].flow = "client" /\ ~ hand[c].require)
  <2>1. \E answer :
          IF answer.status # 200 THEN Leave(c)
          ELSE /\ Goto(c, "dial")
               /\ Hold(c, [hand[c] EXCEPT !.checked = answer.from])
               /\ UNCHANGED <<files, author, lock, minted>>
    BY <1>8 DEF Preflight
  <2>2. QED
    BY <1>4, <1>6, <2>1, ZenonT(30)
<1>9. QED
  BY <1>7, <1>8

\* The client program's own start keeps CoreOK.
LEMMA RoadClientOK ==
  ASSUME CoreOK, NEW c \in Consoles, RoadClient(c)
  PROVE  CoreOK'
<1>1. PICK path \in {ClientJSON, "client.public.menu.json"} :
        IF LoadsClient(files[path], environ[c], TRUE, TRUE)
        THEN /\ Goto(c, "preflight")
             /\ Hold(c, [hand[c] EXCEPT !.client = NormalClient(files[path], environ[c])])
             /\ UNCHANGED <<files, author, lock, minted>>
        ELSE Leave(c)
  BY DEF RoadClient
<1>2. CASE LoadsClient(files[path], environ[c], TRUE, TRUE)
  <2>1. PICK file, e : file = files[path] /\ e = environ[c]
    OBVIOUS
  <2>2. file \in ClientFile
    BY <2>1, PathsAssumption DEF CoreOK, FilesTypeOK
  <2>3. PICK cfg \in ClientType(HeaderMaps) : cfg = NormalClient(file, e)
    BY <1>2, <2>1, <2>2, LoadedType
  <2>4. Hold(c, [hand[c] EXCEPT !.client = cfg])
    BY <1>1, <1>2, <2>1, <2>3
  <2>5. QED
    BY <1>1, <1>2, <2>4, HoldClientOK
<1>3. CASE ~ LoadsClient(files[path], environ[c], TRUE, TRUE)
  BY <1>1, <1>3, LeaveOK
<1>4. QED
  BY <1>2, <1>3

\* Writing an edited configuration keeps CoreOK.
LEMMA EditedOK ==
  ASSUME CoreOK, NEW c \in Consoles, NEW path, NEW content, WriteOK(path, content), NEW edit,
         BeginWrite(c, path, content, "end", [hand[c] EXCEPT !.edit = edit]),
         lock' \in Consoles \cup {Nobody}, minted' \in 0 .. Len(Tokens)
  PROVE  CoreOK'
<1>1. PICK k : k = hand[c]
  OBVIOUS
<1>2. HandTypeOK(k) /\ DOMAIN k = Fields
  BY <1>1, HandsAre
<1>3. PICK h : h = [k EXCEPT !.edit = edit]
  OBVIOUS
<1>4. /\ DOMAIN h = DOMAIN k /\ h.flow = k.flow /\ h.server = k.server /\ h.client = k.client
      /\ h.plugin = k.plugin /\ h.told = k.told /\ h.require = k.require
      /\ h.retried = k.retried /\ h.path = k.path /\ h.next = k.next
  BY <1>2, <1>3 DEF Fields
<1>5. HandTypeOK(h)
  BY <1>2, <1>4 DEF HandTypeOK
<1>6. PICK next \in {"layout", "reload", "free", "hint", "listen", "preflight", "end"} : next = "end"
  OBVIOUS
<1>7. /\ next \notin {"layout"} /\ next \notin {"free", "reload", "hint"} /\ next # "hint"
      /\ next \notin {"free", "hint", "listen"} /\ next # "preflight"
  BY <1>6
<1>8. BeginWrite(c, path, content, next, h)
  BY <1>1, <1>3, <1>6
<1>9. QED
  BY <1>5, <1>7, <1>8, BeginWriteOK

\* The server page of the settings keeps CoreOK.
LEMMA EditServerOK ==
  ASSUME CoreOK, NEW c \in Consoles, NEW answers \in ServerAnswers, EditServer(c, answers)
  PROVE  CoreOK'
<1>1. PICK cfg, e, token : cfg = files[ServerJSON] /\ e = environ[c] /\ token = Word(Tokens[minted + 1])
  OBVIOUS
<1>2. CASE Leave(c)
  BY <1>2, LeaveOK
<1>3. CASE ~ Leave(c)
  <2>1. PICK edited : edited = ServerEdited(cfg, e, answers, token)
    OBVIOUS
  <2>2. /\ minted < Len(Tokens) /\ LoadsServer(cfg, e, FALSE)
        /\ minted' = IF edited.token = token THEN minted + 1 ELSE minted
        /\ BeginWrite(c, ServerJSON, edited, "end", [hand[c] EXCEPT !.edit = <<answers, cfg>>])
        /\ UNCHANGED lock
    BY <1>1, <1>3, <2>1 DEF EditServer
  <2>3. cfg \in ServerFile
    BY <1>1, PathsAssumption DEF CoreOK, FilesTypeOK
  <2>4. cfg \in ServerType
    BY <2>2, <2>3, LoadedType
  <2>5. token \in SecretType /\ minted + 1 \in 0 .. Len(Tokens)
    BY <1>1, <2>2, FreshToken
  <2>6. edited \in ServerType
    <3>1. answers \in ServerAnswerType
      BY ValuesAssumption
    <3>2. QED
      BY <2>1, <2>4, <2>5, <3>1, ServerEditedType
  <2>7. WriteOK(ServerJSON, edited)
    BY <2>6, PathsAssumption DEF WriteOK, ServerFile
  <2>8. lock' \in Consoles \cup {Nobody} /\ minted' \in 0 .. Len(Tokens)
    BY <2>2, <2>5 DEF CoreOK
  <2>9. QED
    BY <2>2, <2>7, <2>8, EditedOK
<1>4. QED
  BY <1>2, <1>3

\* The client page of the settings keeps CoreOK.
LEMMA EditClientOK ==
  ASSUME CoreOK, NEW c \in Consoles, NEW answers \in ClientAnswers, EditClient(c, answers)
  PROVE  CoreOK'
<1>1. PICK cfg, e : cfg = files[ClientJSON] /\ e = environ[c]
  OBVIOUS
<1>2. CASE Leave(c)
  BY <1>2, LeaveOK
<1>3. CASE ~ Leave(c)
  <2>1. PICK edited : edited = ClientEdited(cfg, e, answers, DOMAIN LocalNames)
    OBVIOUS
  <2>2. /\ LoadsClient(cfg, e, FALSE, TRUE)
        /\ BeginWrite(c, ClientJSON, edited, "end", [hand[c] EXCEPT !.edit = <<answers, cfg>>])
        /\ UNCHANGED <<lock, minted>>
    BY <1>1, <1>3, <2>1 DEF EditClient
  <2>3. cfg \in ClientFile
    BY <1>1, PathsAssumption DEF CoreOK, FilesTypeOK
  <2>4. cfg \in ClientType(HeaderMaps)
    BY <2>2, <2>3, LoadedType
  <2>5. edited \in ClientType(HeaderMaps)
    <3>1. answers \in ClientAnswerType
      BY ValuesAssumption
    <3>2. QED
      BY <2>1, <2>4, <3>1, ClientEditedType
  <2>6. WriteOK(ClientJSON, edited)
    BY <2>5, PathsAssumption DEF WriteOK, ClientFile
  <2>7. lock' \in Consoles \cup {Nobody} /\ minted' \in 0 .. Len(Tokens)
    BY <2>2, LocksAre
  <2>8. QED
    BY <2>2, <2>6, <2>7, EditedOK
<1>4. QED
  BY <1>2, <1>3

\* Every step keeps CoreOK.
LEMMA CoreStep ==
  ASSUME CoreOK, Next
  PROVE  CoreOK'
<1>1. PICK c \in Consoles :
        \/ \E e \in Environments, flow \in Flows[c] : Start(c, e, flow)
        \/ Layout(c) \/ Seed(c) \/ Fill(c) \/ FillFails(c) \/ Crash(c) \/ Interrupt(c)
        \/ ServerSteps(c) \/ ClientSteps(c) \/ SettingsSteps(c)
  BY DEF Next
<1>2. ASSUME NEW e \in Environments, NEW flow \in Flows[c], Start(c, e, flow) PROVE CoreOK'
  BY <1>2, StartOK
<1>3. CASE Layout(c)
  BY <1>3, LayoutOK
<1>4. CASE Seed(c)
  BY <1>4, SeedOK
<1>5. CASE Fill(c)
  BY <1>5, FillOK
<1>6. CASE FillFails(c) \/ Interrupt(c)
  BY <1>6, LeaveOK DEF FillFails, Interrupt
<1>7. CASE Crash(c)
  BY <1>7, CrashOK
<1>8. CASE ServerSteps(c)
  <2>1. CASE AcquireLock(c)
    BY <2>1, AcquireLockOK
  <2>2. CASE BuildServerConfig(c)
    BY <2>2, BuildServerConfigOK
  <2>3. CASE ReloadServer(c)
    BY <2>3, ReloadServerOK
  <2>4. CASE WriteHint(c)
    BY <2>4, WriteHintOK
  <2>5. CASE PortsFree(c)
    BY <2>5, PortsFreeOK
  <2>6. CASE PortsRefused(c) \/ EngineFails(c)
    BY <2>6, LeaveOK DEF PortsRefused, EngineFails
  <2>7. ASSUME NEW d \in Consoles, KillOwner(c, d) PROVE CoreOK'
    BY <2>7, KillOwnerOK
  <2>8. CASE Listen(c)
    BY <2>8, ListenOK
  <2>9. CASE RoadServer(c)
    BY <2>9, RoadServerOK
  <2>10. ASSUME NEW plugin \in MenuPlugins(Folders), ChoosePlugin(c, plugin) PROVE CoreOK'
    BY <2>10, ChoosePluginOK
  <2>11. QED
    BY <1>8, <2>1, <2>2, <2>3, <2>4, <2>5, <2>6, <2>7, <2>8, <2>9, <2>10 DEF ServerSteps
<1>9. CASE ClientSteps(c)
  <2>1. CASE OpenClient(c)
    BY <2>1, OpenClientOK
  <2>2. CASE Profile(c)
    BY <2>2, ProfileOK
  <2>3. CASE Preflight(c)
    BY <2>3, PreflightOK
  <2>4. CASE RoadClient(c)
    BY <2>4, RoadClientOK
  <2>5. ASSUME NEW typed \in {<<>>} \cup {<<url>> : url \in URLs}, Connection(c, typed) PROVE CoreOK'
    BY <2>5, ConnectionOK
  <2>6. QED
    BY <1>9, <2>1, <2>2, <2>3, <2>4, <2>5 DEF ClientSteps
<1>10. CASE SettingsSteps(c)
  <2>1. ASSUME NEW answers \in ServerAnswers, EditServer(c, answers) PROVE CoreOK'
    BY <2>1, EditServerOK
  <2>2. ASSUME NEW answers \in ClientAnswers, EditClient(c, answers) PROVE CoreOK'
    BY <2>2, EditClientOK
  <2>3. QED
    BY <1>10, <2>1, <2>2 DEF SettingsSteps
<1>11. QED
  BY <1>1, <1>2, <1>3, <1>4, <1>5, <1>6, <1>7, <1>8, <1>9, <1>10

\* Every step keeps the types of the environments and of the counters that
\* bound the runs.
LEMMA EnvironStep ==
  ASSUME TypeInv, Next
  PROVE  environ' \in [Consoles -> Environments] /\ flows' \in [Consoles -> Nat] /\ crashes' \in Nat
<1>1. PICK c \in Consoles :
        \/ \E e \in Environments, flow \in Flows[c] : Start(c, e, flow)
        \/ Layout(c) \/ Seed(c) \/ Fill(c) \/ FillFails(c) \/ Crash(c) \/ Interrupt(c)
        \/ ServerSteps(c) \/ ClientSteps(c) \/ SettingsSteps(c)
  BY DEF Next
<1>2. environ \in [Consoles -> Environments] /\ flows \in [Consoles -> Nat] /\ crashes \in Nat
  BY DEF TypeInv
<1>3. ASSUME NEW e \in Environments, NEW flow \in Flows[c], Start(c, e, flow)
      PROVE  environ' \in [Consoles -> Environments] /\ flows' \in [Consoles -> Nat] /\ crashes' = crashes
  BY <1>2, <1>3 DEF Start
<1>4. CASE FillFails(c) \/ Crash(c)
  BY <1>2, <1>4 DEF FillFails, Crash
<1>5. CASE Layout(c) \/ Seed(c) \/ Fill(c) \/ Interrupt(c)
  BY <1>2, <1>5 DEF Layout, Seed, Fill, Interrupt
<1>6. CASE ServerSteps(c)
  <2>1. UNCHANGED <<environ, flows, crashes>>
    BY <1>6 DEF ServerSteps, AcquireLock, BuildServerConfig, ReloadServer, WriteHint, PortsFree,
                PortsRefused, KillOwner, Listen, EngineFails, RoadServer, ChoosePlugin
  <2>2. QED
    BY <1>2, <2>1
<1>7. CASE ClientSteps(c)
  <2>1. UNCHANGED <<environ, flows, crashes>>
    BY <1>7 DEF ClientSteps, OpenClient, Profile, Preflight, RoadClient, Connection
  <2>2. QED
    BY <1>2, <2>1
<1>8. CASE SettingsSteps(c)
  <2>1. UNCHANGED <<environ, flows, crashes>>
    BY <1>8 DEF SettingsSteps, EditServer, EditClient
  <2>2. QED
    BY <1>2, <2>1
<1>9. QED
  BY <1>1, <1>2, <1>3, <1>4, <1>5, <1>6, <1>7, <1>8

\* The inductive step of the type invariant.
LEMMA TypeInvStep == TypeInv /\ [Next]_vars => TypeInv'
<1>1. ASSUME TypeInv, Next PROVE TypeInv'
  BY <1>1, CoreStep, EnvironStep DEF TypeInv
<1>2. ASSUME TypeInv, UNCHANGED vars PROVE TypeInv'
  BY <1>2 DEF TypeInv, CoreOK, FilesTypeOK, vars
<1>3. QED
  BY <1>1, <1>2

\* For any number of programs, any files and any answers, every reachable
\* state has its types and every program holds at each label what that label
\* uses.
THEOREM TypeInvHolds == Spec => []TypeInv
BY TypeInvInit, TypeInvStep, PTL DEF Spec

\* In particular every file, read back at any moment, is absent, torn or a
\* configuration of its own kind (WriteFile of menu.go, runtime_files.go and
\* settings.go).
THEOREM ConsoleTypes == Spec => []ConsoleTypeOK
<1>1. TypeInv => ConsoleTypeOK
  BY DEF TypeInv, CoreOK, LocalOK, ConsoleTypeOK
<1>2. QED
  BY <1>1, TypeInvHolds, PTL

-----------------------------------------------------------------------------
(* No engine runs open whose configuration names a secret.                 *)

\* The labels from which a server comes to run with the configuration it
\* holds.
Opening == {"free", "hint", "listen", "running"}

\* One program: the configuration it is about to run a server with is closed.
Secure(l, h, e) == Going(l, h, Opening) => Closed(h.server, e)

\* No program is about to run an open server whose configuration names a
\* secret.
SecureInv == \A c \in Consoles : Secure(at[c], hand[c], environ[c])

\* What LoadConfig accepts with strict secrets is closed, and stays so when
\* normalized.
LEMMA LoadedIsClosed ==
  ASSUME NEW content \in ServerFile, NEW e, LoadsServer(content, e, TRUE)
  PROVE  /\ Closed(NormalServer(content, e), e)
         /\ \A secret \in SecretsOf(NormalServer(content, e)) : ~ MissingEnv(secret, e)
<1>1. PICK server \in ServerType : server = NormalServer(content, e)
  BY LoadedType
<1>2. \A secret \in SecretsOf(server) : ~ MissingEnv(secret, e)
  BY <1>1 DEF LoadsServer, ServerAccepted
<1>3. Closed(server, e)
  BY <1>2, StrictIsClosed
<1>4. QED
  BY <1>1, <1>2, <1>3

\* A step of one program keeps the invariant if it holds of that program
\* afterwards.
LEMMA SecureFrame ==
  ASSUME CoreOK, SecureInv, NEW c \in Consoles, NEW l, NEW h, Goto(c, l), Hold(c, h),
         Secure(l, h, environ[c]), UNCHANGED environ
  PROVE  SecureInv'
<1>1. at \in [Consoles -> Labels] /\ hand = [d \in Consoles |-> hand[d]]
  BY DEF CoreOK
<1>2. at' = [at EXCEPT ![c] = l] /\ hand' = [hand EXCEPT ![c] = h]
  BY DEF Goto, Hold
<1>3. ASSUME NEW d \in Consoles PROVE Secure(at'[d], hand'[d], environ'[d])
  <2>1. CASE d = c
    <3>1. at'[d] = l /\ hand'[d] = h /\ environ'[d] = environ[c]
      BY <1>1, <1>2, <2>1
    <3>2. QED
      BY <3>1
  <2>2. CASE d # c
    <3>1. at'[d] = at[d] /\ hand'[d] = hand[d] /\ environ'[d] = environ[d]
      BY <1>1, <1>2, <2>2
    <3>2. QED
      BY <3>1 DEF SecureInv
  <2>3. QED
    BY <2>1, <2>2
<1>4. QED
  BY <1>3 DEF SecureInv

\* A step to a label from which no server runs keeps it,
LEMMA SecureGoto ==
  ASSUME CoreOK, SecureInv, NEW c \in Consoles, NEW l, l \notin Opening \cup {"fill"}, Goto(c, l),
         NEW h, Hold(c, h), UNCHANGED environ
  PROVE  SecureInv'
<1>1. Secure(l, h, environ[c])
  BY DEF Secure, Going
<1>2. QED
  BY <1>1, SecureFrame

\* so does leaving a flow,
LEMMA SecureLeave ==
  ASSUME CoreOK, SecureInv, NEW c \in Consoles, Leave(c), UNCHANGED environ
  PROVE  SecureInv'
<1>1. PICK l : l = Ended(hand[c].flow)
  OBVIOUS
<1>2. l \notin Opening \cup {"fill"}
  BY <1>1 DEF Ended, Opening
<1>3. Goto(c, l) /\ Hold(c, Idle)
  BY <1>1 DEF Leave
<1>4. QED
  BY <1>2, <1>3, SecureGoto

\* so does starting to write a file, if what comes next is a server with a
\* closed configuration,
LEMMA SecureWrite ==
  ASSUME CoreOK, SecureInv, NEW c \in Consoles, NEW path, NEW content, NEW next, NEW h,
         DOMAIN h = Fields, BeginWrite(c, path, content, next, h),
         next \in Opening => Closed(h.server, environ[c]), UNCHANGED environ
  PROVE  SecureInv'
<1>1. PICK k : k = [h EXCEPT !.path = path, !.content = content, !.next = next]
  OBVIOUS
<1>2. k.next = next /\ k.server = h.server
  BY <1>1 DEF Fields
<1>3. Goto(c, "fill") /\ Hold(c, k)
  BY <1>1 DEF BeginWrite
<1>4. Secure("fill", k, environ[c])
  BY <1>2 DEF Secure, Going, Opening
<1>5. QED
  BY <1>3, <1>4, SecureFrame

\* and so does a step between two such labels that holds the same.
LEMMA SecureStays ==
  ASSUME CoreOK, SecureInv, NEW c \in Consoles, NEW l, l \in Opening => at[c] \in Opening, l # "fill",
         Goto(c, l), UNCHANGED <<hand, environ>>
  PROVE  SecureInv'
<1>1. Hold(c, hand[c])
  BY DEF Hold, CoreOK
<1>2. Secure(at[c], hand[c], environ[c])
  BY DEF SecureInv
<1>3. Secure(l, hand[c], environ[c])
  BY <1>2 DEF Secure, Going
<1>4. QED
  BY <1>1, <1>3, SecureFrame

\* Starting a program, with another environment, keeps the invariant: nothing
\* is in hand yet.
LEMMA SecureStart ==
  ASSUME CoreOK, SecureInv, environ \in [Consoles -> Environments], NEW c \in Consoles,
         NEW e \in Environments, NEW flow, Start(c, e, flow)
  PROVE  SecureInv'
<1>1. at \in [Consoles -> Labels] /\ hand = [d \in Consoles |-> hand[d]]
  BY DEF CoreOK
<1>2. PICK h : h = [Idle EXCEPT !.flow = flow]
  OBVIOUS
<1>3. at' = [at EXCEPT ![c] = "layout"] /\ hand' = [hand EXCEPT ![c] = h]
  BY <1>2 DEF Start, Goto, Hold
<1>4. \A d \in Consoles : d # c => environ'[d] = environ[d]
  BY DEF Start
<1>5. ASSUME NEW d \in Consoles PROVE Secure(at'[d], hand'[d], environ'[d])
  <2>1. CASE d = c
    <3>1. at'[d] = "layout"
      BY <1>1, <1>3, <2>1
    <3>2. QED
      BY <3>1 DEF Secure, Going, Opening
  <2>2. CASE d # c
    <3>1. at'[d] = at[d] /\ hand'[d] = hand[d] /\ environ'[d] = environ[d]
      BY <1>1, <1>3, <1>4, <2>2
    <3>2. QED
      BY <3>1 DEF SecureInv
  <2>3. QED
    BY <2>1, <2>2
<1>6. QED
  BY <1>5 DEF SecureInv

\* The second half of a write keeps it: what comes next was looked at when the
\* write began.
LEMMA SecureFill ==
  ASSUME CoreOK, SecureInv, NEW c \in Consoles, Fill(c)
  PROVE  SecureInv'
<1>1. PICK k : k = hand[c]
  OBVIOUS
<1>2. DOMAIN k = Fields /\ Secure("fill", k, environ[c]) /\ UNCHANGED environ
  BY <1>1, HandsAre DEF SecureInv, Fill
<1>3. CASE k.next = "end"
  <2>1. PICK l : l = Ended(k.flow)
    OBVIOUS
  <2>2. l \notin Opening \cup {"fill"}
    BY <2>1 DEF Ended, Opening
  <2>3. Goto(c, l) /\ Hold(c, Idle)
    BY <1>1, <1>3, <2>1 DEF Fill
  <2>4. QED
    BY <1>2, <2>2, <2>3, SecureGoto
<1>4. CASE k.next # "end"
  <2>1. PICK h : h = [k EXCEPT !.path = "", !.content = Absent, !.next = ""]
    OBVIOUS
  <2>2. h.server = k.server /\ h.next = ""
    BY <1>2, <2>1 DEF Fields
  <2>3. Goto(c, k.next) /\ Hold(c, h)
    BY <1>1, <1>4, <2>1 DEF Fill
  <2>4. Secure(k.next, h, environ[c])
    BY <1>2, <2>2 DEF Secure, Going, Opening
  <2>5. QED
    BY <1>2, <2>3, <2>4, SecureFrame
<1>5. QED
  BY <1>3, <1>4

\* Choosing a plugin keeps it: a wizard shows a configuration that names no
\* secret yet, and a plain server goes on to its template.
LEMMA SecureChoosePlugin ==
  ASSUME CoreOK, SecureInv, NEW c \in Consoles, NEW plugin, ChoosePlugin(c, plugin)
  PROVE  SecureInv'
<1>1. PICK k : k = hand[c]
  OBVIOUS
<1>2. DOMAIN k = Fields
  BY <1>1, HandsAre
<1>3. UNCHANGED environ
  BY DEF ChoosePlugin
<1>4. PICK ports \in Ports :
        Hold(c, [k EXCEPT !.plugin = plugin, !.edit = ports,
                   !.server = IF at[c] = "choose"
                              THEN PublicServerConfig(Default, plugin, ports, <<>>, NoSecret) ELSE @])
  BY <1>1 DEF ChoosePlugin
<1>5. CASE at[c] = "server" /\ Goto(c, "template")
  BY <1>3, <1>4, <1>5, SecureGoto DEF Opening
<1>6. CASE at[c] = "choose" /\ Goto(c, "free")
  <2>1. PICK server : server = PublicServerConfig(Default, plugin, ports, <<>>, NoSecret)
    OBVIOUS
  <2>2. SecretsOf(server) = {NoSecret}
    BY <2>1, DefaultType, PublicSecrets
  <2>3. PICK h : h = [k EXCEPT !.plugin = plugin, !.edit = ports, !.server = server]
    OBVIOUS
  <2>4. h.server = server /\ Hold(c, h)
    BY <1>2, <1>4, <1>6, <2>1, <2>3 DEF Fields
  <2>5. Secure("free", h, environ[c])
    BY <2>2, <2>4 DEF Secure, Closed
  <2>6. QED
    BY <1>3, <1>6, <2>4, <2>5, SecureFrame
<1>7. QED
  BY <1>5, <1>6 DEF ChoosePlugin

\* Reading the menu's file back keeps it: the file is loaded with strict
\* secrets, and a public server's one secret is the token just made.
LEMMA SecureReload ==
  ASSUME CoreOK, SecureInv, NEW c \in Consoles, ReloadServer(c)
  PROVE  SecureInv'
<1>1. PICK k : k = hand[c]
  OBVIOUS
<1>2. DOMAIN k = Fields
  BY <1>1, HandsAre
<1>3. PICK file, e : file = files["server.menu.json"] /\ e = environ[c]
  OBVIOUS
<1>4. PICK cfg, token : cfg = NormalServer(file, e) /\ token = Word(Tokens[minted + 1])
  OBVIOUS
<1>5. file \in ServerFile
  BY <1>3, PathsAssumption DEF CoreOK, FilesTypeOK
<1>6. LoadsServer(file, e, TRUE) => cfg \in ServerType /\ Closed(cfg, e)
  BY <1>4, <1>5, LoadedType, LoadedIsClosed
<1>7. UNCHANGED environ
  BY DEF ReloadServer
<1>8. CASE /\ LoadsServer(file, e, TRUE)
           /\ k.flow = "server" /\ OverridesAccepted(cfg, k.plugin, k.edit)
           /\ BeginWrite(c, "server.runtime.menu.json", WithPorts(cfg, k.edit), "free",
                         [k EXCEPT !.server = WithPorts(cfg, k.edit)])
  <2>1. PICK server : server = WithPorts(cfg, k.edit)
    OBVIOUS
  <2>2. server.token = cfg.token /\ server.extra = cfg.extra
    BY <1>6, <1>8, <2>1, WithPortsType
  <2>3. SecretsOf(server) = SecretsOf(cfg)
    BY <2>2 DEF SecretsOf
  <2>4. Closed(server, e)
    BY <1>6, <1>8, <2>3 DEF Closed, WSAuthEnabled, WSAuthTokens
  <2>5. PICK h : h = [k EXCEPT !.server = server]
    OBVIOUS
  <2>6. DOMAIN h = Fields /\ h.server = server
    BY <1>2, <2>5 DEF Fields
  <2>7. BeginWrite(c, "server.runtime.menu.json", server, "free", h)
    BY <1>8, <2>1, <2>5
  <2>8. QED
    BY <1>3, <1>7, <2>4, <2>6, <2>7, SecureWrite
<1>9. CASE /\ LoadsServer(file, e, TRUE)
           /\ minted < Len(Tokens)
           /\ BeginWrite(c, "server.public.menu.json",
                PublicServerConfig(cfg, k.plugin, k.edit, PublicHost, token), "hint",
                [k EXCEPT !.server = PublicServerConfig(cfg, k.plugin, k.edit, PublicHost, token),
                          !.told = token])
  <2>1. PICK server : server = PublicServerConfig(cfg, k.plugin, k.edit, PublicHost, token)
    OBVIOUS
  <2>2. SecretsOf(server) = {token}
    BY <1>6, <1>9, <2>1, PublicSecrets
  <2>3. Closed(server, e)
    <3>1. token = [env |-> FALSE, name |-> Tokens[minted + 1]] /\ Tokens[minted + 1] # ""
      BY <1>4, <1>9, FreshToken DEF Word
    <3>2. PICK word : word = Tokens[minted + 1]
      OBVIOUS
    <3>3. ~ token.env /\ ResolveSecret(token, e) = word /\ word # ""
      BY <3>1, <3>2 DEF ResolveSecret
    <3>4. WSAuthEnabled(server, e)
      BY <2>2, <3>3 DEF WSAuthEnabled, WSAuthTokens
    <3>5. \A secret \in SecretsOf(server) : ~ MissingEnv(secret, e)
      BY <2>2, <3>3 DEF MissingEnv
    <3>6. QED
      BY <3>4, <3>5 DEF Closed
  <2>4. PICK h : h = [k EXCEPT !.server = server, !.told = token]
    OBVIOUS
  <2>5. DOMAIN h = Fields /\ h.server = server
    BY <1>2, <2>4 DEF Fields
  <2>6. BeginWrite(c, "server.public.menu.json", server, "hint", h)
    BY <1>9, <2>1, <2>4
  <2>7. QED
    BY <1>3, <1>7, <2>3, <2>5, <2>6, SecureWrite
<1>10. CASE Leave(c)
  BY <1>7, <1>10, SecureLeave
<1>11. QED
  BY <1>1, <1>3, <1>4, <1>8, <1>9, <1>10 DEF ReloadServer

\* The server program's own start keeps it.
LEMMA SecureRoadServer ==
  ASSUME CoreOK, SecureInv, NEW c \in Consoles, RoadServer(c)
  PROVE  SecureInv'
<1>1. UNCHANGED environ
  BY DEF RoadServer
<1>2. CASE Leave(c)
  BY <1>1, <1>2, SecureLeave
<1>3. CASE ~ Leave(c)
  <2>1. PICK file, e, k : file = files[ServerJSON] /\ e = environ[c] /\ k = hand[c]
    OBVIOUS
  <2>2. PICK server : server = NormalServer(file, e)
    OBVIOUS
  <2>3. LoadsServer(file, e, TRUE) /\ Goto(c, "listen") /\ Hold(c, [k EXCEPT !.server = server])
    BY <1>3, <2>1, <2>2 DEF RoadServer
  <2>4. file \in ServerFile
    BY <2>1, PathsAssumption DEF CoreOK, FilesTypeOK
  <2>5. Closed(server, e)
    BY <2>2, <2>3, <2>4, LoadedIsClosed
  <2>6. PICK h : h = [k EXCEPT !.server = server]
    OBVIOUS
  <2>7. h.server = server
    BY <2>1, <2>6, HandsAre DEF Fields
  <2>8. Secure("listen", h, environ[c])
    BY <2>1, <2>5, <2>7 DEF Secure
  <2>9. QED
    BY <1>1, <2>3, <2>6, <2>8, SecureFrame
<1>4. QED
  BY <1>2, <1>3

\* The client's steps keep it: they run no server.
LEMMA SecureClient ==
  ASSUME CoreOK, SecureInv, NEW c \in Consoles,
         UNCHANGED environ,
         \/ OpenClient(c) \/ Profile(c) \/ Preflight(c) \/ RoadClient(c) \/ \E typed : Connection(c, typed)
  PROVE  SecureInv'
<1>1. CASE Leave(c)
  BY <1>1, SecureLeave
<1>2. ASSUME NEW l \in {"input", "profile", "preflight", "dial"}, Goto(c, l), NEW h, Hold(c, h)
      PROVE  SecureInv'
  BY <1>2, SecureGoto DEF Opening
<1>3. ASSUME NEW cfg, WriteClientMenu(c, cfg) PROVE SecureInv'
  <2>1. PICK k : k = hand[c]
    OBVIOUS
  <2>2. PICK h : h = [k EXCEPT !.client = cfg]
    OBVIOUS
  <2>3. DOMAIN h = Fields
    BY <2>1, <2>2, HandsAre DEF Fields
  <2>4. BeginWrite(c, "client.menu.json", cfg, "preflight", h)
    BY <1>3, <2>1, <2>2 DEF WriteClientMenu
  <2>5. QED
    BY <2>3, <2>4, SecureWrite DEF Opening
<1>4. CASE OpenClient(c)
  <2>1. Leave(c) \/ (Goto(c, "input") /\ \E h : Hold(c, h))
    BY <1>4 DEF OpenClient
  <2>2. QED
    BY <1>1, <1>2, <2>1
<1>5. CASE RoadClient(c)
  <2>1. Leave(c) \/ (Goto(c, "preflight") /\ \E h : Hold(c, h))
    BY <1>5 DEF RoadClient
  <2>2. QED
    BY <1>1, <1>2, <2>1
<1>6. ASSUME NEW typed, Connection(c, typed) PROVE SecureInv'
  <2>1. Leave(c) \/ (Goto(c, "profile") /\ \E h : Hold(c, h))
    BY <1>6 DEF Connection
  <2>2. QED
    BY <1>1, <1>2, <2>1
<1>7. CASE Profile(c)
  <2>1. \/ \E profile : ApplyProfile(c, profile)
        \/ \E cfg : WriteClientMenu(c, cfg)
        \/ UNCHANGED at /\ \E h : Hold(c, h)
        \/ Leave(c)
    BY <1>7 DEF Profile
  <2>2. ASSUME NEW profile, ApplyProfile(c, profile) PROVE SecureInv'
    <3>1. Leave(c) \/ \E cfg : WriteClientMenu(c, cfg)
      BY <2>2 DEF ApplyProfile
    <3>2. QED
      BY <1>1, <1>3, <3>1
  <2>3. CASE UNCHANGED at /\ \E h : Hold(c, h)
    <3>1. at[c] = "profile"
      BY <1>7 DEF Profile
    <3>2. Goto(c, "profile")
      BY <2>3, <3>1 DEF Goto, CoreOK
    <3>3. QED
      BY <1>2, <2>3, <3>2
  <2>4. QED
    BY <1>1, <1>3, <2>1, <2>2, <2>3
<1>8. CASE Preflight(c)
  <2>1. Leave(c) \/ Goto(c, "dial")
    BY <1>8 DEF Preflight
  <2>2. Leave(c) \/ UNCHANGED hand \/ \E h : Hold(c, h)
    BY <1>8 DEF Preflight
  <2>3. CASE Goto(c, "dial")
    <3>1. CASE UNCHANGED hand
      BY <2>3, <3>1, SecureStays DEF Opening
    <3>2. CASE \E h : Hold(c, h)
      BY <1>2, <2>3, <3>2
    <3>3. QED
      BY <1>1, <2>2, <3>1, <3>2
  <2>4. QED
    BY <1>1, <2>1, <2>3
<1>9. QED
  BY <1>4, <1>5, <1>6, <1>7, <1>8

\* The inductive step: a server that runs was loaded with strict secrets or
\* made public, and nothing replaces what it holds in between.
LEMMA SecureStep == TypeInv /\ SecureInv /\ [Next]_vars => SecureInv'
<1> SUFFICES ASSUME TypeInv, SecureInv, [Next]_vars PROVE SecureInv'
  OBVIOUS
<1>1. CoreOK /\ environ \in [Consoles -> Environments]
  BY DEF TypeInv
<1>2. CASE UNCHANGED vars
  BY <1>2 DEF SecureInv, vars
<1>3. CASE Next
  <2>1. PICK c \in Consoles :
          \/ \E e \in Environments, flow \in Flows[c] : Start(c, e, flow)
          \/ Layout(c) \/ Seed(c) \/ Fill(c) \/ FillFails(c) \/ Crash(c) \/ Interrupt(c)
          \/ ServerSteps(c) \/ ClientSteps(c) \/ SettingsSteps(c)
    BY <1>3 DEF Next
  <2>2. ASSUME NEW e \in Environments, NEW flow \in Flows[c], Start(c, e, flow) PROVE SecureInv'
    BY <1>1, <2>2, SecureStart
  <2>3. CASE Layout(c)
    <3>1. CASE Goto(c, hand[c].flow) /\ UNCHANGED <<hand, environ>>
      <4>1. Placed("layout", hand[c])
        BY <1>1, <2>3, HandsAre DEF Layout
      <4>2. hand[c].flow \in FlowNames
        BY <4>1 DEF Placed, Going
      <4>3. PICK l : l = hand[c].flow
        OBVIOUS
      <4>4. l \notin Opening \cup {"fill"}
        BY <4>2, <4>3 DEF FlowNames, Opening
      <4>5. QED
        BY <1>1, <3>1, <4>3, <4>4, SecureStays
    <3>2. CASE Goto(c, "seed") /\ UNCHANGED environ /\ \E h : Hold(c, h)
      BY <1>1, <3>2, SecureGoto DEF Opening
    <3>3. QED
      BY <2>3, <3>1, <3>2 DEF Layout
  <2>4. CASE Seed(c)
    <3>1. PICK seed : BeginWrite(c, seed.path, seed.content, "layout", hand[c])
      BY <2>4 DEF Seed
    <3>2. DOMAIN hand[c] = Fields /\ UNCHANGED environ
      BY <1>1, <2>4, HandsAre DEF Seed
    <3>3. QED
      BY <1>1, <3>1, <3>2, SecureWrite DEF Opening
  <2>5. CASE Fill(c)
    BY <1>1, <2>5, SecureFill
  <2>6. CASE FillFails(c) \/ Interrupt(c)
    BY <1>1, <2>6, SecureLeave DEF FillFails, Interrupt
  <2>7. CASE Crash(c)
    BY <1>1, <2>7, SecureGoto DEF Crash, Opening
  <2>8. CASE ServerSteps(c)
    <3>1. CASE AcquireLock(c)
      <4>1. Leave(c) \/ (Goto(c, "choose") /\ UNCHANGED hand)
        BY <3>1 DEF AcquireLock
      <4>2. UNCHANGED environ
        BY <3>1 DEF AcquireLock
      <4>3. QED
        BY <1>1, <4>1, <4>2, SecureLeave, SecureStays DEF Opening
    <3>2. CASE BuildServerConfig(c)
      <4>1. UNCHANGED environ /\ DOMAIN hand[c] = Fields
        BY <1>1, <3>2, HandsAre DEF BuildServerConfig
      <4>2. Leave(c) \/ \E content : BeginWrite(c, "server.menu.json", content, "reload", hand[c])
        BY <3>2 DEF BuildServerConfig
      <4>3. QED
        BY <1>1, <4>1, <4>2, SecureLeave, SecureWrite DEF Opening
    <3>3. CASE ReloadServer(c)
      BY <1>1, <3>3, SecureReload
    <3>4. CASE WriteHint(c)
      <4>1. UNCHANGED environ /\ DOMAIN hand[c] = Fields /\ at[c] = "hint"
        BY <1>1, <3>4, HandsAre DEF WriteHint
      <4>2. PICK content : BeginWrite(c, "client.public.menu.json", content, "listen", hand[c])
        BY <3>4 DEF WriteHint
      <4>3. Closed(hand[c].server, environ[c])
        BY <4>1 DEF SecureInv, Secure, Going, Opening
      <4>4. QED
        BY <1>1, <4>1, <4>2, <4>3, SecureWrite
    <3>5. CASE PortsFree(c)
      <4>1. PICK l : l = AfterPorts(hand[c].flow)
        OBVIOUS
      <4>2. l # "fill" /\ at[c] \in Opening /\ Goto(c, l) /\ UNCHANGED <<hand, environ>>
        BY <3>5, <4>1 DEF PortsFree, AfterPorts, Opening
      <4>3. QED
        BY <1>1, <4>2, SecureStays
    <3>6. CASE PortsRefused(c) \/ EngineFails(c)
      BY <1>1, <3>6, SecureLeave DEF PortsRefused, EngineFails
    <3>7. ASSUME NEW d \in Consoles, KillOwner(c, d) PROVE SecureInv'
      BY <1>1, <3>7, SecureGoto DEF KillOwner, Opening
    <3>8. CASE Listen(c)
      BY <1>1, <3>8, SecureStays DEF Listen, Opening
    <3>9. CASE RoadServer(c)
      BY <1>1, <3>9, SecureRoadServer
    <3>10. ASSUME NEW plugin, ChoosePlugin(c, plugin) PROVE SecureInv'
      BY <1>1, <3>10, SecureChoosePlugin
    <3>11. QED
      BY <2>8, <3>1, <3>2, <3>3, <3>4, <3>5, <3>6, <3>7, <3>8, <3>9, <3>10 DEF ServerSteps
  <2>9. CASE ClientSteps(c)
    <3>1. UNCHANGED environ
      BY <2>9 DEF ClientSteps, OpenClient, Profile, Preflight, RoadClient, Connection
    <3>2. \/ OpenClient(c) \/ Profile(c) \/ Preflight(c) \/ RoadClient(c) \/ \E typed : Connection(c, typed)
      BY <2>9 DEF ClientSteps
    <3>3. QED
      BY <1>1, <3>1, <3>2, SecureClient
  <2>10. CASE SettingsSteps(c)
    <3>1. UNCHANGED environ
      BY <2>10 DEF SettingsSteps, EditServer, EditClient
    <3>2. Leave(c) \/ \E path, content, edit : BeginWrite(c, path, content, "end", [hand[c] EXCEPT !.edit = edit])
      BY <2>10 DEF SettingsSteps, EditServer, EditClient
    <3>3. ASSUME NEW path, NEW content, NEW edit,
                 BeginWrite(c, path, content, "end", [hand[c] EXCEPT !.edit = edit])
          PROVE  SecureInv'
      <4>1. PICK k : k = hand[c]
        OBVIOUS
      <4>2. PICK h : h = [k EXCEPT !.edit = edit]
        OBVIOUS
      <4>3. DOMAIN h = Fields
        BY <1>1, <4>1, <4>2, HandsAre DEF Fields
      <4>4. BeginWrite(c, path, content, "end", h)
        BY <3>3, <4>1, <4>2
      <4>5. QED
        BY <1>1, <3>1, <4>3, <4>4, SecureWrite DEF Opening
    <3>4. QED
      BY <1>1, <3>1, <3>2, <3>3, SecureLeave
  <2>11. QED
    BY <2>1, <2>2, <2>3, <2>4, <2>5, <2>6, <2>7, <2>8, <2>9, <2>10
<1>4. QED
  BY <1>2, <1>3

\* Whatever files people edit and whatever variables are unset, no server runs
\* without authentication while its configuration names a token (LoadConfig's
\* strict secrets, config.go).
THEOREM NeverSilentlyOpen == Spec => []NoSilentOpen
<1>1. Init => SecureInv
  <2>1. Init => \A c \in Consoles : at[c] = "down"
    BY DEF Init
  <2>2. QED
    BY <2>1 DEF SecureInv, Secure, Going, Opening
<1>2. SecureInv => NoSilentOpen
  BY DEF SecureInv, Secure, Going, Opening, Closed, NoSilentOpen, Running
<1>3. QED
  BY <1>1, <1>2, SecureStep, TypeInvHolds, PTL DEF Spec

-----------------------------------------------------------------------------
(* What a flow writes for itself, for its friends and before it dials.     *)

\* A plugin of the menu has a name that is not blank, and a known network.
LEMMA PluginNamed ==
  ASSUME NEW plugin \in MenuPlugins(Folders)
  PROVE  ~ IsBlank(plugin.name) /\ plugin.network \in Networks
<1>1. PICK folder \in DOMAIN Folders : plugin = MenuPlugin(folder, Folders[folder])
  BY DEF MenuPlugins
<1>2. ~ IsBlank(folder) /\ plugin.network \in Networks
  BY <1>1, FoldersAssumption
<1>3. plugin.name = OrElse(TrimSpace(Folders[folder].name), folder)
  BY <1>1 DEF MenuPlugin
<1>4. ~ IsBlank(plugin.name)
  BY <1>2, <1>3, NormalTwice DEF OrElse, IsBlank
<1>5. QED
  BY <1>2, <1>3, <1>4

\* The content of server.menu.json is what its writer wants to read back: it
\* loads, and its default plugin is the chosen one.
Own(content, plugin, e) ==
  /\ LoadsServer(content, e, TRUE)
  /\ DefaultName(content.enabled) = TrimSpace(plugin.name)

\* Writing the selected plugin into a template that loads gives such a
\* content.
LEMMA OwnIsRead ==
  ASSUME NEW template \in ServerFile, NEW e, LoadsServer(template, e, TRUE),
         NEW plugin \in MenuPlugins(Folders)
  PROVE  Own(WithPlugin(NormalServer(template, e), plugin), plugin, e)
<1>1. template \in ServerType
  BY LoadedType
<1>2. PICK n \in ServerType : n = NormalServer(template, e)
  BY LoadedType
<1>3. ServerAccepted(n, e, TRUE)
  BY <1>2 DEF LoadsServer
<1>4. plugin \in PluginType /\ plugin.name \in TextType /\ ~ IsBlank(plugin.name)
  BY MenuPluginsType, PluginNamed DEF PluginType
<1>5. PICK enabled \in Seq(TextType) :
        /\ enabled = SelectedFirst(plugin.name, n.enabled)
        /\ enabled # <<>> /\ enabled[1] = TrimSpace(plugin.name)
        /\ IsInjective(enabled) /\ Empty \notin ToSet(enabled)
        /\ \A i \in DOMAIN enabled : TrimSpace(enabled[i]) = enabled[i]
  <2>1. n.enabled \in Seq(TextType)
    BY DEF ServerType
  <2>2. \A i \in DOMAIN n.enabled : TrimSpace(n.enabled[i]) = n.enabled[i]
    <3>1. n.enabled = [i \in DOMAIN template.enabled |-> TrimSpace(template.enabled[i])]
      BY <1>1, <1>2, NormalFields
    <3>2. QED
      BY <3>1, NormalTwice
  <2>3. QED
    BY <1>4, <2>1, <2>2, SelectedFirstIs, SelectedFirstType
<1>6. PICK w \in ServerType : w = WithPlugin(n, plugin)
  BY <1>4, WithPluginType
<1>7. /\ w.token = n.token /\ w.extra = n.extra /\ w.header = n.header /\ w.limits = n.limits
      /\ w.waits = n.waits /\ w.enabled = enabled /\ w.format = n.format /\ w.record = n.record
  <2>1. PICK tcp : tcp = IF plugin.network = Text("udp") THEN Addr("0.0.0.0", 0) ELSE n.tcp
    OBVIOUS
  <2>2. w = [n EXCEPT !.pluginDir = "plugins", !.enabled = enabled, !.tcp = tcp]
    BY <1>5, <1>6, <2>1 DEF WithPlugin
  <2>3. QED
    BY <2>2 DEF ServerType
<1>8. PICK m \in ServerType : m = NormalServer(w, e)
  BY NormalServerType
<1>9. /\ m.header = NormalHeader(n.header, WSAuthEnabled(w, e))
      /\ m.limits = n.limits /\ m.waits = NormalWaits(n.waits)
      /\ m.enabled = [i \in DOMAIN enabled |-> TrimSpace(enabled[i])]
      /\ m.format = NormalFormat(n.format) /\ m.record = NormalRecord(n.record)
  BY <1>7, <1>8, NormalFields
<1>10. \A secret \in SecretsOf(m) : ~ MissingEnv(secret, e)
  <2>1. SecretsOf(m) \subseteq SecretsOf(n)
    <3>1. SecretsOf(w) = SecretsOf(n)
      BY <1>7 DEF SecretsOf
    <3>2. QED
      BY <1>8, <3>1, TokensStay
  <2>2. QED
    BY <1>3, <2>1 DEF ServerAccepted
<1>11. /\ WSAuthEnabled(m, e) = WSAuthEnabled(template, e) /\ WSAuthEnabled(w, e) = WSAuthEnabled(template, e)
       /\ WSAuthEnabled(n, e) = WSAuthEnabled(template, e)
  <2>1. WSAuthEnabled(w, e) = WSAuthEnabled(n, e)
    BY <1>7 DEF WSAuthEnabled, WSAuthTokens, SecretsOf
  <2>2. QED
    BY <1>1, <1>2, <1>8, <2>1, TokensStay
<1>12. ValidHeader(m.header, WSAuthEnabled(m, e))
  <2>1. SUFFICES ASSUME WSAuthEnabled(template, e) PROVE m.header \notin InvalidHeaderNames
    BY <1>11 DEF ValidHeader
  <2>2. n.header \notin InvalidHeaderNames
    BY <1>3, <1>11, <2>1 DEF ServerAccepted, ValidHeader
  <2>3. n.header = NormalHeader(template.header, TRUE)
    BY <1>1, <1>2, <2>1, NormalFields
  <2>4. m.header = NormalHeader(n.header, TRUE)
    BY <1>9, <1>11, <2>1
  <2>5. m.header = n.header
    BY <2>3, <2>4, HeaderTwice
  <2>6. QED
    BY <2>2, <2>5
<1>13. PluginNamesOK(m.enabled)
  <2>1. m.enabled = enabled
    <3>1. PICK k \in Nat : enabled \in [1 .. k -> TextType]
      BY <1>5
    <3>2. QED
      BY <1>5, <1>9, <3>1
  <2>2. QED
    BY <1>5, <2>1 DEF PluginNamesOK
<1>14. \A limit \in DOMAIN m.limits : m.limits[limit] >= 0
  BY <1>3, <1>9 DEF ServerAccepted
<1>15. ValidFormat(m.format) /\ ValidRecord(m.record)
  <2>1. ValidFormat(n.format) /\ ValidRecord(n.record)
    BY <1>3 DEF ServerAccepted
  <2>2. m.format = n.format
    BY <1>9, <2>1, FormatTwice
  <2>3. n.record \in RecordType
    BY DEF ServerType
  <2>4. ValidRecord(m.record)
    BY <1>9, <2>1, <2>3, RecordTwice
  <2>5. QED
    BY <2>1, <2>2, <2>4
<1>16. \A wait \in DOMAIN m.waits : Parses(m.waits[wait])
  <2>1. n.waits \in WaitsType /\ \A wait \in DOMAIN n.waits : Parses(n.waits[wait])
    BY <1>3 DEF ServerAccepted, ServerType
  <2>2. QED
    BY <1>9, <2>1, WaitsTwice
<1>17. ServerAccepted(m, e, TRUE)
  BY <1>10, <1>12, <1>13, <1>14, <1>15, <1>16 DEF ServerAccepted
<1>18. Readable(w)
  <2>1. DOMAIN w # {"file"}
    <3>1. "tcp" \in DOMAIN w
      BY DEF ServerType
    <3>2. QED
      BY <3>1
  <2>2. QED
    BY <2>1 DEF Readable, Absent, Torn
<1>19. DefaultName(w.enabled) = TrimSpace(plugin.name)
  BY <1>5, <1>7, NormalTwice DEF DefaultName
<1>20. QED
  BY <1>2, <1>6, <1>8, <1>17, <1>18, <1>19 DEF Own, LoadsServer

\* The fields of a normalized client configuration that LoadClientConfig
\* judges, each from the fields it was made of.
LEMMA ClientFields ==
  ASSUME NEW cfg \in ClientType(HeaderMaps), NEW e
  PROVE  LET normal == NormalClient(cfg, e) IN
         /\ normal.network = ToLower(TrimSpace(OrElse(cfg.network, Text("tcp"))))
         /\ normal.udpListeners = [i \in DOMAIN cfg.udpListeners |-> NormalListener(cfg.udpListeners[i])]
         /\ normal.url = OrDefault(cfg.url, NoURL, DefaultClient.url) /\ normal.token = cfg.token
         /\ normal.header = NormalHeader(cfg.header, ResolveSecret(cfg.token, e) # "")
         /\ normal.waits = [wait \in DOMAIN cfg.waits |->
                              IF wait \in {"handshake", "read", "write"} THEN cfg.waits[wait]
                              ELSE DurationOrDefault(cfg.waits[wait])]
         /\ normal.format = NormalFormat(cfg.format) /\ normal.record = NormalRecord(cfg.record)
<1>1. PICK listen, network, listeners, url, plugin, header, retries, waits, sizes, format, record :
        /\ listen = OrDefault(cfg.listen, NoAddr, DefaultClient.listen)
        /\ network = ToLower(TrimSpace(OrElse(cfg.network, Text("tcp"))))
        /\ listeners = [i \in DOMAIN cfg.udpListeners |-> NormalListener(cfg.udpListeners[i])]
        /\ url = OrDefault(cfg.url, NoURL, DefaultClient.url)
        /\ plugin = OrElse(cfg.plugin, Text("minecraft"))
        /\ header = NormalHeader(cfg.header, ResolveSecret(cfg.token, e) # "")
        /\ retries = AtLeast(0, cfg.retries, 0)
        /\ waits = [wait \in DOMAIN cfg.waits |->
                      IF wait \in {"handshake", "read", "write"} THEN cfg.waits[wait]
                      ELSE DurationOrDefault(cfg.waits[wait])]
        /\ sizes = [buffer |-> AtLeast(MinimumSafeBufferSize, cfg.sizes.buffer, DefaultClient.sizes.buffer),
                    message |-> AtLeast(1, cfg.sizes.message, DefaultClient.sizes.message)]
        /\ format = NormalFormat(cfg.format) /\ record = NormalRecord(cfg.record)
  OBVIOUS
<1>2. NormalClient(cfg, e) =
        [cfg EXCEPT !.listen = listen, !.network = network, !.udpListeners = listeners, !.url = url,
           !.plugin = plugin, !.header = header, !.retries = retries, !.waits = waits,
           !.sizes = sizes, !.format = format, !.record = record]
  BY <1>1 DEF NormalClient
<1>3. QED
  BY <1>1, <1>2 DEF ClientType

\* What LoadClientConfig asks of a client configuration, its address, its
\* network and its secret apart.
Sound(cfg) ==
  /\ ValidFormat(cfg.format) /\ ValidRecord(cfg.record)
  /\ UDPListenersOK(cfg.udpListeners)
  /\ \A i \in DOMAIN cfg.udpListeners : TrimSpace(cfg.udpListeners[i].addr) = cfg.udpListeners[i].addr
  /\ \A wait \in DOMAIN cfg.waits : Parses(cfg.waits[wait])
  /\ NotNegative(cfg.waits.udpMetrics)

\* The client configuration in the executable is sound.
LEMMA DefaultIsSound == Sound(DefaultClient)
<1>1. /\ DefaultClient.format = Text("text") /\ DefaultClient.record = DefaultRecord
      /\ DefaultClient.udpListeners = <<>>
  BY DEF DefaultClient
<1>2. DefaultClient.waits =
        [wait \in {"retryInitial", "retryMax", "idle", "ping", "udpIdle", "udpMetrics", "handshake",
                   "read", "write"} |-> "ok"]
  BY DEF DefaultClient
<1>3. \A wait \in DOMAIN DefaultClient.waits : Parses(DefaultClient.waits[wait])
  BY <1>2 DEF Parses
<1>4. NotNegative(DefaultClient.waits.udpMetrics)
  BY <1>2 DEF NotNegative
<1>5. ValidRecord(DefaultRecord)
  BY DEF ValidRecord, DefaultRecord, NotNegative
<1>6. ValidFormat(Text("text"))
  BY DEF ValidFormat
<1>7. PICK listeners : listeners = DefaultClient.udpListeners
  OBVIOUS
<1>8. listeners = <<>> /\ DOMAIN listeners = {}
  BY <1>1, <1>7
<1>9. UDPListenersOK(listeners)
  BY <1>8 DEF UDPListenersOK
<1>10. QED
  BY <1>1, <1>3, <1>4, <1>5, <1>6, <1>7, <1>8, <1>9 DEF Sound

\* So is a template that loads.
LEMMA LoadedIsSound ==
  ASSUME NEW template \in ClientFile, NEW e, LoadsClient(template, e, TRUE, TRUE)
  PROVE  Sound(NormalClient(template, e))
<1>1. template \in ClientType(HeaderMaps)
  BY LoadedType
<1>2. PICK n \in ClientType(HeaderMaps) : n = NormalClient(template, e)
  BY LoadedType
<1>3. ClientAccepted(n, e, TRUE, TRUE)
  BY <1>2 DEF LoadsClient
<1>4. n.udpListeners = [i \in DOMAIN template.udpListeners |-> NormalListener(template.udpListeners[i])]
  BY <1>1, <1>2, ClientFields
<1>5. \A i \in DOMAIN n.udpListeners : TrimSpace(n.udpListeners[i].addr) = n.udpListeners[i].addr
  <2>1. ASSUME NEW i \in DOMAIN n.udpListeners PROVE TrimSpace(n.udpListeners[i].addr) = n.udpListeners[i].addr
    <3>1. n.udpListeners[i] = NormalListener(template.udpListeners[i])
      BY <1>4, <2>1
    <3>2. n.udpListeners[i].addr = TrimSpace(template.udpListeners[i].addr)
      BY <3>1 DEF NormalListener
    <3>3. QED
      BY <3>2, NormalTwice
  <2>2. QED
    BY <2>1
<1>6. QED
  BY <1>2, <1>3, <1>5 DEF Sound, ClientAccepted

\* The file a wizard writes for a friend, and what it must say: the public
\* address, the chosen plugin, the token in the default header, all in a file
\* that loads if its network takes its UDP listeners.
HintPath == "client.public.menu.json"
Hint(content, h, e) ==
  /\ content.url = PublicURL /\ content.plugin = h.plugin.name
  /\ content.token = h.told /\ content.header = DefaultAuthHeaderName
  /\ Readable(content) /\ (FitsNetwork(content) => LoadsClient(content, e, TRUE, TRUE))

\* The token was generated (crypto/rand), not typed.
Generates(token) == \E i \in DOMAIN Tokens : token = Word(Tokens[i])

\* A generated token is written out in full: it names no variable and is not
\* empty.
LEMMA GeneratedIsWord ==
  ASSUME NEW token, Generates(token), NEW e
  PROVE  /\ token.env = FALSE /\ token.name # "" /\ ResolveSecret(token, e) = token.name
         /\ token = Word(token.name) /\ token # NoSecret
<1>1. PICK i \in DOMAIN Tokens : token = Word(Tokens[i])
  BY DEF Generates
<1>2. PICK word : word = Tokens[i] /\ word # ""
  BY ValuesAssumption
<1>3. token.env = FALSE /\ token.name = word
  BY <1>1, <1>2 DEF Word
<1>4. ResolveSecret(token, e) = word
  BY <1>3 DEF ResolveSecret
<1>5. token # NoSecret
  <2>1. NoSecret.name = ""
    BY DEF NoSecret, Word
  <2>2. QED
    BY <1>2, <1>3, <2>1
<1>6. QED
  BY <1>1, <1>2, <1>3, <1>4, <1>5

\* What the wizard writes for a friend is such a file, from whatever template.
LEMMA HintLoads ==
  ASSUME NEW plugin \in MenuPlugins(Folders), NEW template \in ClientFile,
         NEW e, NEW h, h.plugin = plugin, Generates(h.told), h.told \in SecretType
  PROVE  Hint(PublicClientConfig(template, e, plugin, PublicURL, h.told), h, e)
<1>1. PICK b \in ClientType(HeaderMaps) :
        /\ b = IF LoadsClient(template, e, TRUE, TRUE) THEN NormalClient(template, e) ELSE DefaultClient
        /\ Sound(b)
  <2>1. CASE LoadsClient(template, e, TRUE, TRUE)
    <3>1. NormalClient(template, e) \in ClientType(HeaderMaps)
      BY <2>1, LoadedType
    <3>2. QED
      BY <2>1, <3>1, LoadedIsSound
  <2>2. CASE ~ LoadsClient(template, e, TRUE, TRUE)
    BY <2>2, ValuesAssumption, DefaultClientType, DefaultIsSound
  <2>3. QED
    BY <2>1, <2>2
<1>2. PICK token \in SecretType : token = h.told
  OBVIOUS
<1>3. token.env = FALSE /\ token.name # "" /\ ResolveSecret(token, e) = token.name
  BY <1>2, GeneratedIsWord
<1>4. PICK name \in TextType, network \in TextType, url \in URLType, header \in TextType :
        /\ name = plugin.name /\ network = plugin.network /\ url = PublicURL
        /\ header = DefaultAuthHeaderName
  BY MenuPluginsType, ValuesAssumption, NamesAre DEF PluginType
<1>5. PICK content : content = [b EXCEPT !.url = url, !.plugin = name, !.network = network,
                                         !.token = token, !.header = header]
  OBVIOUS
<1>6. content = PublicClientConfig(template, e, plugin, PublicURL, h.told)
  BY <1>1, <1>2, <1>4, <1>5 DEF PublicClientConfig
<1>7. /\ content \in ClientType(HeaderMaps)
      /\ content.url = url /\ content.plugin = name /\ content.network = network
      /\ content.token = token /\ content.header = header
      /\ content.udpListeners = b.udpListeners /\ content.waits = b.waits /\ content.format = b.format
      /\ content.record = b.record
  BY <1>5 DEF ClientType
<1>8. PICK m : m = NormalClient(content, e)
  OBVIOUS
<1>9. /\ m.network = ToLower(TrimSpace(OrElse(network, Text("tcp"))))
      /\ m.udpListeners = [i \in DOMAIN b.udpListeners |-> NormalListener(b.udpListeners[i])]
      /\ m.url = OrDefault(url, NoURL, DefaultClient.url) /\ m.token = token
      /\ m.header = NormalHeader(header, ResolveSecret(token, e) # "")
      /\ m.waits = [wait \in DOMAIN b.waits |->
                      IF wait \in {"handshake", "read", "write"} THEN b.waits[wait]
                      ELSE DurationOrDefault(b.waits[wait])]
      /\ m.format = NormalFormat(b.format) /\ m.record = NormalRecord(b.record)
  <2>1. LET normal == NormalClient(content, e) IN
         /\ normal.network = ToLower(TrimSpace(OrElse(content.network, Text("tcp"))))
         /\ normal.udpListeners = [i \in DOMAIN content.udpListeners |-> NormalListener(content.udpListeners[i])]
         /\ normal.url = OrDefault(content.url, NoURL, DefaultClient.url) /\ normal.token = content.token
         /\ normal.header = NormalHeader(content.header, ResolveSecret(content.token, e) # "")
         /\ normal.waits = [wait \in DOMAIN content.waits |->
                              IF wait \in {"handshake", "read", "write"} THEN content.waits[wait]
                              ELSE DurationOrDefault(content.waits[wait])]
         /\ normal.format = NormalFormat(content.format) /\ normal.record = NormalRecord(content.record)
    BY <1>7, ClientFields
  <2>2. QED
    BY <1>7, <1>8, <2>1, Zenon
<1>10. ValidServerWSURL(m.url)
  <2>1. url.scheme = "wss" /\ url.host # "" /\ NoURL.host = ""
    BY <1>4, ValuesAssumption DEF NoURL, URL
  <2>2. m.url = url
    BY <1>9, <2>1 DEF OrDefault
  <2>3. QED
    BY <2>1, <2>2 DEF ValidServerWSURL
<1>11. ~ MissingEnv(m.token, e)
  BY <1>3, <1>9 DEF MissingEnv
<1>12. ValidHeader(m.header, ResolveSecret(m.token, e) # "")
  <2>1. m.header = NormalHeader(DefaultAuthHeaderName, TRUE)
    BY <1>3, <1>4, <1>9
  <2>2. m.header = DefaultAuthHeaderName
    BY <2>1, HeadersAreNormal DEF NormalHeader, OrElse
  <2>3. DefaultAuthHeaderName # Text("auth header")
    <3>1. Text("x-road-token").word = "x-road-token" /\ Text("auth header").word = "auth header"
      BY DEF Text
    <3>2. QED
      BY <3>1 DEF DefaultAuthHeaderName
  <2>4. QED
    BY <2>2, <2>3 DEF ValidHeader, InvalidHeaderNames
<1>13. m.network = network /\ network \in {Text("tcp"), Text("udp")}
  <2>1. network \in {Text("tcp"), Text("udp")}
    BY <1>4, PluginNamed DEF Networks
  <2>2. Text("tcp") # Empty /\ Text("udp") # Empty
    <3>1. Text("tcp").word = "tcp" /\ Text("udp").word = "udp" /\ Text("").word = ""
      BY DEF Text
    <3>2. QED
      BY <3>1 DEF Empty
  <2>3. OrElse(network, Text("tcp")) = network
    BY <2>1, <2>2 DEF OrElse
  <2>4. ToLower(TrimSpace(network)) = network
    BY <2>1, WordsAreNormal
  <2>5. QED
    BY <1>9, <2>1, <2>3, <2>4
<1>14. PICK listeners : listeners = b.udpListeners
  OBVIOUS
<1>15. /\ UDPListenersOK(listeners) /\ listeners \in Seq(ListenerType)
       /\ \A i \in DOMAIN listeners : TrimSpace(listeners[i].addr) = listeners[i].addr
       /\ m.udpListeners = [i \in DOMAIN listeners |-> NormalListener(listeners[i])]
  BY <1>1, <1>4, <1>9, <1>14 DEF Sound, ClientType
<1>16. \A i \in DOMAIN listeners : m.udpListeners[i].addr = listeners[i].addr
  BY <1>15 DEF NormalListener
<1>17. UDPListenersOK(m.udpListeners)
  <2>1. DOMAIN m.udpListeners = DOMAIN listeners
    BY <1>15
  <2>2. QED
    BY <1>15, <1>16, <2>1 DEF UDPListenersOK
<1>18. FitsNetwork(content) => (m.udpListeners # <<>> => m.network = Text("udp"))
  <2>1. ASSUME listeners = <<>> PROVE m.udpListeners = <<>>
    BY <1>15, <2>1
  <2>2. content.udpListeners = listeners /\ content.network = m.network
    BY <1>7, <1>13, <1>14
  <2>3. QED
    BY <2>1, <2>2 DEF FitsNetwork
<1>19. ValidFormat(m.format) /\ ValidRecord(m.record)
  <2>1. b.record \in RecordType /\ ValidFormat(b.format) /\ ValidRecord(b.record)
    BY <1>1 DEF Sound, ClientType
  <2>2. QED
    BY <1>9, <2>1, FormatTwice, RecordTwice
<1>20. PICK waits \in ClientWaitsType : waits = b.waits
  BY DEF ClientType
<1>21. /\ \A wait \in DOMAIN waits : Parses(waits[wait])
       /\ NotNegative(waits.udpMetrics)
  BY <1>1, <1>20 DEF Sound
<1>22. (\A wait \in DOMAIN m.waits : Parses(m.waits[wait])) /\ NotNegative(m.waits.udpMetrics)
  <2>1. /\ DOMAIN m.waits = DOMAIN waits
        /\ \A wait \in DOMAIN waits : m.waits[wait] = waits[wait] \/ m.waits[wait] = DurationOrDefault(waits[wait])
    BY <1>9, <1>20
  <2>2. "udpMetrics" \in DOMAIN waits
    BY DEF ClientWaitsType
  <2>3. QED
    BY <1>21, <2>1, <2>2 DEF Parses, NotNegative, DurationOrDefault
<1>23. FitsNetwork(content) => ClientAccepted(m, e, TRUE, TRUE)
  BY <1>10, <1>11, <1>12, <1>13, <1>17, <1>18, <1>19, <1>22 DEF ClientAccepted
<1>24. Readable(content)
  <2>1. "url" \in DOMAIN content
    BY <1>7 DEF ClientType
  <2>2. QED
    BY <2>1 DEF Readable, Absent, Torn
<1>25. content.url = PublicURL /\ content.plugin = h.plugin.name /\ content.token = h.told
       /\ content.header = DefaultAuthHeaderName
  BY <1>2, <1>4, <1>7
<1>26. QED
  BY <1>6, <1>8, <1>23, <1>24, <1>25 DEF Hint, LoadsClient

\* The headers of the request a client makes before it dials: its preflight,
\* or its request for a profile.
Sent(cfg, flow, e) ==
  IF flow = "road-client" THEN PreflightHeaders(cfg, e) ELSE ClientProfileFetchHeaders(cfg, e)

\* The request before the dial, and the dial, send the same headers when no
\* two names of the configuration's headers are one (PreflightHeaders and
\* DialHeaders set the same map in the same way).
LEMMA SameHeaders ==
  ASSUME NEW cfg, NEW flow, NEW e, ~ Ambiguous(cfg, flow),
         NEW sent \in Sent(cfg, flow, e),
         NEW dialled \in DialHeaders(cfg, e)
  PROVE  sent = dialled
<1>1. PICK H, token, name, key :
        /\ H = cfg.headers /\ token = ResolveSecret(cfg.token, e)
        /\ name = OrElse(TrimSpace(cfg.header), DefaultAuthHeaderName)
        /\ key = AuthHeaderName(name)
  OBVIOUS
<1>2. \A m, n \in DOMAIN H : AuthHeaderName(m) = AuthHeaderName(n) => m = n
  BY <1>1 DEF Ambiguous
<1>3. PICK x \in SetInAnyOrder(H) : dialled = IF token = "" THEN x ELSE WithHeader(x, key, token)
  BY <1>1 DEF DialHeaders
<1>4. Ordered(x, H)
  BY <1>2, OneOrder
<1>5. CASE flow # "road-client"
  <2>1. PICK y \in SetInAnyOrder(H) : sent = IF token = "" THEN y ELSE WithHeader(y, key, token)
    BY <1>1, <1>5 DEF Sent, DialHeaders, ClientProfileFetchHeaders
  <2>2. Ordered(y, H)
    BY <1>2, OneOrder
  <2>3. x = y
    BY <1>4, <2>2, SameOrder
  <2>4. QED
    BY <1>3, <2>1, <2>3
<1>6. CASE flow = "road-client" /\ token = ""
  <2>1. sent \in SetInAnyOrder(H)
    BY <1>1, <1>6 DEF Sent, PreflightHeaders
  <2>2. Ordered(sent, H)
    BY <1>2, <2>1, OneOrder
  <2>3. x = sent
    BY <1>4, <2>2, SameOrder
  <2>4. QED
    BY <1>3, <1>6, <2>3
<1>7. CASE flow = "road-client" /\ token # ""
  <2>1. PICK G : G = WithHeader(H, name, token)
    OBVIOUS
  <2>2. DOMAIN G = DOMAIN H \cup {name}
        /\ \A n \in DOMAIN G : G[n] = IF n = name THEN AuthHeaderValue(name, token) ELSE H[n]
    BY <2>1 DEF WithHeader
  <2>3. sent \in SetInAnyOrder(G)
    BY <1>1, <1>7, <2>1 DEF Sent, PreflightHeaders
  <2>4. \A m, n \in DOMAIN G : AuthHeaderName(m) = AuthHeaderName(n) => m = n
    <3>1. \A m, n \in DOMAIN H \cup {name} : AuthHeaderName(m) = AuthHeaderName(n) => m = n
      BY <1>1, <1>7 DEF Ambiguous
    <3>2. QED
      BY <2>2, <3>1
  <2>5. Ordered(sent, G)
    BY <2>3, <2>4, OneOrder
  <2>6. dialled = [n \in DOMAIN x \cup {key} |-> IF n = key THEN AuthHeaderValue(key, token) ELSE x[n]]
    BY <1>3, <1>7 DEF WithHeader
  <2>7. DOMAIN x \cup {key} = {AuthHeaderName(n) : n \in DOMAIN G}
    BY <1>1, <1>4, <2>2 DEF Ordered
  <2>8. AuthHeaderValue(key, token) = AuthHeaderValue(name, token)
    BY <1>1, HeadersAreNormal DEF AuthHeaderValue
  <2>9. ASSUME NEW n \in DOMAIN G
        PROVE  sent[AuthHeaderName(n)] = dialled[AuthHeaderName(n)]
    <3>1. CASE n = name
      <4>1. sent[key] = AuthHeaderValue(name, token)
        BY <1>1, <2>2, <2>5, <3>1 DEF Ordered
      <4>2. dialled[key] = AuthHeaderValue(key, token)
        BY <2>6
      <4>3. QED
        BY <1>1, <2>8, <3>1, <4>1, <4>2
    <3>2. CASE n # name
      <4>1. PICK m : m = AuthHeaderName(n)
        OBVIOUS
      <4>2. n \in DOMAIN H /\ G[n] = H[n] /\ sent[m] = H[n] /\ x[m] = H[n]
        BY <1>4, <2>2, <2>5, <3>2, <4>1 DEF Ordered
      <4>3. m # key
        BY <1>1, <2>2, <2>4, <3>2, <4>1
      <4>4. m \in DOMAIN x \cup {key}
        BY <2>7, <4>1
      <4>5. dialled[m] = x[m]
        BY <2>6, <4>3, <4>4
      <4>6. QED
        BY <4>1, <4>2, <4>5
    <3>3. QED
      BY <3>1, <3>2
  <2>10. PICK keys : keys = {AuthHeaderName(n) : n \in DOMAIN G}
    OBVIOUS
  <2>11. \A m \in keys : sent[m] = dialled[m]
    BY <2>9, <2>10
  <2>12. sent = [n \in keys |-> sent[n]] /\ dialled = [n \in keys |-> dialled[n]]
    BY <2>5, <2>6, <2>7, <2>10 DEF Ordered
  <2>13. QED
    BY <2>11, <2>12
<1>8. QED
  BY <1>5, <1>6, <1>7

\* The configuration of a public server: its one token was generated, is sent
\* in the default header, is asked at /ws on the public host, and the chosen
\* plugin is the default one.
Published(h) ==
  /\ Generates(h.told)
  /\ h.server.token = h.told /\ h.server.extra = <<>> /\ h.server.header = DefaultAuthHeaderName
  /\ h.server.wsEndpoint = "/ws"
  /\ h.server.allowedHosts = PublicAllowedHosts(PublicHost)
  /\ DefaultName(h.server.enabled) = TrimSpace(h.plugin.name)

\* PublicServerConfig makes such a configuration.
LEMMA PublicIsPublished ==
  ASSUME NEW template \in ServerType, NEW e, NEW cfg \in ServerType, cfg = NormalServer(template, e),
         NEW plugin \in MenuPlugins(Folders), NEW ports, NEW h, Generates(h.told), h.plugin = plugin,
         h.server = PublicServerConfig(cfg, plugin, ports, PublicHost, h.told)
  PROVE  Published(h)
<1>1. PICK enabled : enabled = SelectedFirst(plugin.name, cfg.enabled)
  OBVIOUS
<1>2. enabled[1] = TrimSpace(plugin.name)
  <2>1. plugin.name \in TextType /\ ~ IsBlank(plugin.name) /\ cfg.enabled \in Seq(TextType)
    BY MenuPluginsType, PluginNamed DEF PluginType, ServerType
  <2>2. cfg.enabled = [i \in DOMAIN template.enabled |-> TrimSpace(template.enabled[i])]
    BY NormalFields
  <2>3. \A i \in DOMAIN cfg.enabled : TrimSpace(cfg.enabled[i]) = cfg.enabled[i]
    BY <2>2, NormalTwice
  <2>4. QED
    BY <1>1, <2>1, <2>3, SelectedFirstIs
<1>3. PICK server, token, hosts, origins, http, control :
        /\ server = h.server /\ token = h.told
        /\ hosts = PublicAllowedHosts(PublicHost) /\ origins = PublicAllowedOrigins(PublicHost)
        /\ http = Addr("127.0.0.1", ports.http) /\ control = Addr("127.0.0.1", ports.control)
  OBVIOUS
<1>4. server =
        [cfg EXCEPT
           !.tcp = Addr("127.0.0.1", 0),
           !.http = TRUE, !.httpAddr = http, !.wsEndpoint = "/ws",
           !.token = token, !.extra = <<>>, !.header = DefaultAuthHeaderName,
           !.trustProxy = TRUE,
           !.limits = [maxConnections |-> 16, maxConnectionsPerIP |-> 8, rateLimitPerMinute |-> 60],
           !.allowedHosts = hosts, !.allowedOrigins = origins,
           !.control = TRUE, !.controlAddr = control,
           !.pluginAPIPublic = FALSE,
           !.enabled = enabled]
  BY <1>1, <1>3 DEF PublicServerConfig
<1>5. /\ server.token = token /\ server.extra = <<>> /\ server.header = DefaultAuthHeaderName
      /\ server.wsEndpoint = "/ws" /\ server.allowedHosts = hosts /\ server.enabled = enabled
  BY <1>4 DEF ServerType
<1>6. DefaultName(enabled) = TrimSpace(plugin.name)
  BY <1>2, NormalTwice DEF DefaultName
<1>7. QED
  BY <1>3, <1>5, <1>6 DEF Published

\* A public server's only token is the generated one, and authentication is
\* on.
LEMMA PublishedTokens ==
  ASSUME NEW h, Published(h), NEW e
  PROVE  /\ SecretsOf(h.server) = {h.told}
         /\ WSAuthTokens(h.server, e) = {h.told.name} /\ WSAuthEnabled(h.server, e)
         /\ WSAuthHeader(h.server, e) = DefaultAuthHeaderName
<1>1. PICK server, token : server = h.server /\ token = h.told
  OBVIOUS
<1>2. server.token = token /\ server.extra = <<>> /\ server.header = DefaultAuthHeaderName
  BY <1>1 DEF Published
<1>3. token.name # "" /\ ResolveSecret(token, e) = token.name
  BY <1>1, GeneratedIsWord DEF Published
<1>4. ToSet(server.extra) = {}
  BY <1>2 DEF ToSet
<1>5. SecretsOf(server) = {token}
  BY <1>2, <1>4 DEF SecretsOf
<1>6. WSAuthTokens(server, e) = {token.name}
  BY <1>3, <1>5 DEF WSAuthTokens
<1>7. WSAuthEnabled(server, e)
  BY <1>6 DEF WSAuthEnabled
<1>8. WSAuthHeader(server, e) = DefaultAuthHeaderName
  BY <1>2, <1>7, HeadersAreNormal DEF WSAuthHeader, OrElse
<1>9. QED
  BY <1>1, <1>5, <1>6, <1>7, <1>8

\* A public server shuts out everyone who sends another token.
LEMMA StrangerShutOut ==
  ASSUME NEW c \in Consoles, Published(hand[c]), NEW token, token # hand[c].told.name,
         NEW headers, headers = [name \in {DefaultAuthHeaderName} |-> AuthHeaderValue(name, token)]
  PROVE  ShutOut(c, headers)
<1>1. PICK h, e, plugins : h = hand[c] /\ e = environ[c] /\ plugins = Plugins(c)
  OBVIOUS
<1>2. PICK s : s = h.server
  OBVIOUS
<1>3. /\ WSAuthTokens(s, e) = {h.told.name} /\ WSAuthEnabled(s, e)
      /\ WSAuthHeader(s, e) = DefaultAuthHeaderName /\ s.wsEndpoint = "/ws"
  BY <1>1, <1>2, PublishedTokens DEF Published
<1>4. headers[DefaultAuthHeaderName].token = token /\ DOMAIN headers = {DefaultAuthHeaderName}
  BY DEF AuthHeaderValue
<1>5. ASSUME NEW where \in {"/ws", "/api/ping", "/api/info", "/api/plugins", "/api/stats", "/dashboard"}
      PROVE  LET request == Request(where, headers)
                 data == DataStatus(s, e, plugins, request)
                 control == ControlStatus(s, e, JSONFiles, request)
             IN  /\ data \in {200, 101} => where = "/api/ping"
                 /\ control = 200 => where = "/dashboard"
  <2>1. PICK request : request = Request(where, headers)
    OBVIOUS
  <2>2. request.method = "GET" /\ request.path = where /\ request.headers = headers
    BY <2>1 DEF Request
  <2>3. ~ ValidateWSToken(s, e, request)
    <3>1. Provided(s, e, request) = {token}
      BY <1>3, <1>4, <2>2 DEF Provided
    <3>2. QED
      BY <1>1, <1>3, <3>1 DEF ValidateWSToken
  <2>4. WebSocketStatus(s, e, plugins, request) = 401
    BY <2>2, <2>3, SocketAnswers
  <2>5. DataStatus(s, e, plugins, request) \in {200, 101} => where = "/api/ping"
    BY <1>3, <2>2, <2>3, <2>4 DEF DataStatus
  <2>6. where # "/dashboard" => ControlStatus(s, e, JSONFiles, request) = 401
    BY <2>2, <2>3 DEF ControlStatus, IsDashboardShellRequest
  <2>7. QED
    BY <2>1, <2>5, <2>6
<1>6. QED
  BY <1>1, <1>2, <1>5 DEF ShutOut

\* The public host is an allowed host.
LEMMA HostIsAllowed ==
  ASSUME NEW s, s.allowedHosts = PublicAllowedHosts(PublicHost), NEW request, request.host = PublicHost
  PROVE  HostAllowed(s, request)
<1>1. PublicHost \in Seq(Strings)
  BY ValuesAssumption
<1>2. CASE PublicHost = <<>>
  BY <1>2 DEF HostAllowed, PublicAllowedHosts
<1>3. CASE PublicHost # <<>>
  <2>1. PICK hosts : hosts = <<PublicHost>> \o LocalHosts
    OBVIOUS
  <2>2. 1 \in DOMAIN hosts /\ hosts[1] = PublicHost
    BY <2>1 DEF LocalHosts
  <2>3. PublicHost \in ToSet(hosts)
    BY <2>2 DEF ToSet
  <2>4. s.allowedHosts = hosts
    BY <1>3, <2>1 DEF PublicAllowedHosts
  <2>5. HostMatches(request.host, hosts)
    BY <2>3 DEF HostMatches
  <2>6. QED
    BY <2>4, <2>5 DEF HostAllowed
<1>4. QED
  BY <1>2, <1>3

\* The default plugin of a server whose plugins load is resolved, with a
\* target that has an address.
LEMMA DefaultIsServed ==
  ASSUME NEW enabled \in Seq(TextType), Loads(Disk, enabled), NEW name,
         DefaultName(enabled) = TrimSpace(name)
  PROVE  LET plugins == LoadEnabled(Disk, enabled)
             plugin == ResolvePlugin(plugins, enabled, name)
         IN  /\ Resolves(plugins, name)
             /\ KnownTarget(plugin, Empty) /\ ~ IsBlank(ResolveTarget(plugin, Empty).address)
<1>1. PICK n, plugins : n = TrimSpace(name) /\ plugins = LoadEnabled(Disk, enabled)
  OBVIOUS
<1>2. n \in ToSet(Names(enabled))
  <2>1. 1 \in DOMAIN enabled
    BY DEF Loads
  <2>2. Names(enabled)[1] = n /\ 1 \in DOMAIN Names(enabled)
    BY <1>1, <2>1 DEF Names, DefaultName
  <2>3. QED
    BY <2>2 DEF ToSet
<1>3. n \in DOMAIN plugins /\ plugins[n] = Normalize(Disk[n]) /\ LoadSchema(Disk, n)
  BY <1>1, <1>2 DEF LoadEnabled, Loads
<1>4. PICK plugin, schema : plugin = plugins[n] /\ schema = Disk[n]
  OBVIOUS
<1>5. ResolvePlugin(plugins, enabled, name) = plugin /\ Resolves(plugins, name)
  BY <1>1, <1>3, <1>4 DEF ResolvePlugin, Resolves, OrElse
<1>6. plugin = Normalize(schema) /\ Validate(plugin) /\ "target" \in DOMAIN schema
  BY <1>3, <1>4, FoldersAssumption DEF LoadSchema
<1>7. PICK main : main = CleanTarget(schema.target, Text("tcp"))
  OBVIOUS
<1>8. plugin.target = main
  BY <1>6, <1>7 DEF Normalize
<1>9. main.address # Empty /\ main.address = TrimSpace(schema.target.address)
  BY <1>6, <1>7, <1>8 DEF Validate, ValidTarget, CleanTarget
<1>10. ~ IsBlank(main.address)
  BY <1>9, NormalTwice DEF IsBlank
<1>11. IsBlank(Empty)
  BY WordsAreNormal DEF IsBlank, Empty
<1>12. KnownTarget(plugin, Empty) /\ ResolveTarget(plugin, Empty) = main
  BY <1>8, <1>11 DEF KnownTarget, ResolveTarget, IsMainTarget
<1>13. QED
  BY <1>1, <1>5, <1>10, <1>12

\* A friend with the file the wizard wrote is let in by the server the wizard
\* runs, or is forbidden for a host or an origin that the file's headers name.
LEMMA FriendLetIn ==
  ASSUME NEW c \in Consoles, Published(hand[c]), hand[c].server \in ServerType,
         Loads(Disk, hand[c].server.enabled), NEW cfg, Hint(cfg, hand[c], environ[c])
  PROVE  LetIn(c, cfg)
<1>1. PICK h, e, plugins : h = hand[c] /\ e = environ[c] /\ plugins = Plugins(c)
  OBVIOUS
<1>2. PICK s : s = h.server
  OBVIOUS
<1>3. /\ WSAuthTokens(s, e) = {h.told.name} /\ WSAuthEnabled(s, e)
      /\ WSAuthHeader(s, e) = DefaultAuthHeaderName /\ s.wsEndpoint = "/ws"
      /\ s.allowedHosts = PublicAllowedHosts(PublicHost)
      /\ DefaultName(s.enabled) = TrimSpace(h.plugin.name)
  BY <1>1, <1>2, PublishedTokens DEF Published
<1>4. /\ cfg.url.path = "/ws" /\ cfg.plugin = h.plugin.name /\ cfg.token = h.told
      /\ cfg.header = DefaultAuthHeaderName
  BY <1>1, ValuesAssumption DEF Hint
<1>5. ASSUME NEW headers \in DialHeaders(cfg, e)
      PROVE  DataStatus(s, e, plugins,
               [DialRequest(cfg.url.path, headers, PublicHost) EXCEPT !.plugin = cfg.plugin])
                 \in {101} \cup (IF NamesAddress(headers) THEN {403} ELSE {})
  <2>1. PICK where, name : where = cfg.url.path /\ name = cfg.plugin
    OBVIOUS
  <2>2. PICK request :
          request = [DialRequest(where, headers, PublicHost) EXCEPT !.plugin = name]
    OBVIOUS
  <2>3. /\ request.method = "GET" /\ request.path = where /\ request.plugin = name
        /\ request.target = Empty /\ request.headers = Others(headers)
        /\ ~ NamesAddress(headers) => request.host = PublicHost /\ request.origin = NoOrigin
    <3>1. PICK named : /\ DialRequest(where, headers, PublicHost) = Received(where, headers, named)
                       /\ HostHeader \notin DOMAIN headers => named = PublicHost
      BY Dials
    <3>2. PICK r : /\ r = Received(where, headers, named)
                   /\ request = [r EXCEPT !.plugin = name]
      BY <2>2, <3>1
    <3>3. /\ r.method = "GET" /\ r.path = where /\ r.target = Empty /\ r.headers = Others(headers)
          /\ r.host = named /\ (OriginHeader \notin DOMAIN headers => r.origin = NoOrigin)
      BY <3>2, Requests
    <3>4. DOMAIN r = {"method", "path", "plugin", "target", "headers", "host", "origin"}
      BY <3>2 DEF Received, Request
    <3>5. /\ request.method = r.method /\ request.path = r.path /\ request.plugin = name
          /\ request.target = r.target /\ request.headers = r.headers /\ request.host = r.host
          /\ request.origin = r.origin
      BY <3>2, <3>4
    <3>6. QED
      BY <3>1, <3>3, <3>5 DEF NamesAddress
  <2>4. ~ NamesAddress(headers) => HostAllowed(s, request) /\ CheckWebSocketOrigin(s, request)
    BY <1>3, <2>3, HostIsAllowed DEF CheckWebSocketOrigin
  <2>5. ValidateWSToken(s, e, request)
    <3>1. ResolveSecret(h.told, e) = h.told.name /\ h.told.name # ""
      BY <1>1, GeneratedIsWord DEF Published
    <3>2. AuthHeaderName(OrElse(TrimSpace(cfg.header), DefaultAuthHeaderName)) = DefaultAuthHeaderName
      <4>1. TrimSpace(DefaultAuthHeaderName) = DefaultAuthHeaderName
        BY WordsAreNormal DEF DefaultAuthHeaderName
      <4>2. QED
        BY <1>4, <4>1, HeadersAreNormal DEF OrElse
    <3>3. PICK x : headers = WithHeader(x, DefaultAuthHeaderName, h.told.name)
      BY <1>4, <3>1, <3>2 DEF DialHeaders
    <3>4. DefaultAuthHeaderName \in DOMAIN headers /\ headers[DefaultAuthHeaderName].token = h.told.name
      BY <3>3 DEF WithHeader, AuthHeaderValue
    <3>5. /\ DefaultAuthHeaderName \in DOMAIN request.headers
          /\ request.headers[DefaultAuthHeaderName].token = h.told.name
      <4>1. DefaultAuthHeaderName # HostHeader
        <5>1. Text("x-road-token").word = "x-road-token" /\ Text("host").word = "host"
          BY DEF Text
        <5>2. QED
          BY <5>1 DEF DefaultAuthHeaderName, HostHeader
      <4>2. QED
        BY <2>3, <3>4, <4>1 DEF Others, Restrict
    <3>6. h.told.name \in Provided(s, e, request)
      BY <1>3, <3>5 DEF Provided
    <3>7. QED
      BY <1>3, <3>6 DEF ValidateWSToken
  <2>6. PICK plugin : plugin = ResolvePlugin(plugins, s.enabled, name)
    OBVIOUS
  <2>7. Resolves(plugins, name) /\ KnownTarget(plugin, Empty) /\ ~ IsBlank(ResolveTarget(plugin, Empty).address)
    <3>1. plugins = LoadEnabled(Disk, s.enabled) /\ Loads(Disk, s.enabled) /\ s.enabled \in Seq(TextType)
      BY <1>1, <1>2 DEF Plugins, ServerType
    <3>2. DefaultName(s.enabled) = TrimSpace(name)
      BY <1>3, <1>4, <2>1
    <3>3. QED
      BY <2>6, <3>1, <3>2, DefaultIsServed
  <2>8. WebSocketStatus(s, e, plugins, request) = IF CheckWebSocketOrigin(s, request) THEN 101 ELSE 403
    BY <2>3, <2>5, <2>6, <2>7 DEF WebSocketStatus
  <2>9. request.path = s.wsEndpoint /\ request.path = "/ws"
    BY <1>3, <1>4, <2>1, <2>3
  <2>10. DataStatus(s, e, plugins, request) \in {101} \cup (IF NamesAddress(headers) THEN {403} ELSE {})
    BY <2>4, <2>8, <2>9 DEF DataStatus
  <2>11. QED
    BY <2>1, <2>2, <2>10
<1>6. QED
  BY <1>1, <1>2, <1>5 DEF LetIn

-----------------------------------------------------------------------------
(* The files of all flows and the lock, in one invariant.                  *)

\* The file that both flows of the menu write and read back.
MenuPath == "server.menu.json"

\* One program by itself. At the dial its preflight has passed; a wizard that
\* runs a server, or is about to, runs a public one; server.menu.json is being
\* written with what its writer wants to read back, and the friend's file with
\* what it must say.
Local(l, h, e) ==
  /\ l # "dial" => h.checked = <<>>
  /\ l = "dial" => Passed(h, e)
  /\ Going(l, h, {"hint", "listen", "running"}) /\ h.flow = "wizard" => Published(h)
  /\ l = "fill" /\ h.next = "reload" => h.path = MenuPath /\ Own(h.content, h.plugin, e)
  /\ l = "fill" /\ h.path = HintPath => h.next = "listen" /\ h.flow = "wizard" /\ Hint(h.content, h, e)
  /\ l = "fill" /\ h.next = "listen" => h.path = HintPath

\* A wizard that has chosen to make its server public, until it ends.
Locked(l, h) ==
  h.flow = "wizard" /\ l \notin {"layout", "seed", "wizard"} /\ ~ (l = "fill" /\ h.next = "layout")

\* One program, with what it relies on outside of it: the lock is its own
\* while it is a locked wizard; server.menu.json, when it was the last to
\* write it, says what it wrote; and the friend's file of a wizard that
\* listens or runs says what its server wants.
Kept(c, l, h, e, held, wrote, owner) ==
  /\ Local(l, h, e)
  /\ Locked(l, h) => owner = c
  /\ l = "reload" /\ wrote[MenuPath] = c => Own(held[MenuPath], h.plugin, e)
  /\ l \in {"listen", "running"} /\ h.flow = "wizard" => Hint(held[HintPath], h, e)

\* Every program relies on what is there.
SharedInv == \A c \in Consoles : Kept(c, at[c], hand[c], environ[c], files, author, lock)

\* A step of one program keeps the invariant if the invariant holds of that
\* program afterwards: the others lose neither the lock nor, unless the lock
\* is the writer's, the friend's file; and a file another program writes has
\* another author.
LEMMA SharedFrame ==
  ASSUME CoreOK, SharedInv, NEW c \in Consoles, NEW l, NEW h, Goto(c, l), Hold(c, h),
         \A d \in Consoles : d # c => environ'[d] = environ[d],
         \A d \in Consoles : d # c /\ lock = d => lock' = d,
         \/ UNCHANGED <<files, author>>
         \/ \E path, content : /\ files' = [files EXCEPT ![path] = content]
                               /\ author' = [author EXCEPT ![path] = c]
                               /\ path = HintPath => lock = c,
         Kept(c, l, h, environ'[c], files', author', lock')
  PROVE  SharedInv'
<1>1. at \in [Consoles -> Labels] /\ hand = [d \in Consoles |-> hand[d]]
  BY DEF CoreOK
<1>2. at' = [at EXCEPT ![c] = l] /\ hand' = [hand EXCEPT ![c] = h]
  BY DEF Goto, Hold
<1>3. /\ MenuPath \in DOMAIN author /\ MenuPath \in DOMAIN files /\ HintPath \in DOMAIN files
  BY PathsAssumption DEF CoreOK, FilesTypeOK, MenuPath, HintPath
<1>4. ASSUME NEW d \in Consoles
      PROVE  Kept(d, at'[d], hand'[d], environ'[d], files', author', lock')
  <2>1. CASE d = c
    <3>1. at'[d] = l /\ hand'[d] = h
      BY <1>1, <1>2, <2>1
    <3>2. QED
      BY <2>1, <3>1
  <2>2. CASE d # c
    <3>1. PICK m, k, e : m = at[d] /\ k = hand[d] /\ e = environ[d]
      OBVIOUS
    <3>2. at'[d] = m /\ hand'[d] = k /\ environ'[d] = e
      BY <1>1, <1>2, <2>2, <3>1
    <3>3. Kept(d, m, k, e, files, author, lock)
      BY <3>1 DEF SharedInv
    <3>4. Local(m, k, e) /\ (Locked(m, k) => lock = d /\ lock' = d)
      BY <2>2, <3>3 DEF Kept
    <3>5. ASSUME m = "reload", author'[MenuPath] = d PROVE Own(files'[MenuPath], k.plugin, e)
      <4>1. author[MenuPath] = d /\ files'[MenuPath] = files[MenuPath]
        BY <1>3, <2>2, <3>5
      <4>2. QED
        BY <3>3, <3>5, <4>1 DEF Kept
    <3>6. ASSUME m \in {"listen", "running"}, k.flow = "wizard" PROVE Hint(files'[HintPath], k, e)
      <4>1. lock = d
        BY <3>4, <3>6 DEF Locked
      <4>2. files'[HintPath] = files[HintPath]
        BY <1>3, <2>2, <4>1
      <4>3. QED
        BY <3>3, <3>6, <4>2 DEF Kept
    <3>7. Kept(d, m, k, e, files', author', lock')
      BY <3>4, <3>5, <3>6 DEF Kept
    <3>8. QED
      BY <3>2, <3>7
  <2>3. QED
    BY <2>1, <2>2
<1>5. QED
  BY <1>4 DEF SharedInv

\* A program that is down or in its menu relies on nothing.
LEMMA IdleIsKept ==
  ASSUME NEW c, NEW l \in {"down", "menu"}, NEW e, NEW held, NEW wrote, NEW owner
  PROVE  Kept(c, l, Idle, e, held, wrote, owner)
<1>1. Idle.flow = "none" /\ Idle.checked = <<>>
  BY DEF Idle
<1>2. Local(l, Idle, e)
  BY <1>1 DEF Local, Going
<1>3. QED
  BY <1>1, <1>2 DEF Kept, Locked

\* Ending or crashing keeps the invariant: the lock is released by its owner
\* only.
LEMMA SharedDrop ==
  ASSUME CoreOK, SharedInv, NEW c \in Consoles, NEW l \in {"down", "menu"}, Goto(c, l), Hold(c, Idle),
         lock' = Released(c), UNCHANGED <<files, author, environ>>
  PROVE  SharedInv'
<1>1. Kept(c, l, Idle, environ'[c], files', author', lock')
  BY IdleIsKept
<1>2. \A d \in Consoles : d # c /\ lock = d => lock' = d
  BY DEF Released
<1>3. QED
  BY <1>1, <1>2, SharedFrame

\* Leaving a flow keeps it.
LEMMA SharedLeave ==
  ASSUME CoreOK, SharedInv, NEW c \in Consoles, Leave(c), UNCHANGED environ
  PROVE  SharedInv'
<1>1. PICK l : l = Ended(hand[c].flow)
  OBVIOUS
<1>2. l \in {"down", "menu"}
  BY <1>1 DEF Ended
<1>3. Goto(c, l) /\ Hold(c, Idle) /\ lock' = Released(c) /\ UNCHANGED <<files, author>>
  BY <1>1 DEF Leave
<1>4. QED
  BY <1>2, <1>3, SharedDrop

\* A step that writes nothing keeps it, if the program afterwards relies on
\* what is there.
LEMMA SharedMove ==
  ASSUME CoreOK, SharedInv, NEW c \in Consoles, NEW l, l \notin {"fill", "reload"}, NEW h,
         Goto(c, l), Hold(c, h), UNCHANGED <<files, author, environ>>,
         \A d \in Consoles : d # c /\ lock = d => lock' = d,
         l # "dial" => h.checked = <<>>, l = "dial" => Passed(h, environ[c]),
         l \in {"hint", "listen", "running"} /\ h.flow = "wizard" => Published(h),
         Locked(l, h) => lock' = c,
         l \in {"listen", "running"} /\ h.flow = "wizard" => Hint(files[HintPath], h, environ[c])
  PROVE  SharedInv'
<1>1. Local(l, h, environ[c])
  BY DEF Local, Going
<1>2. Kept(c, l, h, environ'[c], files', author', lock')
  BY <1>1 DEF Kept
<1>3. QED
  BY <1>2, SharedFrame

\* The first half of a write keeps it, if the content is what the program or
\* its friend is to read, and the friend's file is written under the lock.
LEMMA SharedWrite ==
  ASSUME CoreOK, SharedInv, NEW c \in Consoles, NEW path, NEW content, NEW next, NEW h,
         BeginWrite(c, path, content, next, h), UNCHANGED <<environ, lock>>,
         DOMAIN h = Fields, h.checked = <<>>,
         next \in {"hint", "listen", "running"} /\ h.flow = "wizard" => Published(h),
         next = "reload" => path = MenuPath /\ Own(content, h.plugin, environ[c]),
         path = HintPath => next = "listen" /\ h.flow = "wizard" /\ Hint(content, h, environ[c]),
         next = "listen" => path = HintPath,
         h.flow = "wizard" /\ next # "layout" => lock = c
  PROVE  SharedInv'
<1>1. PICK k : k = [h EXCEPT !.path = path, !.content = content, !.next = next]
  OBVIOUS
<1>2. /\ k.path = path /\ k.content = content /\ k.next = next /\ k.checked = <<>> /\ k.flow = h.flow
      /\ k.server = h.server /\ k.plugin = h.plugin /\ k.told = h.told
  BY <1>1 DEF Fields
<1>3. /\ files' = [files EXCEPT ![path] = Torn] /\ author' = [author EXCEPT ![path] = c]
      /\ Goto(c, "fill") /\ Hold(c, k)
  BY <1>1 DEF BeginWrite
<1>4. Published(h) => Published(k)
  BY <1>2 DEF Published
<1>5. Hint(content, h, environ[c]) => Hint(content, k, environ[c])
  BY <1>2 DEF Hint
<1>6. Local("fill", k, environ[c])
  BY <1>2, <1>4, <1>5 DEF Local, Going
<1>7. Locked("fill", k) => lock = c
  BY <1>2 DEF Locked
<1>8. Kept(c, "fill", k, environ'[c], files', author', lock')
  BY <1>6, <1>7 DEF Kept
<1>9. path = HintPath => lock = c
  OBVIOUS
<1>10. QED
  BY <1>3, <1>8, <1>9, SharedFrame

\* The second half of a write keeps it: the file now says what was in hand.
LEMMA SharedFill ==
  ASSUME CoreOK, SharedInv, NEW c \in Consoles, Fill(c)
  PROVE  SharedInv'
<1>1. PICK k, e : k = hand[c] /\ e = environ[c]
  OBVIOUS
<1>2. PICK path, content, next : path = k.path /\ content = k.content /\ next = k.next
  OBVIOUS
<1>3. /\ DOMAIN k = Fields /\ at[c] = "fill" /\ UNCHANGED <<environ, lock>>
      /\ next \in {"layout", "reload", "free", "hint", "listen", "preflight", "end"}
      /\ files' = [files EXCEPT ![path] = content] /\ author' = [author EXCEPT ![path] = c]
  BY <1>1, <1>2, HandsAre DEF Fill, Placed
<1>4. Kept(c, "fill", k, e, files, author, lock)
  BY <1>1, <1>3 DEF SharedInv
<1>5. /\ k.checked = <<>>
      /\ next \in {"hint", "listen", "running"} /\ k.flow = "wizard" => Published(k)
      /\ next = "reload" => path = MenuPath /\ Own(content, k.plugin, e)
      /\ path = HintPath => next = "listen" /\ k.flow = "wizard" /\ Hint(content, k, e)
      /\ next = "listen" => path = HintPath
      /\ k.flow = "wizard" /\ next # "layout" => lock = c
  BY <1>2, <1>4 DEF Kept, Local, Going, Locked
<1>6. path = HintPath => lock = c
  BY <1>5
<1>7. CASE next = "end"
  <2>1. PICK l : l = Ended(k.flow)
    OBVIOUS
  <2>2. l \in {"down", "menu"}
    BY <2>1 DEF Ended
  <2>3. Goto(c, l) /\ Hold(c, Idle)
    BY <1>1, <1>2, <1>7, <2>1 DEF Fill
  <2>4. Kept(c, l, Idle, environ'[c], files', author', lock')
    BY <2>2, IdleIsKept
  <2>5. QED
    BY <1>3, <1>6, <2>3, <2>4, SharedFrame
<1>8. CASE next # "end"
  <2>1. PICK h : h = [k EXCEPT !.path = "", !.content = Absent, !.next = ""]
    OBVIOUS
  <2>2. /\ h.next = "" /\ h.path = "" /\ h.checked = <<>> /\ h.flow = k.flow
        /\ h.server = k.server /\ h.plugin = k.plugin /\ h.told = k.told
    BY <1>3, <1>5, <2>1 DEF Fields
  <2>3. Goto(c, next) /\ Hold(c, h)
    BY <1>1, <1>2, <1>8, <2>1 DEF Fill
  <2>4. Published(k) => Published(h)
    BY <2>2 DEF Published
  <2>5. Hint(content, k, e) => Hint(content, h, e)
    BY <2>2 DEF Hint
  <2>6. next \in {"layout", "reload", "free", "hint", "listen", "preflight"}
    BY <1>3, <1>8
  <2>7. Local(next, h, e)
    BY <1>5, <2>2, <2>4, <2>6 DEF Local, Going
  <2>8. Locked(next, h) => lock' = c
    BY <1>3, <1>5, <2>2 DEF Locked
  <2>9. MenuPath \in DOMAIN files /\ HintPath \in DOMAIN files
    BY PathsAssumption DEF CoreOK, FilesTypeOK, MenuPath, HintPath
  <2>10. next = "reload" => Own(files'[MenuPath], h.plugin, e)
    BY <1>3, <1>5, <2>2, <2>9
  <2>11. next = "listen" => Hint(files'[HintPath], h, e)
    BY <1>3, <1>5, <2>5, <2>9
  <2>12. Kept(c, next, h, e, files', author', lock')
    BY <2>6, <2>7, <2>8, <2>10, <2>11 DEF Kept
  <2>13. environ'[c] = e
    BY <1>1, <1>3
  <2>14. QED
    BY <1>3, <1>6, <2>3, <2>12, <2>13, SharedFrame
<1>9. QED
  BY <1>7, <1>8

\* One program of the invariant.
LEMMA KeptNow ==
  ASSUME CoreOK, SharedInv, NEW c \in Consoles
  PROVE  /\ Kept(c, at[c], hand[c], environ[c], files, author, lock)
         /\ at[c] # "dial" => hand[c].checked = <<>>
         /\ Locked(at[c], hand[c]) => lock = c
         /\ DOMAIN hand[c] = Fields
<1>1. Kept(c, at[c], hand[c], environ[c], files, author, lock)
  BY DEF SharedInv
<1>2. QED
  BY <1>1, HandsAre DEF Kept, Local

\* Starting a program keeps the invariant.
LEMMA SharedStart ==
  ASSUME CoreOK, SharedInv, environ \in [Consoles -> Environments], NEW c \in Consoles, NEW e,
         NEW flow, Start(c, e, flow)
  PROVE  SharedInv'
<1>1. PICK h : h = [Idle EXCEPT !.flow = flow]
  OBVIOUS
<1>2. h.checked = <<>> /\ h.flow = flow
  BY <1>1 DEF Idle
<1>3. Goto(c, "layout") /\ Hold(c, h) /\ UNCHANGED <<files, author, lock>>
  BY <1>1 DEF Start
<1>4. \A d \in Consoles : d # c => environ'[d] = environ[d]
  BY DEF Start
<1>5. Kept(c, "layout", h, environ'[c], files', author', lock')
  BY <1>2 DEF Kept, Local, Going, Locked
<1>6. QED
  BY <1>3, <1>4, <1>5, SharedFrame

\* Looking at the runtime files keeps it.
LEMMA SharedLayout ==
  ASSUME CoreOK, SharedInv, NEW c \in Consoles, Layout(c)
  PROVE  SharedInv'
<1>1. PICK k : k = hand[c]
  OBVIOUS
<1>2. DOMAIN k = Fields /\ k.checked = <<>> /\ at[c] = "layout" /\ UNCHANGED <<files, author, environ, lock>>
  BY <1>1, KeptNow DEF Layout
<1>3. k.flow \in FlowNames
  BY <1>1, <1>2, HandsAre DEF Placed, Going
<1>4. CASE Goto(c, k.flow) /\ UNCHANGED hand
  <2>1. PICK l : l = k.flow
    OBVIOUS
  <2>2. l \in FlowNames /\ Goto(c, l) /\ Hold(c, k)
    BY <1>1, <1>3, <1>4, <2>1 DEF Hold, CoreOK
  <2>3. l \notin {"fill", "reload", "dial", "hint", "listen", "running"}
    BY <2>2 DEF FlowNames
  <2>4. ~ Locked(l, k)
    BY <2>1 DEF Locked
  <2>5. QED
    BY <1>2, <2>2, <2>3, <2>4, SharedMove
<1>5. CASE Goto(c, "seed") /\ Hold(c, [k EXCEPT !.path = Seeds[Min(Missing)].path])
  <2>1. PICK h : h = [k EXCEPT !.path = Seeds[Min(Missing)].path]
    OBVIOUS
  <2>2. h.checked = <<>> /\ Hold(c, h) /\ ~ Locked("seed", h)
    BY <1>2, <1>5, <2>1 DEF Fields, Locked
  <2>3. QED
    BY <1>2, <1>5, <2>2, SharedMove
<1>6. QED
  BY <1>1, <1>4, <1>5 DEF Layout

\* Writing a missing runtime file keeps it: what is seeded is no generated file.
LEMMA SharedSeed ==
  ASSUME CoreOK, SharedInv, NEW c \in Consoles, Seed(c)
  PROVE  SharedInv'
<1>1. PICK i \in DOMAIN Seeds : BeginWrite(c, Seeds[i].path, Seeds[i].content, "layout", hand[c])
  BY DEF Seed, ToSet
<1>2. PICK path, content, h : path = Seeds[i].path /\ content = Seeds[i].content /\ h = hand[c]
  OBVIOUS
<1>3. path \notin Generated
  BY <1>2, PathsAssumption
<1>4. path # HintPath
  BY <1>3 DEF Generated, HintPath
<1>5. DOMAIN h = Fields /\ h.checked = <<>> /\ UNCHANGED <<environ, lock>>
  BY <1>2, KeptNow DEF Seed
<1>6. BeginWrite(c, path, content, "layout", h)
  BY <1>1, <1>2
<1>7. QED
  BY <1>3, <1>4, <1>5, <1>6, SharedWrite

\* Taking the lock keeps it: it is taken only when free.
LEMMA SharedAcquireLock ==
  ASSUME CoreOK, SharedInv, NEW c \in Consoles, AcquireLock(c)
  PROVE  SharedInv'
<1>1. UNCHANGED environ /\ at[c] = "wizard"
  BY DEF AcquireLock
<1>2. CASE lock = Nobody
  <2>1. lock' = c /\ Goto(c, "choose") /\ UNCHANGED <<files, author, hand>>
    BY <1>2 DEF AcquireLock
  <2>2. PICK h : h = hand[c] /\ h.checked = <<>>
    BY <1>1, KeptNow
  <2>3. Hold(c, h)
    BY <2>1, <2>2 DEF Hold, CoreOK
  <2>4. \A d \in Consoles : d # c /\ lock = d => lock' = d
    BY <1>2, ConsoleAssumption
  <2>5. QED
    BY <1>1, <2>1, <2>2, <2>3, <2>4, SharedMove
<1>3. CASE lock # Nobody
  <2>1. Leave(c)
    BY <1>3 DEF AcquireLock
  <2>2. QED
    BY <1>1, <2>1, SharedLeave
<1>4. QED
  BY <1>2, <1>3

\* Choosing a plugin keeps it.
LEMMA SharedChoosePlugin ==
  ASSUME CoreOK, SharedInv, NEW c \in Consoles, NEW plugin, ChoosePlugin(c, plugin)
  PROVE  SharedInv'
<1>1. PICK k : k = hand[c]
  OBVIOUS
<1>2. PICK ports, server : Hold(c, [k EXCEPT !.plugin = plugin, !.edit = ports, !.server = server])
  <2>1. PICK ports : Hold(c, [k EXCEPT !.plugin = plugin, !.edit = ports,
                               !.server = IF at[c] = "choose"
                                 THEN PublicServerConfig(Default, plugin, ports, <<>>, NoSecret) ELSE @])
    BY <1>1 DEF ChoosePlugin
  <2>2. PICK server : server = IF at[c] = "choose"
                               THEN PublicServerConfig(Default, plugin, ports, <<>>, NoSecret) ELSE k.server
    OBVIOUS
  <2>3. Hold(c, [k EXCEPT !.plugin = plugin, !.edit = ports, !.server = server])
    BY <2>1, <2>2
  <2>4. QED
    BY <2>3
<1>3. PICK l \in {"template", "free"} :
        /\ Goto(c, l) /\ UNCHANGED <<files, author, environ, lock>>
        /\ at[c] = IF l = "template" THEN "server" ELSE "choose"
  BY DEF ChoosePlugin
<1>4. PICK h : h = [k EXCEPT !.plugin = plugin, !.edit = ports, !.server = server]
  OBVIOUS
<1>5. DOMAIN k = Fields /\ k.checked = <<>> /\ (Locked(at[c], k) => lock = c) /\ Placed(at[c], k)
  BY <1>1, <1>3, KeptNow, HandsAre
<1>6. h.checked = <<>> /\ h.flow = k.flow
  BY <1>4, <1>5 DEF Fields
<1>7. Locked(l, h) => lock' = c
  <2>1. at[c] = "server" => k.flow = "server"
    BY <1>5 DEF Placed, FlowNames
  <2>2. QED
    BY <1>3, <1>5, <1>6, <2>1 DEF Locked
<1>8. Hold(c, h)
  BY <1>2, <1>4
<1>9. QED
  BY <1>3, <1>6, <1>7, <1>8, SharedMove

\* Building server.menu.json keeps it: the content is the writer's own.
LEMMA SharedBuild ==
  ASSUME CoreOK, SharedInv, NEW c \in Consoles, BuildServerConfig(c)
  PROVE  SharedInv'
<1>1. PICK k, e : k = hand[c] /\ e = environ[c]
  OBVIOUS
<1>2. PICK path : path = ServerTemplate(k.plugin, Exists)
  OBVIOUS
<1>3. PICK template : template = files[path]
  OBVIOUS
<1>4. UNCHANGED environ /\ at[c] = "template"
  BY DEF BuildServerConfig
<1>5. /\ DOMAIN k = Fields /\ k.checked = <<>> /\ (Locked("template", k) => lock = c)
      /\ k.plugin \in MenuPlugins(Folders)
  BY <1>1, <1>4, KeptNow, HandsAre DEF Placed, Going
<1>6. CASE LoadsServer(template, e, TRUE)
  <2>1. PICK plugin \in MenuPlugins(Folders) : plugin = k.plugin
    BY <1>5
  <2>2. PICK content : content = WithPlugin(NormalServer(template, e), plugin)
    OBVIOUS
  <2>3. BeginWrite(c, "server.menu.json", content, "reload", k) /\ UNCHANGED lock
    BY <1>1, <1>2, <1>3, <1>6, <2>1, <2>2 DEF BuildServerConfig
  <2>4. template \in ServerFile
    <3>1. path \in ServerPaths
      <4>1. FallbackTemplate(plugin) \in ServerPaths
        BY PathsAssumption DEF FallbackTemplate, ServerJSON
      <4>2. plugin.server \in Exists => plugin.server \in ServerPaths
        BY MenuPluginsType DEF Exists, CoreOK, FilesTypeOK
      <4>3. QED
        BY <1>2, <2>1, <4>1, <4>2 DEF ServerTemplate
    <3>2. QED
      BY <1>3, <3>1 DEF CoreOK, FilesTypeOK
  <2>5. Own(content, k.plugin, environ[c])
    BY <1>1, <1>6, <2>1, <2>2, <2>4, OwnIsRead
  <2>6. "server.menu.json" \notin ClientPaths
    BY PathsAssumption
  <2>7. k.flow = "wizard" => lock = c
    BY <1>5 DEF Locked
  <2>8. "server.menu.json" = MenuPath /\ MenuPath # HintPath
    BY DEF MenuPath, HintPath
  <2>9. QED
    BY <1>4, <1>5, <2>3, <2>5, <2>6, <2>7, <2>8, SharedWrite
<1>7. CASE ~ LoadsServer(template, e, TRUE)
  <2>1. Leave(c)
    BY <1>1, <1>2, <1>3, <1>7 DEF BuildServerConfig
  <2>2. QED
    BY <1>4, <2>1, SharedLeave
<1>8. QED
  BY <1>6, <1>7

\* Reading it back keeps it: a wizard goes on with a public configuration.
LEMMA SharedReload ==
  ASSUME CoreOK, SharedInv, NEW c \in Consoles, ReloadServer(c)
  PROVE  SharedInv'
<1>1. PICK k : k = hand[c]
  OBVIOUS
<1>2. PICK file, e : file = files["server.menu.json"] /\ e = environ[c]
  OBVIOUS
<1>3. PICK cfg, token : cfg = NormalServer(file, e) /\ token = Word(Tokens[minted + 1])
  OBVIOUS
<1>4. file \in ServerFile
  BY <1>2, PathsAssumption DEF CoreOK, FilesTypeOK
<1>5. UNCHANGED environ /\ at[c] = "reload"
  BY DEF ReloadServer
<1>6. /\ DOMAIN k = Fields /\ k.checked = <<>> /\ (Locked("reload", k) => lock = c)
      /\ k.plugin \in MenuPlugins(Folders)
  BY <1>1, <1>5, KeptNow, HandsAre DEF Placed, Going
<1>7. k.flow = "wizard" => lock = c
  BY <1>6 DEF Locked
<1>8. /\ "server.runtime.menu.json" \notin ClientPaths /\ "server.public.menu.json" \notin ClientPaths
      /\ HintPath \notin {"server.runtime.menu.json", "server.public.menu.json"}
  BY PathsAssumption DEF HintPath
<1>9. CASE /\ k.flow = "server"
           /\ BeginWrite(c, "server.runtime.menu.json", WithPorts(cfg, k.edit), "free",
                         [k EXCEPT !.server = WithPorts(cfg, k.edit)])
           /\ UNCHANGED lock
  <2>1. PICK server : server = WithPorts(cfg, k.edit)
    OBVIOUS
  <2>2. PICK h : h = [k EXCEPT !.server = server]
    OBVIOUS
  <2>3. DOMAIN h = Fields /\ h.checked = <<>> /\ h.flow = k.flow
    BY <1>6, <2>2 DEF Fields
  <2>4. BeginWrite(c, "server.runtime.menu.json", server, "free", h)
    BY <1>9, <2>1, <2>2
  <2>5. QED
    BY <1>5, <1>7, <1>8, <1>9, <2>3, <2>4, SharedWrite
<1>10. CASE /\ LoadsServer(file, e, TRUE)
            /\ k.flow = "wizard" /\ minted < Len(Tokens)
            /\ BeginWrite(c, "server.public.menu.json",
                 PublicServerConfig(cfg, k.plugin, k.edit, PublicHost, token), "hint",
                 [k EXCEPT !.server = PublicServerConfig(cfg, k.plugin, k.edit, PublicHost, token),
                           !.told = token])
            /\ UNCHANGED lock
  <2>1. PICK plugin, ports : plugin \in MenuPlugins(Folders) /\ plugin = k.plugin /\ ports = k.edit
    BY <1>6
  <2>2. PICK server : server = PublicServerConfig(cfg, plugin, ports, PublicHost, token)
    OBVIOUS
  <2>3. PICK h : h = [k EXCEPT !.server = server, !.told = token]
    OBVIOUS
  <2>4. /\ DOMAIN h = Fields /\ h.checked = <<>> /\ h.flow = k.flow /\ h.plugin = plugin
        /\ h.server = server /\ h.told = token
    BY <1>6, <2>1, <2>3 DEF Fields
  <2>5. Generates(token)
    <3>1. minted + 1 \in DOMAIN Tokens
      <4>1. Tokens \in Seq(Strings)
        BY ValuesAssumption
      <4>2. PICK n \in Nat : n = Len(Tokens) /\ DOMAIN Tokens = 1 .. n
        BY <4>1
      <4>3. minted \in 0 .. n /\ minted < n
        BY <1>10, <4>2 DEF CoreOK
      <4>4. minted + 1 \in 1 .. n
        BY <4>3
      <4>5. QED
        BY <4>2, <4>4
    <3>2. QED
      BY <1>3, <3>1 DEF Generates
  <2>6. file \in ServerType /\ cfg \in ServerType
    BY <1>3, <1>4, <1>10, LoadedType
  <2>7. Generates(h.told) /\ h.server = PublicServerConfig(cfg, plugin, ports, PublicHost, h.told)
    BY <2>2, <2>4, <2>5
  <2>8. Published(h)
    BY <1>3, <2>1, <2>4, <2>6, <2>7, PublicIsPublished
  <2>9. BeginWrite(c, "server.public.menu.json", server, "hint", h)
    BY <1>10, <2>1, <2>2, <2>3
  <2>10. QED
    BY <1>5, <1>7, <1>8, <1>10, <2>4, <2>8, <2>9, SharedWrite
<1>11. CASE Leave(c)
  BY <1>5, <1>11, SharedLeave
<1>12. QED
  BY <1>1, <1>2, <1>3, <1>9, <1>10, <1>11 DEF ReloadServer

\* Writing the friend's file keeps it: the lock is the writer's, and the
\* content loads.
LEMMA SharedHint ==
  ASSUME CoreOK, SharedInv, NEW c \in Consoles, WriteHint(c)
  PROVE  SharedInv'
<1>1. PICK k, e : k = hand[c] /\ e = environ[c]
  OBVIOUS
<1>2. UNCHANGED <<environ, lock>> /\ at[c] = "hint"
  BY DEF WriteHint
<1>3. /\ DOMAIN k = Fields /\ k.checked = <<>> /\ (Locked("hint", k) => lock = c)
      /\ k.plugin \in MenuPlugins(Folders) /\ k.flow = "wizard" /\ k.told \in SecretType
  BY <1>1, <1>2, KeptNow, HandsAre DEF Placed, Going, HandTypeOK
<1>4. lock = c /\ Published(k)
  <2>1. Local("hint", k, e)
    BY <1>1, <1>2, KeptNow DEF Kept
  <2>2. QED
    BY <1>3, <2>1 DEF Local, Going, Locked
<1>5. PICK plugin \in MenuPlugins(Folders) : plugin = k.plugin
  BY <1>3
<1>6. PICK path : path = plugin.client
  OBVIOUS
<1>7. PICK template \in ClientFile : template = IF path \in Exists THEN files[path] ELSE Absent
  <2>1. CASE path \in Exists
    <3>1. path \in ClientPaths
      BY <1>6, <2>1, MenuPluginsType DEF Exists, CoreOK, FilesTypeOK
    <3>2. files[path] \in ClientFile
      BY <3>1 DEF CoreOK, FilesTypeOK
    <3>3. QED
      BY <2>1, <3>2
  <2>2. CASE path \notin Exists
    BY <2>2 DEF ClientFile
  <2>3. QED
    BY <2>1, <2>2
<1>8. PICK content : content = PublicClientConfig(template, e, plugin, PublicURL, k.told)
  OBVIOUS
<1>9. Hint(content, k, e)
  <2>1. k.plugin = plugin /\ Generates(k.told) /\ k.told \in SecretType
    BY <1>3, <1>4, <1>5 DEF Published
  <2>2. QED
    BY <1>8, <2>1, HintLoads
<1>10. BeginWrite(c, HintPath, content, "listen", k)
  BY <1>1, <1>5, <1>6, <1>7, <1>8 DEF WriteHint, HintPath
<1>11. QED
  BY <1>1, <1>2, <1>3, <1>4, <1>9, <1>10, SharedWrite

\* Asking for the ports keeps it.
LEMMA SharedPortsFree ==
  ASSUME CoreOK, SharedInv, NEW c \in Consoles, PortsFree(c)
  PROVE  SharedInv'
<1>1. PICK k : k = hand[c]
  OBVIOUS
<1>2. PICK l : l = AfterPorts(k.flow)
  OBVIOUS
<1>3. at[c] = "free" /\ Goto(c, l) /\ Hold(c, k) /\ UNCHANGED <<files, author, environ, lock>>
  BY <1>1, <1>2 DEF PortsFree, Hold, CoreOK
<1>4. k.checked = <<>> /\ (Locked("free", k) => lock = c)
  BY <1>1, <1>3, KeptNow
<1>5. l \in {"template", "listen"} /\ (k.flow = "wizard" => l = "template")
  BY <1>2 DEF AfterPorts
<1>6. Locked(l, k) => lock' = c
  BY <1>3, <1>4 DEF Locked
<1>7. QED
  BY <1>3, <1>4, <1>5, <1>6, SharedMove

\* Opening the listeners keeps it.
LEMMA SharedListen ==
  ASSUME CoreOK, SharedInv, NEW c \in Consoles, Listen(c)
  PROVE  SharedInv'
<1>1. PICK k, e : k = hand[c] /\ e = environ[c]
  OBVIOUS
<1>2. at[c] = "listen" /\ Goto(c, "running") /\ Hold(c, k) /\ UNCHANGED <<files, author, environ, lock>>
  BY <1>1 DEF Listen, Hold, CoreOK
<1>3. Kept(c, "listen", k, e, files, author, lock)
  BY <1>1, <1>2, KeptNow
<1>4. /\ k.checked = <<>> /\ (k.flow = "wizard" => Published(k) /\ lock = c /\ Hint(files[HintPath], k, e))
  BY <1>3 DEF Kept, Local, Going, Locked
<1>5. Locked("running", k) => lock' = c
  BY <1>2, <1>4 DEF Locked
<1>6. QED
  BY <1>1, <1>2, <1>4, <1>5, SharedMove

\* The server program's own start keeps it.
LEMMA SharedRoadServer ==
  ASSUME CoreOK, SharedInv, NEW c \in Consoles, RoadServer(c)
  PROVE  SharedInv'
<1>1. UNCHANGED environ /\ at[c] = "road-server"
  BY DEF RoadServer
<1>2. CASE Leave(c)
  BY <1>1, <1>2, SharedLeave
<1>3. CASE ~ Leave(c)
  <2>1. PICK k, server : k = hand[c] /\ server = NormalServer(files[ServerJSON], environ[c])
    OBVIOUS
  <2>2. Goto(c, "listen") /\ Hold(c, [k EXCEPT !.server = server]) /\ UNCHANGED <<files, author, lock>>
    BY <1>3, <2>1 DEF RoadServer
  <2>3. PICK h : h = [k EXCEPT !.server = server]
    OBVIOUS
  <2>4. k.checked = <<>> /\ k.flow = "road-server" /\ DOMAIN k = Fields
    BY <1>1, <2>1, KeptNow, HandsAre DEF Placed, FlowNames
  <2>5. h.checked = <<>> /\ h.flow = "road-server" /\ Hold(c, h)
    BY <2>2, <2>3, <2>4 DEF Fields
  <2>6. ~ Locked("listen", h)
    BY <2>5 DEF Locked
  <2>7. QED
    BY <1>1, <2>2, <2>5, <2>6, SharedMove
<1>4. QED
  BY <1>2, <1>3

\* Ending the owner of a port keeps it.
LEMMA SharedKill ==
  ASSUME CoreOK, SharedInv, NEW c \in Consoles, NEW d \in Consoles, KillOwner(c, d)
  PROVE  SharedInv'
<1>1. Goto(d, "down") /\ Hold(d, Idle) /\ lock' = Released(d) /\ UNCHANGED <<files, author, environ>>
  BY DEF KillOwner
<1>2. QED
  BY <1>1, SharedDrop

\* A client's step before its preflight keeps it.
LEMMA SharedAsked ==
  ASSUME CoreOK, SharedInv, NEW c \in Consoles,
         at[c] \in {"client", "road-client", "input", "profile"},
         NEW l \in {"input", "profile", "preflight"}, NEW cfg, NEW require, NEW retried,
         Goto(c, l), Hold(c, [hand[c] EXCEPT !.client = cfg, !.require = require, !.retried = retried]),
         UNCHANGED <<files, author, environ, lock>>
  PROVE  SharedInv'
<1>1. PICK k : k = hand[c]
  OBVIOUS
<1>2. PICK h : h = [k EXCEPT !.client = cfg, !.require = require, !.retried = retried]
  OBVIOUS
<1>3. DOMAIN k = Fields /\ k.checked = <<>> /\ (Locked(at[c], k) => lock = c)
  BY <1>1, KeptNow
<1>4. h.checked = <<>> /\ h.flow = k.flow /\ Hold(c, h)
  BY <1>1, <1>2, <1>3 DEF Fields
<1>5. Locked(l, h) => lock' = c
  BY <1>3, <1>4 DEF Locked
<1>6. QED
  BY <1>4, <1>5, SharedMove

\* Writing client.menu.json keeps it.
LEMMA SharedClientMenu ==
  ASSUME CoreOK, SharedInv, NEW c \in Consoles, at[c] = "profile", NEW cfg, WriteClientMenu(c, cfg),
         UNCHANGED environ
  PROVE  SharedInv'
<1>1. PICK k : k = hand[c]
  OBVIOUS
<1>2. PICK h : h = [k EXCEPT !.client = cfg]
  OBVIOUS
<1>3. DOMAIN k = Fields /\ k.checked = <<>> /\ (Locked("profile", k) => lock = c)
  BY <1>1, KeptNow
<1>4. DOMAIN h = Fields /\ h.checked = <<>> /\ h.flow = k.flow
  BY <1>2, <1>3 DEF Fields
<1>5. BeginWrite(c, "client.menu.json", cfg, "preflight", h) /\ UNCHANGED lock
  BY <1>1, <1>2 DEF WriteClientMenu
<1>6. "client.menu.json" # HintPath
  BY DEF HintPath
<1>7. h.flow = "wizard" => lock = c
  BY <1>3, <1>4 DEF Locked
<1>8. QED
  BY <1>4, <1>5, <1>6, <1>7, SharedWrite

\* Reading a client's file keeps it.
LEMMA SharedOpenClient ==
  ASSUME CoreOK, SharedInv, NEW c \in Consoles, OpenClient(c) \/ RoadClient(c)
  PROVE  SharedInv'
<1>1. UNCHANGED environ /\ at[c] \in {"client", "road-client"}
  BY DEF OpenClient, RoadClient
<1>2. \/ Leave(c)
      \/ /\ Goto(c, "input") \/ Goto(c, "preflight")
         /\ UNCHANGED <<files, author, lock>>
         /\ \E cfg : Hold(c, [hand[c] EXCEPT !.client = cfg])
  <2>1. CASE OpenClient(c)
    BY <2>1 DEF OpenClient
  <2>2. CASE RoadClient(c)
    BY <2>2 DEF RoadClient
  <2>3. QED
    BY <2>1, <2>2
<1>3. ASSUME NEW l \in {"input", "preflight"}, NEW cfg, Goto(c, l), UNCHANGED <<files, author, lock>>,
             Hold(c, [hand[c] EXCEPT !.client = cfg])
      PROVE  SharedInv'
  <2>1. PICK require, retried : require = hand[c].require /\ retried = hand[c].retried
    OBVIOUS
  <2>2. [hand[c] EXCEPT !.client = cfg] =
          [hand[c] EXCEPT !.client = cfg, !.require = require, !.retried = retried]
    BY <2>1, KeptNow DEF Fields
  <2>3. Hold(c, [hand[c] EXCEPT !.client = cfg, !.require = require, !.retried = retried])
    BY <1>3, <2>2
  <2>4. QED
    BY <1>1, <1>3, <2>3, SharedAsked
<1>4. QED
  BY <1>1, <1>2, <1>3, SharedLeave

\* Asking the address and the token keeps it.
LEMMA SharedConnection ==
  ASSUME CoreOK, SharedInv, NEW c \in Consoles, NEW typed, Connection(c, typed)
  PROVE  SharedInv'
<1>1. UNCHANGED environ /\ at[c] = "input"
  BY DEF Connection
<1>2. \/ Leave(c)
      \/ /\ Goto(c, "profile") /\ UNCHANGED <<files, author, lock>>
         /\ \E cfg, require : Hold(c, [hand[c] EXCEPT !.client = cfg, !.require = require])
  BY DEF Connection
<1>3. ASSUME NEW cfg, NEW require, Goto(c, "profile"), UNCHANGED <<files, author, lock>>,
             Hold(c, [hand[c] EXCEPT !.client = cfg, !.require = require])
      PROVE  SharedInv'
  <2>1. PICK retried : retried = hand[c].retried
    OBVIOUS
  <2>2. [hand[c] EXCEPT !.client = cfg, !.require = require] =
          [hand[c] EXCEPT !.client = cfg, !.require = require, !.retried = retried]
    BY <2>1, KeptNow DEF Fields
  <2>3. Hold(c, [hand[c] EXCEPT !.client = cfg, !.require = require, !.retried = retried])
    BY <1>3, <2>2
  <2>4. QED
    BY <1>1, <1>3, <2>3, SharedAsked
<1>4. QED
  BY <1>1, <1>2, <1>3, SharedLeave

\* Asking the server's profile keeps it.
LEMMA SharedProfile ==
  ASSUME CoreOK, SharedInv, NEW c \in Consoles, Profile(c)
  PROVE  SharedInv'
<1>1. UNCHANGED environ /\ at[c] = "profile"
  BY DEF Profile
<1>2. \/ \E profile : ApplyProfile(c, profile)
      \/ \E cfg : WriteClientMenu(c, cfg)
      \/ /\ UNCHANGED <<files, author, at, lock>>
         /\ \E cfg : Hold(c, [hand[c] EXCEPT !.client = cfg, !.retried = TRUE])
      \/ Leave(c)
  <2>1. PICK status :
          \/ \E profile : ApplyProfile(c, profile)
          \/ WriteClientMenu(c, hand[c].client)
          \/ /\ \E token : Hold(c, [hand[c] EXCEPT !.client = PromptedToken(@, token), !.retried = TRUE])
             /\ UNCHANGED <<files, author, at, lock, minted>>
          \/ Leave(c)
    BY DEF Profile
  <2>2. CASE /\ \E token : Hold(c, [hand[c] EXCEPT !.client = PromptedToken(@, token), !.retried = TRUE])
             /\ UNCHANGED <<files, author, at, lock, minted>>
    <3>1. PICK token : Hold(c, [hand[c] EXCEPT !.client = PromptedToken(@, token), !.retried = TRUE])
      BY <2>2
    <3>2. PICK cfg : cfg = PromptedToken(hand[c].client, token)
      OBVIOUS
    <3>3. Hold(c, [hand[c] EXCEPT !.client = cfg, !.retried = TRUE])
      BY <3>1, <3>2
    <3>4. QED
      BY <2>2, <3>3
  <2>3. QED
    BY <2>1, <2>2
<1>3. ASSUME NEW profile, ApplyProfile(c, profile) PROVE SharedInv'
  <2>1. Leave(c) \/ \E cfg : WriteClientMenu(c, cfg)
    BY <1>3 DEF ApplyProfile
  <2>2. QED
    BY <1>1, <2>1, SharedLeave, SharedClientMenu
<1>4. ASSUME NEW cfg, UNCHANGED <<files, author, at, lock>>,
             Hold(c, [hand[c] EXCEPT !.client = cfg, !.retried = TRUE])
      PROVE  SharedInv'
  <2>1. PICK require : require = hand[c].require
    OBVIOUS
  <2>2. [hand[c] EXCEPT !.client = cfg, !.retried = TRUE] =
          [hand[c] EXCEPT !.client = cfg, !.require = require, !.retried = TRUE]
    BY <2>1, KeptNow DEF Fields
  <2>3. Hold(c, [hand[c] EXCEPT !.client = cfg, !.require = require, !.retried = TRUE])
    BY <1>4, <2>2
  <2>4. Goto(c, "profile")
    BY <1>1, <1>4 DEF Goto, CoreOK
  <2>5. QED
    BY <1>1, <1>4, <2>3, <2>4, SharedAsked
<1>5. QED
  BY <1>1, <1>2, <1>3, <1>4, SharedLeave, SharedClientMenu

\* The preflight keeps it: what it remembers is the answer of a server that
\* runs now, to the headers of the dial.
LEMMA SharedPreflight ==
  ASSUME CoreOK, SharedInv, NEW c \in Consoles, Preflight(c)
  PROVE  SharedInv'
<1>1. PICK k, e : k = hand[c] /\ e = environ[c]
  OBVIOUS
<1>2. UNCHANGED environ /\ at[c] = "preflight"
  BY DEF Preflight
<1>3. DOMAIN k = Fields /\ k.checked = <<>> /\ (Locked("preflight", k) => lock = c)
  BY <1>1, <1>2, KeptNow
<1>4. CASE Leave(c)
  BY <1>2, <1>4, SharedLeave
<1>5. ASSUME Goto(c, "dial"), UNCHANGED <<files, author, lock>>, NEW h, Hold(c, h), h.flow = k.flow,
             Passed(h, e)
      PROVE  SharedInv'
  <2>1. Locked("dial", h) => lock' = c
    BY <1>3, <1>5 DEF Locked
  <2>2. QED
    BY <1>1, <1>2, <1>5, <2>1, SharedMove
<1>6. CASE k.flow = "client" /\ ~ k.require
  <2>1. Goto(c, "dial") /\ UNCHANGED <<files, author, hand, lock>>
    BY <1>1, <1>6 DEF Preflight
  <2>2. Hold(c, k) /\ Passed(k, e)
    BY <1>1, <1>3, <2>1 DEF Hold, CoreOK, Passed
  <2>3. QED
    BY <1>5, <2>1, <2>2
<1>7. CASE ~ (k.flow = "client" /\ ~ k.require)
  <2>1. PICK url, cfg : url = k.client.url /\ cfg = k.client
    OBVIOUS
  <2>2. PICK headers \in IF k.flow = "road-client" THEN PreflightHeaders(cfg, e)
                         ELSE ClientProfileFetchHeaders(cfg, e) :
          \E answer \in InfoAnswers(url, headers) :
            IF answer.status # 200 THEN Leave(c)
            ELSE /\ Goto(c, "dial")
                 /\ Hold(c, [hand[c] EXCEPT !.checked = answer.from])
                 /\ UNCHANGED <<files, author, lock, minted>>
    BY <1>1, <1>7, <2>1 DEF Preflight
  <2>3. PICK answer \in InfoAnswers(url, headers) :
          IF answer.status # 200 THEN Leave(c)
          ELSE /\ Goto(c, "dial")
               /\ Hold(c, [hand[c] EXCEPT !.checked = answer.from])
               /\ UNCHANGED <<files, author, lock, minted>>
    BY <2>2
  <2>4. CASE answer.status = 200
    <3>1. PICK from : from = answer.from
      OBVIOUS
    <3>2. PICK h : h = [k EXCEPT !.checked = from]
      OBVIOUS
    <3>3. h.checked = from /\ h.flow = k.flow /\ h.client = cfg
      BY <1>3, <2>1, <3>2 DEF Fields
    <3>4. Goto(c, "dial") /\ Hold(c, h) /\ UNCHANGED <<files, author, lock>>
      BY <1>1, <2>3, <2>4, <3>1, <3>2
    <3>5. ASSUME from # <<>>, ~ Ambiguous(cfg, k.flow), NEW dialled \in DialHeaders(cfg, e)
          PROVE  Welcome(dialled, DataStatus(from[1].server, from[1].environ, from[1].plugins,
                   DialRequest(from[1].server.wsEndpoint, dialled, HostOf(url))))
      <4>1. dialled = headers
        <5>1. PICK flow : flow = k.flow
          OBVIOUS
        <5>2. /\ ~ Ambiguous(cfg, flow)
              /\ headers \in Sent(cfg, flow, e)
          BY <2>2, <3>5, <5>1 DEF Sent
        <5>3. dialled \in DialHeaders(cfg, e)
          BY <3>5
        <5>4. QED
          BY <5>2, <5>3, SameHeaders
      <4>2. PICK d \in Reach(url) :
              answer = [status |-> DataStatus(hand[d].server, environ[d], Plugins(d),
                          FetchRequest("/api/info", headers, HostOf(url))),
                        from |-> <<[server |-> hand[d].server, environ |-> environ[d],
                                    plugins |-> Plugins(d)]>>]
        <5>1. answer \notin {[status |-> status, from |-> <<>>] :
                               status \in (IF Reach(url) = {} THEN {0} ELSE {})
                                          \cup (IF Elsewhere(url) THEN {200, 401} ELSE {})}
          BY <3>1, <3>5
        <5>2. QED
          BY <2>3, <5>1 DEF InfoAnswers
      <4>3. PICK s, env, plugins, host :
              s = hand[d].server /\ env = environ[d] /\ plugins = Plugins(d) /\ host = HostOf(url)
        OBVIOUS
      <4>4. DataStatus(s, env, plugins, FetchRequest("/api/info", headers, host)) = 200
        BY <2>4, <4>2, <4>3
      <4>5. from[1] = [server |-> s, environ |-> env, plugins |-> plugins]
        BY <3>1, <4>2, <4>3
      <4>6. Welcome(headers, DataStatus(s, env, plugins, DialRequest(s.wsEndpoint, headers, host)))
        BY <4>4, PreflightPasses
      <4>7. from[1].server = s /\ from[1].environ = env /\ from[1].plugins = plugins
        BY <4>5
      <4>8. QED
        BY <4>1, <4>3, <4>6, <4>7
    <3>6. Passed(h, e)
      BY <2>1, <3>3, <3>5 DEF Passed
    <3>7. QED
      BY <1>5, <3>3, <3>4, <3>6
  <2>5. QED
    BY <1>4, <2>3, <2>4
<1>8. QED
  BY <1>6, <1>7

\* Writing an edited configuration keeps it: neither server.menu.json nor the
\* friend's file is edited.
LEMMA SharedEdit ==
  ASSUME CoreOK, SharedInv, NEW c \in Consoles, at[c] \in {"edit-server", "edit-client"},
         NEW path, path \in {ServerJSON, ClientJSON}, NEW content, NEW edit,
         BeginWrite(c, path, content, "end", [hand[c] EXCEPT !.edit = edit]), UNCHANGED <<environ, lock>>
  PROVE  SharedInv'
<1>1. PICK k : k = hand[c]
  OBVIOUS
<1>2. PICK h : h = [k EXCEPT !.edit = edit]
  OBVIOUS
<1>3. DOMAIN k = Fields /\ k.checked = <<>> /\ (Locked(at[c], k) => lock = c)
  BY <1>1, KeptNow
<1>4. DOMAIN h = Fields /\ h.checked = <<>> /\ h.flow = k.flow
  BY <1>2, <1>3 DEF Fields
<1>5. BeginWrite(c, path, content, "end", h)
  BY <1>1, <1>2
<1>6. path # HintPath
  BY DEF HintPath, ServerJSON, ClientJSON
<1>7. h.flow = "wizard" => lock = c
  BY <1>3, <1>4 DEF Locked
<1>8. QED
  BY <1>4, <1>5, <1>6, <1>7, SharedWrite

\* The settings page keeps it.
LEMMA SharedSettings ==
  ASSUME CoreOK, SharedInv, NEW c \in Consoles, SettingsSteps(c)
  PROVE  SharedInv'
<1>1. ASSUME NEW answers, EditServer(c, answers) PROVE SharedInv'
  <2>1. UNCHANGED environ /\ at[c] = "edit-server"
    BY <1>1 DEF EditServer
  <2>2. \/ Leave(c)
        \/ \E content, edit : /\ BeginWrite(c, ServerJSON, content, "end", [hand[c] EXCEPT !.edit = edit])
                              /\ UNCHANGED lock
    BY <1>1 DEF EditServer
  <2>3. QED
    BY <2>1, <2>2, SharedLeave, SharedEdit
<1>2. ASSUME NEW answers, EditClient(c, answers) PROVE SharedInv'
  <2>1. UNCHANGED environ /\ at[c] = "edit-client"
    BY <1>2 DEF EditClient
  <2>2. \/ Leave(c)
        \/ \E content, edit : /\ BeginWrite(c, ClientJSON, content, "end", [hand[c] EXCEPT !.edit = edit])
                              /\ UNCHANGED lock
    BY <1>2 DEF EditClient
  <2>3. QED
    BY <2>1, <2>2, SharedLeave, SharedEdit
<1>3. QED
  BY <1>1, <1>2 DEF SettingsSteps

\* The inductive step.
LEMMA SharedStep == TypeInv /\ SharedInv /\ [Next]_vars => SharedInv'
<1> SUFFICES ASSUME TypeInv, SharedInv, [Next]_vars PROVE SharedInv'
  OBVIOUS
<1>1. CoreOK /\ environ \in [Consoles -> Environments]
  BY DEF TypeInv
<1>2. CASE UNCHANGED vars
  BY <1>2 DEF SharedInv, vars
<1>3. CASE Next
  <2>1. PICK c \in Consoles :
          \/ \E e \in Environments, flow \in Flows[c] : Start(c, e, flow)
          \/ Layout(c) \/ Seed(c) \/ Fill(c) \/ FillFails(c) \/ Crash(c) \/ Interrupt(c)
          \/ ServerSteps(c) \/ ClientSteps(c) \/ SettingsSteps(c)
    BY <1>3 DEF Next
  <2>2. ASSUME NEW e \in Environments, NEW flow \in Flows[c], Start(c, e, flow) PROVE SharedInv'
    BY <1>1, <2>2, SharedStart
  <2>3. CASE Layout(c)
    BY <1>1, <2>3, SharedLayout
  <2>4. CASE Seed(c)
    BY <1>1, <2>4, SharedSeed
  <2>5. CASE Fill(c)
    BY <1>1, <2>5, SharedFill
  <2>6. CASE FillFails(c) \/ Interrupt(c)
    BY <1>1, <2>6, SharedLeave DEF FillFails, Interrupt
  <2>7. CASE Crash(c)
    <3>1. Goto(c, "down") /\ Hold(c, Idle) /\ lock' = Released(c) /\ UNCHANGED <<files, author, environ>>
      BY <2>7 DEF Crash
    <3>2. QED
      BY <1>1, <3>1, SharedDrop
  <2>8. CASE ServerSteps(c)
    <3>1. CASE PortsRefused(c) \/ EngineFails(c)
      BY <1>1, <3>1, SharedLeave DEF PortsRefused, EngineFails
    <3>2. ASSUME NEW d \in Consoles, KillOwner(c, d) PROVE SharedInv'
      BY <1>1, <3>2, SharedKill
    <3>3. ASSUME NEW plugin, ChoosePlugin(c, plugin) PROVE SharedInv'
      BY <1>1, <3>3, SharedChoosePlugin
    <3>4. CASE \/ AcquireLock(c) \/ BuildServerConfig(c) \/ ReloadServer(c) \/ WriteHint(c)
               \/ PortsFree(c) \/ Listen(c) \/ RoadServer(c)
      BY <1>1, <3>4, SharedAcquireLock, SharedBuild, SharedReload, SharedHint, SharedPortsFree,
         SharedListen, SharedRoadServer
    <3>5. QED
      BY <2>8, <3>1, <3>2, <3>3, <3>4 DEF ServerSteps
  <2>9. CASE ClientSteps(c)
    <3>1. ASSUME NEW typed, Connection(c, typed) PROVE SharedInv'
      BY <1>1, <3>1, SharedConnection
    <3>2. CASE OpenClient(c) \/ RoadClient(c)
      BY <1>1, <3>2, SharedOpenClient
    <3>3. CASE Profile(c) \/ Preflight(c)
      BY <1>1, <3>3, SharedProfile, SharedPreflight
    <3>4. QED
      BY <2>9, <3>1, <3>2, <3>3 DEF ClientSteps
  <2>10. CASE SettingsSteps(c)
    BY <1>1, <2>10, SharedSettings
  <2>11. QED
    BY <2>1, <2>2, <2>3, <2>4, <2>5, <2>6, <2>7, <2>8, <2>9, <2>10
<1>4. QED
  BY <1>2, <1>3

\* The initial states satisfy it.
LEMMA SharedInit == Init => SharedInv
<1> SUFFICES ASSUME Init PROVE SharedInv
  OBVIOUS
<1>1. ASSUME NEW c \in Consoles PROVE Kept(c, at[c], hand[c], environ[c], files, author, lock)
  <2>1. at[c] = "down" /\ hand[c] = Idle
    BY DEF Init
  <2>2. QED
    BY <2>1, IdleIsKept
<1>2. QED
  BY <1>1 DEF SharedInv

\* For any number of programs, any plugins and any answers: whatever two
\* wizards, a settings page and a crash do to the files between the two halves
\* of a write, every program relies on what is there.
THEOREM SharedHolds == Spec => []SharedInv
BY SharedInit, SharedStep, TypeInvHolds, PTL DEF Spec

\* A flow of the menu that was the last to write server.menu.json can read it
\* back, and finds the plugin it chose (menu.go writes the file and loads it
\* again).
THEOREM MenuReadsItsOwn == Spec => []ReadsBackItsOwn
<1>1. SharedInv => ReadsBackItsOwn
  <2> SUFFICES ASSUME SharedInv, NEW c \in Consoles, at[c] = "reload", author["server.menu.json"] = c
               PROVE  Own(files["server.menu.json"], hand[c].plugin, environ[c])
    BY DEF ReadsBackItsOwn, Own
  <2>1. Kept(c, at[c], hand[c], environ[c], files, author, lock)
    BY DEF SharedInv
  <2>2. QED
    BY <2>1 DEF Kept, MenuPath
<1>2. QED
  BY <1>1, SharedHolds, PTL

\* A client dials, when its preflight passed, with headers that the server it
\* asked does not call unauthorized, and forbids only for a host or an origin
\* that the configuration itself names (wsurl.go and cmd/client build one set of
\* headers, tunnel.go another), whatever configurations and servers there are.
THEOREM PreflightKept == Spec => []PreflightHolds
<1>1. SharedInv => PreflightHolds
  BY DEF PreflightHolds, SharedInv, Kept, Local
<1>2. QED
  BY <1>1, SharedHolds, PTL

\* While a wizard runs a public server, a stranger without its token is shut
\* out, and a friend's file loads and is let in, from whatever template it was
\* made: no other program, crash or edit changes either. Excepted are what the
\* file keeps of a template that the code does not look at: UDP listeners of a
\* plugin that is not a UDP one, and headers that name a host or an origin.
THEOREM PublicServerHolds == Spec => []PublicServerProtected
<1>1. TypeInv /\ SharedInv => PublicServerProtected
  <2> SUFFICES ASSUME TypeInv, SharedInv, NEW c \in Consoles, Running(c), hand[c].flow = "wizard"
               PROVE  /\ DefaultName(hand[c].server.enabled) = TrimSpace(hand[c].plugin.name)
                      /\ ~ HasOpenNoAuthListener(hand[c].server, environ[c])
                      /\ LET cfg == files["client.public.menu.json"]
                         IN  /\ Readable(cfg) /\ (FitsNetwork(cfg) => LoadsClient(cfg, environ[c], TRUE, TRUE))
                             /\ LetIn(c, cfg)
                      /\ \A headers \in Strangers(c) : ShutOut(c, headers)
    BY DEF PublicServerProtected
  <2>1. PICK h, e : h = hand[c] /\ e = environ[c]
    OBVIOUS
  <2>2. Kept(c, "running", h, e, files, author, lock)
    BY <2>1 DEF SharedInv, Running
  <2>3. Published(h) /\ Hint(files["client.public.menu.json"], h, e)
    BY <2>1, <2>2 DEF Kept, Local, Going, HintPath
  <2>4. h.server \in ServerType /\ Loads(Disk, h.server.enabled)
    BY <2>1, HandsAre DEF TypeInv, Running, Placed, Going
  <2>5. DefaultName(h.server.enabled) = TrimSpace(h.plugin.name)
    BY <2>3 DEF Published
  <2>6. WSAuthEnabled(h.server, e)
    BY <2>3, PublishedTokens
  <2>7. ~ HasOpenNoAuthListener(h.server, e)
    BY <2>6 DEF HasOpenNoAuthListener
  <2>8. LetIn(c, files["client.public.menu.json"])
    BY <2>1, <2>3, <2>4, FriendLetIn
  <2>9. ASSUME NEW headers \in Strangers(c) PROVE ShutOut(c, headers)
    <3>1. PICK token : /\ token # hand[c].told.name
                       /\ headers = [name \in {DefaultAuthHeaderName} |-> AuthHeaderValue(name, token)]
      BY DEF Strangers
    <3>2. QED
      BY <2>1, <2>3, <3>1, StrangerShutOut
  <2>10. QED
    BY <2>1, <2>3, <2>5, <2>7, <2>8, <2>9 DEF Hint
<1>2. QED
  BY <1>1, SharedHolds, TypeInvHolds, PTL

=============================================================================
