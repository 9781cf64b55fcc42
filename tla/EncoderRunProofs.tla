------------------------- MODULE EncoderRunProofs ---------------------------
(***************************************************************************)
(* The encoder of the round trip, for values of any size and depth: it has *)
(* run, step by step, from nothing to the bytes in its buffer, and each step*)
(* wrote what is there.  The proofs about the decoder replay that run.     *)
(***************************************************************************)
EXTENDS RoundTrip, DecoderProofs, WellFoundedInduction, FiniteSetTheorems

-----------------------------------------------------------------------------
(* Values and their equality, level by level.                              *)

\* A set of numbers that has 0 and with each number the next has all of them.
LEMMA SetInduction ==
    ASSUME NEW S \in SUBSET Nat, 0 \in S, \A n \in S : n + 1 \in S
    PROVE  S = Nat
<1>. DEFINE T == Nat \ S
            R == OpToRel(<, Nat)
<1>1. SUFFICES ASSUME T # {} PROVE FALSE
  OBVIOUS
<1>2. IsWellFoundedOn(R, Nat)
  BY NatLessThanWellFounded
<1>. HIDE DEF R
<1>3. PICK x \in T : \A y \in T : ~(<<y, x>> \in R)
  BY <1>1, <1>2, WFMin
<1>4. x \in Nat /\ x # 0 /\ x - 1 \in Nat /\ x - 1 < x
  OBVIOUS
<1>5. <<x - 1, x>> \in R
  BY <1>4 DEF R, OpToRel
<1>6. x - 1 \in S
  BY <1>3, <1>4, <1>5
<1>. QED
  BY <1>4, <1>6

\* Scalars, and the arrays of these values.
WithArrays(S) ==
    V!Scalars \cup ({"list"} \X V!Counted(S)) \cup ({"hash"} \X V!Counted(V!Keys \X S))

LevelsUpTo(n, g) ==
    g = [k \in 0..n |-> IF k = 0 THEN V!Scalars ELSE WithArrays(g[k - 1])]

\* The levels of values one by one: what the recursive function Nested defines.
LEMMA NestedLevels ==
    V!Nested[0] = V!Scalars /\ \A n \in Nat : V!Nested[n + 1] = WithArrays(V!Nested[n])
<1>1. \A n \in Nat : \E g : LevelsUpTo(n, g)
  <2>. DEFINE N == {n \in Nat : \E g : LevelsUpTo(n, g)}
  <2>1. 0 \in N
    <3>. DEFINE g == [k \in 0..0 |-> V!Scalars]
    <3>1. g = [k \in 0..0 |-> IF k = 0 THEN V!Scalars ELSE WithArrays(g[k - 1])]
      OBVIOUS
    <3>. QED
      BY <3>1 DEF LevelsUpTo
  <2>2. ASSUME NEW n \in N PROVE n + 1 \in N
    <3>1. n \in Nat
      OBVIOUS
    <3>2. PICK g : LevelsUpTo(n, g)
      OBVIOUS
    <3>. DEFINE h == [k \in 0..(n + 1) |-> IF k = n + 1 THEN WithArrays(g[n]) ELSE g[k]]
    <3>3. ASSUME NEW k \in 0..(n + 1)
          PROVE  h[k] = IF k = 0 THEN V!Scalars ELSE WithArrays(h[k - 1])
      <4>1. CASE k = 0
        <5>1. 0 \in 0..n /\ 0 \in 0..(n+1) /\ n + 1 # 0
          BY <3>1
        <5>2. h[0] = g[0]
          BY <5>1
        <5>. QED
          BY <3>2, <5>1, <5>2, <4>1 DEF LevelsUpTo
      <4>2. CASE k = n + 1
        <5>1. k - 1 = n /\ n \in 0..(n+1) /\ n # n + 1 /\ k # 0
          BY <3>1, <4>2
        <5>2. h[n] = g[n] /\ h[k] = WithArrays(g[n])
          BY <5>1, <4>2
        <5>. QED
          BY <5>1, <5>2
      <4>3. CASE k # 0 /\ k # n + 1
        <5>1. k \in 0..n /\ k - 1 \in 0..n /\ k - 1 \in 0..(n+1) /\ k - 1 # n + 1
          BY <3>1, <4>3
        <5>2. h[k] = g[k] /\ h[k - 1] = g[k - 1]
          BY <5>1, <4>3
        <5>3. g[k] = WithArrays(g[k - 1])
          BY <3>2, <4>3, <5>1 DEF LevelsUpTo
        <5>. QED
          BY <5>2, <5>3, <4>3
      <4>. QED
        BY <4>1, <4>2, <4>3
    <3>4. h = [k \in 0..(n+1) |-> IF k = 0 THEN V!Scalars ELSE WithArrays(h[k - 1])]
      <4>. DEFINE e == [k \in 0..(n+1) |-> IF k = 0 THEN V!Scalars ELSE WithArrays(h[k - 1])]
      <4>1. \A k \in 0..(n+1) : h[k] = e[k]
        BY <3>3
      <4>2. h = [k \in 0..(n+1) |-> h[k]]
        OBVIOUS
      <4>. HIDE DEF h
      <4>. QED
        BY <4>1, <4>2
    <3>5. \E e : LevelsUpTo(n + 1, e)
      <4>. HIDE DEF h
      <4>. QED
        BY <3>4 DEF LevelsUpTo
    <3>. QED
      BY <3>1, <3>5
  <2>3. N = Nat
    <3>. HIDE DEF N
    <3>1. N \in SUBSET Nat
      BY DEF N
    <3>. QED
      BY <2>1, <2>2, <3>1, SetInduction
  <2>. QED
    BY <2>3
<1>2. ASSUME NEW m \in Nat, NEW n \in Nat, NEW g, NEW h, LevelsUpTo(m, g), LevelsUpTo(n, h)
      PROVE  \A k \in Nat : k <= m /\ k <= n => g[k] = h[k]
  <2>. DEFINE N == {k \in Nat : k <= m /\ k <= n => g[k] = h[k]}
  <2>1. 0 \in N
    BY <1>2 DEF LevelsUpTo
  <2>2. ASSUME NEW k \in N PROVE k + 1 \in N
    <3>. SUFFICES ASSUME k + 1 <= m, k + 1 <= n PROVE g[k + 1] = h[k + 1]
      OBVIOUS
    <3>1. k \in Nat /\ g[k] = h[k] /\ k + 1 \in 0..m /\ k + 1 \in 0..n /\ (k + 1) - 1 = k
          /\ k + 1 # 0
      OBVIOUS
    <3>2. g[k + 1] = WithArrays(g[k]) /\ h[k + 1] = WithArrays(h[k])
      BY <1>2, <3>1 DEF LevelsUpTo
    <3>. QED
      BY <3>1, <3>2
  <2>3. N = Nat
    <3>. HIDE DEF N
    <3>1. N \in SUBSET Nat
      BY DEF N
    <3>. QED
      BY <2>1, <2>2, <3>1, SetInduction
  <2>. QED
    BY <2>3
<1>. DEFINE first(n) == CHOOSE g : LevelsUpTo(n, g)
            f == [n \in Nat |-> first(n)[n]]
<1>3. \A n \in Nat : LevelsUpTo(n, first(n))
  BY <1>1
<1>. HIDE DEF first
<1>4. ASSUME NEW n \in Nat PROVE f[n] = IF n = 0 THEN V!Scalars ELSE WithArrays(f[n - 1])
  <2>1. f[n] = first(n)[n] /\ n \in 0..n
    OBVIOUS
  <2>2. CASE n = 0
    BY <1>3, <2>1, <2>2 DEF LevelsUpTo
  <2>3. CASE n # 0
    <3>1. n - 1 \in Nat /\ n - 1 <= n /\ n - 1 <= n - 1
      BY <2>3
    <3>2. first(n)[n] = WithArrays(first(n)[n - 1])
      BY <1>3, <2>1, <2>3 DEF LevelsUpTo
    <3>3. LevelsUpTo(n, first(n)) /\ LevelsUpTo(n - 1, first(n - 1))
      BY <1>3, <3>1
    <3>4. first(n)[n - 1] = first(n - 1)[n - 1]
      BY <1>2, <3>1, <3>3
    <3>. QED
      BY <2>1, <2>3, <3>1, <3>2, <3>4
  <2>. QED
    BY <2>2, <2>3
<1>5. f = [n \in Nat |-> IF n = 0 THEN V!Scalars ELSE WithArrays(f[n - 1])]
  <2>. DEFINE e == [n \in Nat |-> IF n = 0 THEN V!Scalars ELSE WithArrays(f[n - 1])]
  <2>1. \A n \in Nat : f[n] = e[n]
    BY <1>4
  <2>2. f = [n \in Nat |-> f[n]]
    OBVIOUS
  <2>. HIDE DEF f
  <2>. QED
    BY <2>1, <2>2
<1>6. V!Nested = [n \in Nat |-> IF n = 0 THEN V!Scalars ELSE WithArrays(V!Nested[n - 1])]
  <2>. HIDE DEF f
  <2>. QED
  BY <1>5, Zenon DEF V!Nested, WithArrays
<1>7. V!Nested[0] = V!Scalars
  BY <1>6
<1>8. ASSUME NEW n \in Nat PROVE V!Nested[n + 1] = WithArrays(V!Nested[n])
  <2>1. n + 1 \in Nat /\ n + 1 # 0 /\ (n + 1) - 1 = n
    OBVIOUS
  <2>. QED
    BY <1>6, <2>1
<1>. QED
  BY <1>7, <1>8

SameScalars == {p \in V!Scalars \X V!Scalars : p[1] = p[2]}
PairsUpTo(n, same) ==
    {p \in V!Nested[n] \X V!Nested[n] :
        \/ p[1] \in V!Scalars /\ p[1] = p[2]
        \/ V!SameArrays(p[1], p[2], same)}

SameUpTo(n, g) ==
    g = [k \in 0..n |-> IF k = 0 THEN SameScalars ELSE PairsUpTo(k, g[k - 1])]

\* The pairs of equal values level by level.
LEMMA EqualLevels ==
    V!Equal[0] = SameScalars /\ \A n \in Nat : V!Equal[n + 1] = PairsUpTo(n + 1, V!Equal[n])
<1>1. \A n \in Nat : \E g : SameUpTo(n, g)
  <2>. DEFINE N == {n \in Nat : \E g : SameUpTo(n, g)}
  <2>1. 0 \in N
    <3>. DEFINE g == [k \in 0..0 |-> SameScalars]
    <3>1. g = [k \in 0..0 |-> IF k = 0 THEN SameScalars ELSE PairsUpTo(k, g[k - 1])]
      OBVIOUS
    <3>. QED
      BY <3>1 DEF SameUpTo
  <2>2. ASSUME NEW n \in N PROVE n + 1 \in N
    <3>1. n \in Nat
      OBVIOUS
    <3>2. PICK g : SameUpTo(n, g)
      OBVIOUS
    <3>. DEFINE h == [k \in 0..(n + 1) |-> IF k = n + 1 THEN PairsUpTo(n + 1, g[n]) ELSE g[k]]
    <3>3. ASSUME NEW k \in 0..(n + 1)
          PROVE  h[k] = IF k = 0 THEN SameScalars ELSE PairsUpTo(k, h[k - 1])
      <4>1. CASE k = 0
        <5>1. 0 \in 0..n /\ 0 \in 0..(n+1) /\ n + 1 # 0
          BY <3>1
        <5>2. h[0] = g[0]
          BY <5>1
        <5>. QED
          BY <3>2, <5>1, <5>2, <4>1 DEF SameUpTo
      <4>2. CASE k = n + 1
        <5>1. k - 1 = n /\ n \in 0..(n+1) /\ n # n + 1 /\ k # 0
          BY <3>1, <4>2
        <5>2. h[n] = g[n] /\ h[k] = PairsUpTo(n + 1, g[n])
          BY <5>1, <4>2
        <5>. QED
          BY <5>1, <5>2
      <4>3. CASE k # 0 /\ k # n + 1
        <5>1. k \in 0..n /\ k - 1 \in 0..n /\ k - 1 \in 0..(n+1) /\ k - 1 # n + 1
          BY <3>1, <4>3
        <5>2. h[k] = g[k] /\ h[k - 1] = g[k - 1]
          BY <5>1, <4>3
        <5>3. g[k] = PairsUpTo(k, g[k - 1])
          BY <3>2, <4>3, <5>1 DEF SameUpTo
        <5>. QED
          BY <5>2, <5>3, <4>3
      <4>. QED
        BY <4>1, <4>2, <4>3
    <3>4. h = [k \in 0..(n+1) |-> IF k = 0 THEN SameScalars ELSE PairsUpTo(k, h[k - 1])]
      <4>. DEFINE e == [k \in 0..(n+1) |-> IF k = 0 THEN SameScalars ELSE PairsUpTo(k, h[k - 1])]
      <4>1. \A k \in 0..(n+1) : h[k] = e[k]
        BY <3>3
      <4>2. h = [k \in 0..(n+1) |-> h[k]]
        OBVIOUS
      <4>. HIDE DEF h
      <4>. QED
        BY <4>1, <4>2
    <3>5. \E e : SameUpTo(n + 1, e)
      <4>. HIDE DEF h
      <4>. QED
        BY <3>4 DEF SameUpTo
    <3>. QED
      BY <3>1, <3>5
  <2>3. N = Nat
    <3>. HIDE DEF N
    <3>1. N \in SUBSET Nat
      BY DEF N
    <3>. QED
      BY <2>1, <2>2, <3>1, SetInduction
  <2>. QED
    BY <2>3
<1>2. ASSUME NEW m \in Nat, NEW n \in Nat, NEW g, NEW h, SameUpTo(m, g), SameUpTo(n, h)
      PROVE  \A k \in Nat : k <= m /\ k <= n => g[k] = h[k]
  <2>. DEFINE N == {k \in Nat : k <= m /\ k <= n => g[k] = h[k]}
  <2>1. 0 \in N
    BY <1>2 DEF SameUpTo
  <2>2. ASSUME NEW k \in N PROVE k + 1 \in N
    <3>. SUFFICES ASSUME k + 1 <= m, k + 1 <= n PROVE g[k + 1] = h[k + 1]
      OBVIOUS
    <3>1. k \in Nat /\ g[k] = h[k] /\ k + 1 \in 0..m /\ k + 1 \in 0..n /\ (k + 1) - 1 = k
          /\ k + 1 # 0
      OBVIOUS
    <3>2. g[k + 1] = PairsUpTo(k + 1, g[k]) /\ h[k + 1] = PairsUpTo(k + 1, h[k])
      BY <1>2, <3>1 DEF SameUpTo
    <3>. QED
      BY <3>1, <3>2
  <2>3. N = Nat
    <3>. HIDE DEF N
    <3>1. N \in SUBSET Nat
      BY DEF N
    <3>. QED
      BY <2>1, <2>2, <3>1, SetInduction
  <2>. QED
    BY <2>3
<1>. DEFINE first(n) == CHOOSE g : SameUpTo(n, g)
            f == [n \in Nat |-> first(n)[n]]
<1>3. \A n \in Nat : SameUpTo(n, first(n))
  BY <1>1
<1>. HIDE DEF first
<1>4. ASSUME NEW n \in Nat PROVE f[n] = IF n = 0 THEN SameScalars ELSE PairsUpTo(n, f[n - 1])
  <2>1. f[n] = first(n)[n] /\ n \in 0..n
    OBVIOUS
  <2>2. CASE n = 0
    BY <1>3, <2>1, <2>2 DEF SameUpTo
  <2>3. CASE n # 0
    <3>1. n - 1 \in Nat /\ n - 1 <= n /\ n - 1 <= n - 1
      BY <2>3
    <3>2. first(n)[n] = PairsUpTo(n, first(n)[n - 1])
      BY <1>3, <2>1, <2>3 DEF SameUpTo
    <3>3. SameUpTo(n, first(n)) /\ SameUpTo(n - 1, first(n - 1))
      BY <1>3, <3>1
    <3>4. first(n)[n - 1] = first(n - 1)[n - 1]
      BY <1>2, <3>1, <3>3
    <3>. QED
      BY <2>1, <2>3, <3>1, <3>2, <3>4
  <2>. QED
    BY <2>2, <2>3
<1>5. f = [n \in Nat |-> IF n = 0 THEN SameScalars ELSE PairsUpTo(n, f[n - 1])]
  <2>. DEFINE e == [n \in Nat |-> IF n = 0 THEN SameScalars ELSE PairsUpTo(n, f[n - 1])]
  <2>1. \A n \in Nat : f[n] = e[n]
    BY <1>4
  <2>2. f = [n \in Nat |-> f[n]]
    OBVIOUS
  <2>. HIDE DEF f
  <2>. QED
    BY <2>1, <2>2
<1>6. V!Equal = [n \in Nat |-> IF n = 0 THEN SameScalars ELSE PairsUpTo(n, V!Equal[n - 1])]
  <2>. HIDE DEF f
  <2>. QED
  BY <1>5, Zenon DEF V!Equal, SameScalars, PairsUpTo
<1>7. V!Equal[0] = SameScalars
  BY <1>6
<1>8. ASSUME NEW n \in Nat PROVE V!Equal[n + 1] = PairsUpTo(n + 1, V!Equal[n])
  <2>1. n + 1 \in Nat /\ n + 1 # 0 /\ (n + 1) - 1 = n
    OBVIOUS
  <2>. QED
    BY <1>6, <2>1
<1>. QED
  BY <1>7, <1>8

\* A scalar is not an array.
LEMMA ScalarKind ==
    ASSUME NEW v \in V!Scalars
    PROVE  v[1] \in {"null", "bool", "int", "str", "double"} /\ ~V!IsArray(v)
BY DEF V!Scalars, V!IsArray

\* What an array consists of: fewer levels.
LEMMA ArrayParts ==
    ASSUME NEW n \in Nat, NEW v \in V!Nested[n], V!IsArray(v)
    PROVE  /\ n - 1 \in Nat /\ n > 0
           /\ v = <<v[1], v[2]>> /\ Len(v[2]) <= MaxU32 /\ Len(v[2]) \in Nat
           /\ v[1] = "list" => v[2] \in Seq(V!Nested[n - 1])
           /\ v[1] = "hash" => v[2] \in Seq(V!Keys \X V!Nested[n - 1])
<1>1. v \notin V!Scalars
  BY ScalarKind
<1>2. n # 0
  BY <1>1, NestedLevels
<1>3. n - 1 \in Nat /\ (n - 1) + 1 = n
  BY <1>2
<1>4. v \in WithArrays(V!Nested[n - 1])
  BY <1>3, NestedLevels
<1>5. \/ v \in {"list"} \X V!Counted(V!Nested[n - 1])
      \/ v \in {"hash"} \X V!Counted(V!Keys \X V!Nested[n - 1])
  BY <1>1, <1>4 DEF WithArrays
<1>6. \A S : \A s \in V!Counted(S) : s \in Seq(S) /\ Len(s) <= MaxU32 /\ Len(s) \in Nat
  BY LenProperties DEF V!Counted
<1>7. CASE v \in {"list"} \X V!Counted(V!Nested[n - 1])
  BY <1>3, <1>6, <1>7
<1>8. CASE v \in {"hash"} \X V!Counted(V!Keys \X V!Nested[n - 1])
  BY <1>3, <1>6, <1>8
<1>. QED
  BY <1>5, <1>7, <1>8

\* An array of values with up to n levels.
LEMMA ArrayNested ==
    ASSUME NEW n \in Nat, NEW s, Len(s) <= MaxU32
    PROVE  /\ s \in Seq(V!Nested[n]) => <<"list", s>> \in V!Nested[n + 1]
           /\ s \in Seq(V!Keys \X V!Nested[n]) => <<"hash", s>> \in V!Nested[n + 1]
BY NestedLevels DEF WithArrays, V!Counted

\* A value is a scalar or an array.
LEMMA NestedKind ==
    ASSUME NEW n \in Nat, NEW v \in V!Nested[n]
    PROVE  v \in V!Scalars \/ V!IsArray(v)
<1>1. CASE n = 0
  BY <1>1, NestedLevels
<1>2. CASE n # 0
  <2>1. n - 1 \in Nat /\ (n - 1) + 1 = n
    BY <1>2
  <2>2. v \in WithArrays(V!Nested[n - 1])
    BY <2>1, NestedLevels
  <2>. QED
    BY <2>2 DEF WithArrays, V!IsArray
<1>. QED
  BY <1>1, <1>2

\* Scalars have any number of levels.
LEMMA ScalarNested ==
    ASSUME NEW n \in Nat, NEW v \in V!Scalars
    PROVE  v \in V!Nested[n] /\ <<v, v>> \in V!Equal[n]
<1>1. CASE n = 0
  BY <1>1, NestedLevels, EqualLevels DEF SameScalars
<1>2. CASE n # 0
  <2>1. n - 1 \in Nat /\ (n - 1) + 1 = n
    BY <1>2
  <2>2. v \in V!Nested[n]
    BY <2>1, NestedLevels DEF WithArrays
  <2>3. V!Equal[n] = PairsUpTo(n, V!Equal[n - 1])
    BY <2>1, EqualLevels
  <2>. QED
    BY <2>2, <2>3 DEF PairsUpTo
<1>. QED
  BY <1>1, <1>2

\* One level more, and any number of them.
LEMMA NestedNext ==
    \A n \in Nat : V!Nested[n] \subseteq V!Nested[n + 1]
<1>. DEFINE N == {n \in Nat : V!Nested[n] \subseteq V!Nested[n + 1]}
<1>1. 0 \in N
  BY NestedLevels DEF WithArrays
<1>2. ASSUME NEW n \in N PROVE n + 1 \in N
  <2>1. n + 1 \in Nat /\ V!Nested[n] \subseteq V!Nested[n + 1]
    OBVIOUS
  <2>2. PICK S, T : S = V!Nested[n] /\ T = V!Nested[n + 1]
    OBVIOUS
  <2>3. S \subseteq T /\ V!Keys \X S \subseteq V!Keys \X T
    BY <2>1, <2>2
  <2>4. V!Counted(S) \subseteq V!Counted(T)
    BY <2>3, SeqMore DEF V!Counted
  <2>5. V!Counted(V!Keys \X S) \subseteq V!Counted(V!Keys \X T)
    BY <2>3, SeqMore DEF V!Counted
  <2>6. WithArrays(S) \subseteq WithArrays(T)
    BY <2>4, <2>5 DEF WithArrays
  <2>7. V!Nested[n + 1] = WithArrays(S) /\ V!Nested[(n + 1) + 1] = WithArrays(T)
    BY <2>1, <2>2, NestedLevels
  <2>. QED
    BY <2>1, <2>6, <2>7
<1>3. N = Nat
  <2>. HIDE DEF N
  <2>1. N \in SUBSET Nat
    BY DEF N
  <2>. QED
    BY <1>1, <1>2, <2>1, SetInduction
<1>. QED
  BY <1>3

\* Values of few levels are among those of more.
LEMMA NestedMore ==
    ASSUME NEW m \in Nat, NEW n \in Nat, m <= n
    PROVE  V!Nested[m] \subseteq V!Nested[n]
<1>. DEFINE N == {d \in Nat : V!Nested[m] \subseteq V!Nested[m + d]}
<1>1. 0 \in N
  OBVIOUS
<1>2. ASSUME NEW d \in N PROVE d + 1 \in N
  <2>1. m + d \in Nat /\ (m + d) + 1 = m + (d + 1)
    OBVIOUS
  <2>2. V!Nested[m + d] \subseteq V!Nested[(m + d) + 1]
    BY <2>1, NestedNext
  <2>. QED
    BY <2>1, <2>2
<1>3. N = Nat
  <2>. HIDE DEF N
  <2>1. N \in SUBSET Nat
    BY DEF N
  <2>. QED
    BY <1>1, <1>2, <2>1, SetInduction
<1>4. n - m \in Nat /\ m + (n - m) = n
  OBVIOUS
<1>. QED
  BY <1>3, <1>4

\* What two equal values are.
LEMMA EqualCases ==
    ASSUME NEW n \in Nat, NEW x, NEW y, <<x, y>> \in V!Equal[n]
    PROVE  /\ x \in V!Nested[n] /\ y \in V!Nested[n]
           /\ \/ x \in V!Scalars /\ x = y
              \/ n - 1 \in Nat /\ n > 0 /\ V!SameArrays(x, y, V!Equal[n - 1])
<1>1. CASE n = 0
  BY <1>1, NestedLevels, EqualLevels DEF SameScalars
<1>2. CASE n # 0
  <2>1. n - 1 \in Nat /\ (n - 1) + 1 = n
    BY <1>2
  <2>2. V!Equal[n] = PairsUpTo(n, V!Equal[n - 1])
    BY <2>1, EqualLevels
  <2>. QED
    BY <2>1, <2>2 DEF PairsUpTo
<1>. QED
  BY <1>1, <1>2

\* Two arrays are equal.
LEMMA ArraysEqual ==
    ASSUME NEW n \in Nat, NEW x \in V!Nested[n + 1], NEW y \in V!Nested[n + 1],
           V!SameArrays(x, y, V!Equal[n])
    PROVE  <<x, y>> \in V!Equal[n + 1]
<1>1. V!Equal[n + 1] = PairsUpTo(n + 1, V!Equal[n])
  BY EqualLevels
<1>. QED
  BY <1>1 DEF PairsUpTo

\* A sequence whose elements are in a set.
LEMMA SeqIn ==
    ASSUME NEW T, NEW s \in Seq(T), NEW S, \A i \in 1..Len(s) : s[i] \in S
    PROVE  s \in Seq(S)
<1>1. Len(s) \in Nat /\ s \in [1..Len(s) -> T]
  BY LenProperties
<1>2. s \in [1..Len(s) -> S]
  BY <1>1
<1>. QED
  BY <1>1, <1>2, SeqDef

\* Two lists, and two hashes, are equal if their elements are.
LEMMA ListsEqual ==
    ASSUME NEW n \in Nat, NEW T, NEW s \in Seq(T), NEW U, NEW t \in Seq(U),
           Len(s) = Len(t), Len(s) <= MaxU32,
           \A i \in 1..Len(s) : <<s[i], t[i]>> \in V!Equal[n]
    PROVE  <<<<"list", s>>, <<"list", t>>>> \in V!Equal[n + 1]
<1>1. \A i \in 1..Len(s) : s[i] \in V!Nested[n] /\ t[i] \in V!Nested[n]
  BY EqualCases
<1>2. s \in Seq(V!Nested[n]) /\ t \in Seq(V!Nested[n])
  BY <1>1, SeqIn
<1>3. <<"list", s>> \in V!Nested[n + 1] /\ <<"list", t>> \in V!Nested[n + 1]
  BY <1>2, ArrayNested
<1>4. V!SameArrays(<<"list", s>>, <<"list", t>>, V!Equal[n])
  BY DEF V!SameArrays
<1>. QED
  BY <1>3, <1>4, ArraysEqual

\* Two hashes are equal if their keys are the same and their elements equal.
LEMMA HashesEqual ==
    ASSUME NEW n \in Nat, NEW T, NEW s \in Seq(T), NEW U, NEW t \in Seq(U),
           Len(s) = Len(t), Len(s) <= MaxU32,
           \A i \in 1..Len(s) : /\ s[i] = <<s[i][1], s[i][2]>> /\ t[i] = <<t[i][1], t[i][2]>>
                                /\ s[i][1] \in V!Keys /\ s[i][1] = t[i][1]
                                /\ <<s[i][2], t[i][2]>> \in V!Equal[n]
    PROVE  <<<<"hash", s>>, <<"hash", t>>>> \in V!Equal[n + 1]
<1>1. ASSUME NEW i \in 1..Len(s)
      PROVE  s[i] \in V!Keys \X V!Nested[n] /\ t[i] \in V!Keys \X V!Nested[n]
  <2>1. s[i][2] \in V!Nested[n] /\ t[i][2] \in V!Nested[n]
    BY <1>1, EqualCases
  <2>2. /\ s[i] = <<s[i][1], s[i][2]>> /\ t[i] = <<t[i][1], t[i][2]>>
        /\ s[i][1] \in V!Keys /\ s[i][1] = t[i][1]
    BY <1>1
  <2>3. \A a, b : a \in V!Keys /\ b \in V!Nested[n] => <<a, b>> \in V!Keys \X V!Nested[n]
    OBVIOUS
  <2>. QED
    BY <2>1, <2>2, <2>3
<1>2. s \in Seq(V!Keys \X V!Nested[n]) /\ t \in Seq(V!Keys \X V!Nested[n])
  BY <1>1, SeqIn
<1>3. <<"hash", s>> \in V!Nested[n + 1] /\ <<"hash", t>> \in V!Nested[n + 1]
  BY <1>2, ArrayNested
<1>4. V!SameArrays(<<"hash", s>>, <<"hash", t>>, V!Equal[n])
  BY DEF V!SameArrays
<1>. QED
  BY <1>3, <1>4, ArraysEqual

\* A pair that is put together again.
LEMMA PairOf ==
    ASSUME NEW A, NEW B, NEW p \in A \X B
    PROVE  p = <<p[1], p[2]>> /\ p[1] \in A /\ p[2] \in B
OBVIOUS

\* Two empty arrays are equal, of whichever kind.
LEMMA EmptiesEqual ==
    ASSUME NEW n \in Nat, NEW x, NEW y, x = <<x[1], x[2]>>, y = <<y[1], y[2]>>,
           V!IsArray(x), V!IsArray(y), x[2] = <<>>, y[2] = <<>>
    PROVE  <<x, y>> \in V!Equal[n + 1]
<1>1. <<>> \in Seq(V!Nested[n]) /\ <<>> \in Seq(V!Keys \X V!Nested[n]) /\ Len(<<>>) <= MaxU32
  BY DecoderAssumption
<1>2. <<"list", <<>>>> \in V!Nested[n + 1] /\ <<"hash", <<>>>> \in V!Nested[n + 1]
  BY <1>1, ArrayNested
<1>3. x \in V!Nested[n + 1] /\ y \in V!Nested[n + 1]
  BY <1>2 DEF V!IsArray
<1>4. V!SameArrays(x, y, V!Equal[n])
  BY DEF V!SameArrays
<1>. QED
  BY <1>3, <1>4, ArraysEqual

\* Equal values have the same levels: if one of them has few, so has the other.
LEMMA EqualAtLevel ==
    ASSUME NEW a \in Nat, NEW b \in Nat, NEW x, NEW y, <<x, y>> \in V!Equal[a], x \in V!Nested[b]
    PROVE  <<x, y>> \in V!Equal[b]
<1>. DEFINE N == {n \in Nat : \A m \in Nat : \A v, w :
                      <<v, w>> \in V!Equal[m] /\ v \in V!Nested[n] => <<v, w>> \in V!Equal[n]}
<1>1. 0 \in N
  <2>. SUFFICES ASSUME NEW m \in Nat, NEW v, NEW w, <<v, w>> \in V!Equal[m], v \in V!Nested[0]
                PROVE  <<v, w>> \in V!Equal[0]
    OBVIOUS
  <2>1. v \in V!Scalars /\ ~V!IsArray(v)
    BY NestedLevels, ScalarKind
  <2>2. v = w
    BY <2>1, EqualCases DEF V!SameArrays, V!IsArray
  <2>. QED
    BY <2>1, <2>2, ScalarNested
<1>2. ASSUME NEW n \in N PROVE n + 1 \in N
  <2>. SUFFICES ASSUME NEW m \in Nat, NEW v, NEW w,
                       <<v, w>> \in V!Equal[m], v \in V!Nested[n + 1]
                PROVE  <<v, w>> \in V!Equal[n + 1]
    OBVIOUS
  <2>0. n \in Nat /\ n + 1 \in Nat /\ (n + 1) - 1 = n
    OBVIOUS
  <2>1. CASE v \in V!Scalars
    <3>1. v = w
      BY <2>1, EqualCases, ScalarKind DEF V!SameArrays, V!IsArray
    <3>. QED
      BY <2>0, <2>1, <3>1, ScalarNested
  <2>2. CASE v \notin V!Scalars
    <3>1. m - 1 \in Nat /\ V!SameArrays(v, w, V!Equal[m - 1]) /\ w \in V!Nested[m]
          /\ v \in V!Nested[m]
      BY <2>2, EqualCases
    <3>2. V!IsArray(v) /\ V!IsArray(w)
      BY <3>1 DEF V!SameArrays, V!IsArray
    <3>3. /\ v = <<v[1], v[2]>> /\ Len(v[2]) <= MaxU32
          /\ v[1] = "list" => v[2] \in Seq(V!Nested[n])
          /\ v[1] = "hash" => v[2] \in Seq(V!Keys \X V!Nested[n])
      BY <2>0, <3>2, ArrayParts
    <3>4. /\ w = <<w[1], w[2]>>
          /\ w[1] = "list" => w[2] \in Seq(V!Nested[m - 1])
          /\ w[1] = "hash" => w[2] \in Seq(V!Keys \X V!Nested[m - 1])
      BY <3>1, <3>2, ArrayParts
    <3>5. ASSUME NEW p, NEW q, <<p, q>> \in V!Equal[m - 1], p \in V!Nested[n]
          PROVE  <<p, q>> \in V!Equal[n]
      BY <2>0, <3>1, <3>5
    <3>6. CASE v[2] = <<>> /\ w[2] = <<>>
      BY <2>0, <3>2, <3>3, <3>4, <3>6, EmptiesEqual
    <3>7. CASE /\ v[1] = "list" /\ w[1] = "list" /\ Len(v[2]) = Len(w[2])
               /\ \A i \in 1..Len(v[2]) : <<v[2][i], w[2][i]>> \in V!Equal[m - 1]
      <4>1. v[2] \in Seq(V!Nested[n]) /\ w[2] \in Seq(V!Nested[m - 1])
        BY <3>3, <3>4, <3>7
      <4>2. \A i \in 1..Len(v[2]) : <<v[2][i], w[2][i]>> \in V!Equal[n]
        <5>. TAKE i \in 1..Len(v[2])
        <5>1. v[2][i] \in V!Nested[n]
          BY <4>1, ElementOfSeq
        <5>2. <<v[2][i], w[2][i]>> \in V!Equal[m - 1]
          BY <3>7
        <5>. QED
          BY <3>5, <5>1, <5>2
      <4>3. <<<<"list", v[2]>>, <<"list", w[2]>>>> \in V!Equal[n + 1]
        BY <2>0, <3>3, <3>7, <4>1, <4>2, ListsEqual
      <4>. QED
        BY <3>3, <3>4, <3>7, <4>3
    <3>8. CASE /\ v[1] = "hash" /\ w[1] = "hash" /\ Len(v[2]) = Len(w[2])
               /\ \A i \in 1..Len(v[2]) : /\ v[2][i][1] = w[2][i][1]
                                          /\ <<v[2][i][2], w[2][i][2]>> \in V!Equal[m - 1]
      <4>1. v[2] \in Seq(V!Keys \X V!Nested[n]) /\ w[2] \in Seq(V!Keys \X V!Nested[m - 1])
        BY <3>3, <3>4, <3>8
      <4>2. \A i \in 1..Len(v[2]) :
                /\ v[2][i] = <<v[2][i][1], v[2][i][2]>> /\ w[2][i] = <<w[2][i][1], w[2][i][2]>>
                /\ v[2][i][1] \in V!Keys /\ v[2][i][1] = w[2][i][1]
                /\ <<v[2][i][2], w[2][i][2]>> \in V!Equal[n]
        <5>. TAKE i \in 1..Len(v[2])
        <5>1. v[2][i] \in V!Keys \X V!Nested[n] /\ w[2][i] \in V!Keys \X V!Nested[m - 1]
          BY <3>8, <4>1, ElementOfSeq
        <5>2. v[2][i][1] = w[2][i][1] /\ <<v[2][i][2], w[2][i][2]>> \in V!Equal[m - 1]
          BY <3>8
        <5>3. v[2][i][2] \in V!Nested[n] /\ v[2][i][1] \in V!Keys
          BY <5>1, PairOf
        <5>4. <<v[2][i][2], w[2][i][2]>> \in V!Equal[n]
          BY <3>5, <5>2, <5>3
        <5>5. v[2][i] = <<v[2][i][1], v[2][i][2]>> /\ w[2][i] = <<w[2][i][1], w[2][i][2]>>
          BY <5>1, PairOf
        <5>. QED
          BY <5>2, <5>3, <5>4, <5>5
      <4>3. <<<<"hash", v[2]>>, <<"hash", w[2]>>>> \in V!Equal[n + 1]
        BY <2>0, <3>3, <3>8, <4>1, <4>2, HashesEqual
      <4>. QED
        BY <3>3, <3>4, <3>8, <4>3
    <3>. QED
      BY <3>1, <3>6, <3>7, <3>8 DEF V!SameArrays
  <2>. QED
    BY <2>1, <2>2
<1>3. N = Nat
  <2>. HIDE DEF N
  <2>1. N \in SUBSET Nat
    BY DEF N
  <2>. QED
    BY <1>1, <1>2, <2>1, SetInduction
<1>. QED
  BY <1>3

\* Equality goes both ways.
LEMMA EqualBack ==
    \A n \in Nat : \A x, y : <<x, y>> \in V!Equal[n] => <<y, x>> \in V!Equal[n]
<1>. DEFINE N == {n \in Nat : \A x, y : <<x, y>> \in V!Equal[n] => <<y, x>> \in V!Equal[n]}
<1>1. 0 \in N
  <2>. SUFFICES ASSUME NEW x, NEW y, <<x, y>> \in V!Equal[0] PROVE <<y, x>> \in V!Equal[0]
    OBVIOUS
  <2>1. x \in V!Scalars /\ x = y
    BY EqualCases
  <2>. QED
    BY <2>1, ScalarNested
<1>2. ASSUME NEW n \in N PROVE n + 1 \in N
  <2>. SUFFICES ASSUME NEW x, NEW y, <<x, y>> \in V!Equal[n + 1]
                PROVE  <<y, x>> \in V!Equal[n + 1]
    OBVIOUS
  <2>0. n \in Nat /\ n + 1 \in Nat /\ (n + 1) - 1 = n
    OBVIOUS
  <2>1. x \in V!Nested[n + 1] /\ y \in V!Nested[n + 1]
    BY <2>0, EqualCases
  <2>2. CASE x \in V!Scalars /\ x = y
    BY <2>2
  <2>3. CASE V!SameArrays(x, y, V!Equal[n])
    <3>1. V!SameArrays(y, x, V!Equal[n])
      BY <2>3 DEF V!SameArrays
    <3>. QED
      BY <2>0, <2>1, <3>1, ArraysEqual
  <2>. QED
    BY <2>0, <2>2, <2>3, EqualCases
<1>3. N = Nat
  <2>. HIDE DEF N
  <2>1. N \in SUBSET Nat
    BY DEF N
  <2>. QED
    BY <1>1, <1>2, <2>1, SetInduction
<1>. QED
  BY <1>3

\* And on.
LEMMA EqualOn ==
    \A n \in Nat : \A x, y, z :
        <<x, y>> \in V!Equal[n] /\ <<y, z>> \in V!Equal[n] => <<x, z>> \in V!Equal[n]
<1>. DEFINE N == {n \in Nat : \A x, y, z :
            <<x, y>> \in V!Equal[n] /\ <<y, z>> \in V!Equal[n] => <<x, z>> \in V!Equal[n]}
<1>1. 0 \in N
  <2>. SUFFICES ASSUME NEW x, NEW y, NEW z, <<x, y>> \in V!Equal[0], <<y, z>> \in V!Equal[0]
                PROVE <<x, z>> \in V!Equal[0]
    OBVIOUS
  <2>1. y \in V!Scalars /\ x = y /\ y = z
    BY EqualCases
  <2>. QED
    BY <2>1, ScalarNested
<1>2. ASSUME NEW n \in N PROVE n + 1 \in N
  <2>. SUFFICES ASSUME NEW x, NEW y, NEW z,
                       <<x, y>> \in V!Equal[n + 1], <<y, z>> \in V!Equal[n + 1]
                PROVE  <<x, z>> \in V!Equal[n + 1]
    OBVIOUS
  <2>0. n \in Nat /\ n + 1 \in Nat /\ (n + 1) - 1 = n
    OBVIOUS
  <2>1. x \in V!Nested[n + 1] /\ y \in V!Nested[n + 1] /\ z \in V!Nested[n + 1]
    BY <2>0, EqualCases
  <2>2. CASE x = y \/ y = z
    BY <2>2
  <2>3. CASE V!SameArrays(x, y, V!Equal[n]) /\ V!SameArrays(y, z, V!Equal[n])
    <3>1. V!IsArray(x) /\ V!IsArray(y) /\ V!IsArray(z)
      BY <2>3 DEF V!SameArrays, V!IsArray
    <3>2. Len(x[2]) \in Nat /\ Len(y[2]) \in Nat /\ Len(z[2]) \in Nat
          /\ \A s \in {x[2], y[2], z[2]} : Len(s) = 0 => s = <<>>
      <4>1. \A v \in {x, y, z} : \E T : v[2] \in Seq(T)
        BY <2>0, <2>1, <3>1, ArrayParts DEF V!IsArray
      <4>. QED
        BY <4>1, EmptySeq, LenProperties
    <3>3. Len(<<>>) = 0
      OBVIOUS
    <3>4. CASE y[2] = <<>>
      <4>1. x[2] = <<>> /\ z[2] = <<>>
        BY <2>3, <3>2, <3>3, <3>4 DEF V!SameArrays
      <4>2. V!SameArrays(x, z, V!Equal[n])
        BY <3>1, <4>1 DEF V!SameArrays
      <4>. QED
        BY <2>0, <2>1, <4>2, ArraysEqual
    <3>5. CASE y[2] # <<>> /\ y[1] = "list"
      <4>1. /\ x[1] = "list" /\ Len(x[2]) = Len(y[2]) /\ z[1] = "list" /\ Len(y[2]) = Len(z[2])
            /\ \A i \in 1..Len(x[2]) : <<x[2][i], y[2][i]>> \in V!Equal[n]
            /\ \A i \in 1..Len(y[2]) : <<y[2][i], z[2][i]>> \in V!Equal[n]
        BY <2>3, <3>5 DEF V!SameArrays
      <4>2. \A i \in 1..Len(x[2]) : <<x[2][i], z[2][i]>> \in V!Equal[n]
        BY <4>1
      <4>3. V!SameArrays(x, z, V!Equal[n])
        BY <4>1, <4>2 DEF V!SameArrays
      <4>. QED
        BY <2>0, <2>1, <4>3, ArraysEqual
    <3>6. CASE y[2] # <<>> /\ y[1] = "hash"
      <4>1. /\ x[1] = "hash" /\ Len(x[2]) = Len(y[2]) /\ z[1] = "hash" /\ Len(y[2]) = Len(z[2])
            /\ \A i \in 1..Len(x[2]) : /\ x[2][i][1] = y[2][i][1]
                                       /\ <<x[2][i][2], y[2][i][2]>> \in V!Equal[n]
            /\ \A i \in 1..Len(y[2]) : /\ y[2][i][1] = z[2][i][1]
                                       /\ <<y[2][i][2], z[2][i][2]>> \in V!Equal[n]
        BY <2>3, <3>6 DEF V!SameArrays
      <4>2. \A i \in 1..Len(x[2]) : /\ x[2][i][1] = z[2][i][1]
                                    /\ <<x[2][i][2], z[2][i][2]>> \in V!Equal[n]
        <5>. TAKE i \in 1..Len(x[2])
        <5>1. x[2][i][1] = y[2][i][1] /\ <<x[2][i][2], y[2][i][2]>> \in V!Equal[n]
          BY <4>1
        <5>2. y[2][i][1] = z[2][i][1] /\ <<y[2][i][2], z[2][i][2]>> \in V!Equal[n]
          BY <4>1
        <5>3. <<x[2][i][2], z[2][i][2]>> \in V!Equal[n]
          BY <2>0, <5>1, <5>2
        <5>. QED
          BY <5>1, <5>2, <5>3
      <4>3. V!SameArrays(x, z, V!Equal[n])
        BY <4>1, <4>2 DEF V!SameArrays
      <4>. QED
        BY <2>0, <2>1, <4>3, ArraysEqual
    <3>. QED
      BY <3>1, <3>4, <3>5, <3>6 DEF V!IsArray
  <2>. QED
    BY <2>0, <2>2, <2>3, EqualCases
<1>3. N = Nat
  <2>. HIDE DEF N
  <2>1. N \in SUBSET Nat
    BY DEF N
  <2>. QED
    BY <1>1, <1>2, <2>1, SetInduction
<1>. QED
  BY <1>3
-----------------------------------------------------------------------------
(* What the encoder writes for a task, and what the task consists of.      *)

U == V!Nested[Levels]

Tasks ==
    [kind : {"value"}, what : U] \cup [kind : {"key"}, what : V!Keys]
        \cup [kind : {"long"}, what : {"int"} \X Int]
        \cup [kind : {"row"}, what : {w \in U : w[1] = "hash"}]

\* The string table of the encoder.
TabOK(tab) ==
    /\ IsFiniteSet(DOMAIN tab) /\ DOMAIN tab \subseteq Seq(Nat)
    /\ \A s \in DOMAIN tab : tab[s] \in Nat

StringToken(s, dedup, tab) ==
    IF s = <<>> THEN <<TAG_STR_EMPTY>>
    ELSE IF dedup /\ s \in DOMAIN tab THEN <<TAG_STR_REF, tab[s]>>
    ELSE <<TAG_STR_VARINT, Len(s)>> \o s

TableWith(s, dedup, tab) ==
    IF s # <<>> /\ dedup /\ s \notin DOMAIN tab
    THEN [x \in DOMAIN tab \cup {s} |-> IF x = s THEN Cardinality(DOMAIN tab) ELSE tab[x]]
    ELSE tab

IntToken(n) == <<TAG_VARINT, ZigzagEncode(n)>>

\* The form of an array where a value is called for.
FormOf(v) == IF v[1] = "hash" THEN "hash" ELSE Enc!Form(v[2])

Header(form, v) ==
    IF form = "rows" THEN <<TAG_ARRAY_ROWS, Len(v[2]), Len(v[2][1][2])>>
    ELSE <<IF form = "hash" THEN TAG_ARRAY_HASH
           ELSE IF form = "longs" THEN TAG_PACKED_LONGS
           ELSE IF form = "repeat" THEN TAG_ARRAY_REPEAT
           ELSE TAG_ARRAY_PACKED, Len(v[2])>>

ValueToken(v, dedup, tab) ==
    IF v[1] = "null" THEN <<TAG_NULL>>
    ELSE IF v[1] = "bool" THEN <<IF v[2] THEN TAG_TRUE ELSE TAG_FALSE>>
    ELSE IF v[1] = "int" THEN IntToken(v[2])
    ELSE IF v[1] = "double" THEN <<TAG_DOUBLE>> \o v[2]
    ELSE IF v[1] = "str" THEN StringToken(v[2], dedup, tab)
    ELSE Header(FormOf(v), v)

Token(t, dedup, tab) ==
    IF t.kind = "row" THEN <<>>
    ELSE IF t.kind = "long" THEN <<ZigzagEncode(t.what[2])>>
    ELSE IF t.kind = "key" /\ t.what[1] = "int" THEN IntToken(t.what[2])
    ELSE IF t.kind = "key" THEN StringToken(t.what[2], dedup, tab)
    ELSE ValueToken(t.what, dedup, tab)

TableAfter(t, dedup, tab) ==
    IF t.kind \in {"key", "value"} /\ t.what[1] = "str" THEN TableWith(t.what[2], dedup, tab)
    ELSE tab

Opens(t) == t.kind = "row" \/ (t.kind = "value" /\ V!IsArray(t.what))

PartsOf(form, w) ==
    IF form = "longs" THEN Enc!Each("long", w[2])
    ELSE IF form = "repeat" THEN <<Enc!Task("value", w[2][1])>>
    ELSE IF form = "rows" THEN Enc!Each("key", Enc!KeysOf(w[2][1])) \o Enc!Each("row", w[2])
    ELSE IF form = "hash" THEN Enc!Entries(w[2])
    ELSE IF form = "row" THEN Enc!Each("value", Enc!CellsOf(w))
    ELSE Enc!Each("value", w[2])

Parts(t) == PartsOf(IF t.kind = "row" THEN "row" ELSE FormOf(t.what), t.what)

\* A run of the encoder on a value, step by step: what is left to do, the table and
\* how much of the document is written.
ConfigOK(c) == c.todo \in Seq(Seq(Tasks)) /\ TabOK(c.tab) /\ c.at \in Nat

Spells(doc, from, bytes, to) ==
    /\ to = from + Len(bytes) /\ to <= Len(doc)
    /\ \A i \in 1..Len(bytes) : doc[from + i] = bytes[i]

Performs(dedup, doc, c, d, loop) ==
    /\ Spells(doc, c.at, Token(loop[1], dedup, c.tab), d.at)
    /\ d.tab = TableAfter(loop[1], dedup, c.tab)
    /\ d.todo = IF Opens(loop[1]) THEN Plus(Change(c.todo, Tail(loop)), Parts(loop[1]))
                ELSE Change(c.todo, Tail(loop))

Advance(dedup, doc, c, d) ==
    /\ c.todo # <<>>
    /\ IF c.todo[Len(c.todo)] = <<>> THEN d.todo = Lower(c.todo) /\ d.tab = c.tab /\ d.at = c.at
       ELSE Performs(dedup, doc, c, d, c.todo[Len(c.todo)])

Run(dedup, v, doc, g, n) ==
    /\ n \in Nat
    /\ g[0] = [todo |-> <<Enc!Each("value", <<v>>)>>, tab |-> <<>>, at |-> 0]
    /\ \A k \in 0..n : ConfigOK(g[k]) /\ g[k].at <= Len(doc)
    /\ \A k \in 0..(n - 1) : Advance(dedup, doc, g[k], g[k + 1])

-----------------------------------------------------------------------------
\* Sequences of tasks.
LEMMA EachTask ==
    ASSUME NEW kind, NEW T, NEW xs \in Seq(T)
    PROVE  /\ Len(Enc!Each(kind, xs)) = Len(xs) /\ Len(xs) \in Nat
           /\ DOMAIN Enc!Each(kind, xs) = 1..Len(xs)
           /\ \A i \in 1..Len(xs) : Enc!Each(kind, xs)[i] = Enc!Task(kind, xs[i])
           /\ Enc!Each(kind, xs) = [i \in 1..Len(xs) |-> Enc!Each(kind, xs)[i]]
<1>1. Len(xs) \in Nat
  BY LenProperties
<1>. DEFINE f == [i \in 1..Len(xs) |-> Enc!Task(kind, xs[i])]
<1>2. Enc!Each(kind, xs) = f
  BY DEF Enc!Each
<1>. DEFINE S == {Enc!Task(kind, xs[i]) : i \in 1..Len(xs)}
<1>3. f \in [1..Len(xs) -> S]
  OBVIOUS
<1>4. \A i \in 1..Len(xs) : f[i] = Enc!Task(kind, xs[i])
  OBVIOUS
<1>. HIDE DEF f, S
<1>5. Len(f) = Len(xs)
  BY <1>1, <1>3, FunctionIsSeq
<1>. QED
  BY <1>1, <1>2, <1>3, <1>4, <1>5

\* A function whose values are in a set is a sequence of its elements.
LEMMA ElementsIn ==
    ASSUME NEW k \in Nat, NEW f, f = [i \in 1..k |-> f[i]], NEW S, \A i \in 1..k : f[i] \in S
    PROVE  f \in Seq(S)
<1>1. f \in [1..k -> S]
  OBVIOUS
<1>. QED
  BY <1>1, FunctionIsSeq

\* The parts of an array.
LEMMA ArrayInU ==
    ASSUME NEW v \in U, V!IsArray(v)
    PROVE  /\ v[1] \in {"list", "hash"} /\ v = <<v[1], v[2]>>
           /\ Len(v[2]) \in Nat /\ Len(v[2]) <= MaxU32
           /\ v[1] = "list" => v[2] \in Seq(U)
           /\ v[1] = "hash" => v[2] \in Seq(V!Keys \X U)
<1>1. Levels \in Nat /\ v \in V!Nested[Levels]
  BY RoundTripAssumption DEF U
<1>2. /\ Levels - 1 \in Nat
      /\ v = <<v[1], v[2]>> /\ Len(v[2]) <= MaxU32 /\ Len(v[2]) \in Nat
      /\ v[1] = "list" => v[2] \in Seq(V!Nested[Levels - 1])
      /\ v[1] = "hash" => v[2] \in Seq(V!Keys \X V!Nested[Levels - 1])
  BY <1>1, ArrayParts
<1>0. Levels - 1 <= Levels
  BY <1>1
<1>3. V!Nested[Levels - 1] \subseteq U
  BY <1>0, <1>1, <1>2, NestedMore DEF U
<1>4. V!Keys \X V!Nested[Levels - 1] \subseteq V!Keys \X U
  BY <1>3
<1>5. v[1] = "list" => v[2] \in Seq(U)
  BY <1>2, <1>3, SeqMore
<1>6. v[1] = "hash" => v[2] \in Seq(V!Keys \X U)
  BY <1>2, <1>4, SeqMore
<1>. QED
  BY <1>2, <1>5, <1>6 DEF V!IsArray

\* A value that is an integer.
LEMMA IntInU ==
    ASSUME NEW v \in U, v[1] = "int"
    PROVE  v \in {"int"} \X Int
<1>1. v \in V!Scalars
  BY RoundTripAssumption, NestedKind DEF U, V!IsArray
<1>. QED
  BY <1>1 DEF V!Scalars

\* What the four forms of a list say about it.
LEMMA FormFacts ==
    ASSUME NEW v \in U, v[1] = "list"
    PROVE  LET items == v[2] form == Enc!Form(v[2]) IN
           /\ form \in {"longs", "repeat", "rows", "packed"} /\ FormOf(v) = form
           /\ form = "longs" => \A i \in 1..Len(items) : items[i] \in {"int"} \X Int
           /\ form = "repeat" => /\ Len(items) >= 2
                                 /\ \A i \in 1..Len(items) : SameValue(items[i], items[1])
           /\ form = "rows" => /\ Len(items) >= 2 /\ items[1][2] # <<>>
                               /\ \A i \in 1..Len(items) :
                                     /\ items[i][1] = "hash"
                                     /\ Enc!KeysOf(items[i]) = Enc!KeysOf(items[1])
<1>1. v[2] \in Seq(U)
  BY ArrayInU DEF V!IsArray
<1>2. FormOf(v) = Enc!Form(v[2])
  BY DEF FormOf
<1>3. ASSUME Enc!Form(v[2]) = "longs", NEW i \in 1..Len(v[2]) PROVE v[2][i] \in {"int"} \X Int
  <2>1. v[2][i][1] = "int" /\ v[2][i] \in U
    BY <1>1, <1>3, ElementOfSeq DEF Enc!Form, Enc!IsLongs
  <2>. QED
    BY <2>1, IntInU
<1>4. Enc!Form(v[2]) = "repeat" =>
          Len(v[2]) >= 2 /\ \A i \in 1..Len(v[2]) : SameValue(v[2][i], v[2][1])
  BY DEF Enc!Form, Enc!IsRepeat
<1>5. Enc!Form(v[2]) = "rows" => Enc!IsRowset(v[2])
  BY DEF Enc!Form
<1>6. Enc!Form(v[2]) \in {"longs", "repeat", "rows", "packed"}
  BY DEF Enc!Form
<1>. QED
  BY <1>2, <1>3, <1>4, <1>5, <1>6 DEF Enc!IsRowset

\* The keys and the cells of a row.
LEMMA RowParts ==
    ASSUME NEW w \in U, w[1] = "hash"
    PROVE  /\ Enc!KeysOf(w) \in Seq(V!Keys) /\ Len(Enc!KeysOf(w)) = Len(w[2])
           /\ \A j \in 1..Len(w[2]) : Enc!KeysOf(w)[j] = w[2][j][1]
           /\ Enc!CellsOf(w) \in Seq(U) /\ Len(Enc!CellsOf(w)) = Len(w[2])
           /\ \A j \in 1..Len(w[2]) : Enc!CellsOf(w)[j] = w[2][j][2]
<1>1. w[2] \in Seq(V!Keys \X U) /\ Len(w[2]) \in Nat
  BY ArrayInU DEF V!IsArray
<1>2. \A j \in 1..Len(w[2]) : w[2][j][1] \in V!Keys /\ w[2][j][2] \in U
  <2>. TAKE j \in 1..Len(w[2])
  <2>1. w[2][j] \in V!Keys \X U
    BY <1>1, ElementOfSeq
  <2>. QED
    BY <2>1, PairOf
<1>3. Enc!KeysOf(w) \in Seq(V!Keys) /\ Len(Enc!KeysOf(w)) = Len(w[2])
  <2>. DEFINE f == [j \in 1..Len(w[2]) |-> w[2][j][1]]
  <2>1. f \in [1..Len(w[2]) -> V!Keys]
    BY <1>2
  <2>2. Enc!KeysOf(w) = f
    BY DEF Enc!KeysOf
  <2>. HIDE DEF f
  <2>. QED
    BY <1>1, <2>1, <2>2, FunctionIsSeq
<1>4. Enc!CellsOf(w) \in Seq(U) /\ Len(Enc!CellsOf(w)) = Len(w[2])
  <2>. DEFINE f == [j \in 1..Len(w[2]) |-> w[2][j][2]]
  <2>1. f \in [1..Len(w[2]) -> U]
    BY <1>2
  <2>2. Enc!CellsOf(w) = f
    BY DEF Enc!CellsOf
  <2>. HIDE DEF f
  <2>. QED
    BY <1>1, <2>1, <2>2, FunctionIsSeq
<1>5. \A j \in 1..Len(w[2]) : Enc!KeysOf(w)[j] = w[2][j][1] /\ Enc!CellsOf(w)[j] = w[2][j][2]
  BY DEF Enc!KeysOf, Enc!CellsOf
<1>. QED
  BY <1>3, <1>4, <1>5

ValueTask(v) == Enc!Task("value", v)
KeyTask(v) == Enc!Task("key", v)
LongTask(v) == Enc!Task("long", v)
RowTask(v) == Enc!Task("row", v)

\* Which parts there are, form by form.
LEMMA PackedParts ==
    ASSUME NEW w \in U, w[1] = "list"
    PROVE  /\ PartsOf("packed", w) \in Seq(Tasks) /\ Len(PartsOf("packed", w)) = Len(w[2])
           /\ \A i \in 1..Len(w[2]) : PartsOf("packed", w)[i] = ValueTask(w[2][i])
<1>1. w[2] \in Seq(U)
  BY ArrayInU DEF V!IsArray
<1>2. PartsOf("packed", w) = Enc!Each("value", w[2])
  BY DEF PartsOf
<1>3. \A i \in 1..Len(w[2]) : ValueTask(w[2][i]) \in Tasks
  BY <1>1, ElementOfSeq DEF ValueTask, Enc!Task, Tasks
<1>4. /\ Len(Enc!Each("value", w[2])) = Len(w[2]) /\ Len(w[2]) \in Nat
      /\ Enc!Each("value", w[2]) = [i \in 1..Len(w[2]) |-> Enc!Each("value", w[2])[i]]
      /\ \A i \in 1..Len(w[2]) : Enc!Each("value", w[2])[i] = ValueTask(w[2][i])
  BY <1>1, EachTask DEF ValueTask
<1>5. Enc!Each("value", w[2]) \in Seq(Tasks)
  BY <1>3, <1>4, ElementsIn
<1>. QED
  BY <1>2, <1>4, <1>5

\* A run of longs is its items.
LEMMA LongsParts ==
    ASSUME NEW w \in U, w[1] = "list", Enc!Form(w[2]) = "longs"
    PROVE  /\ PartsOf("longs", w) \in Seq(Tasks) /\ Len(PartsOf("longs", w)) = Len(w[2])
           /\ \A i \in 1..Len(w[2]) : PartsOf("longs", w)[i] = LongTask(w[2][i])
<1>1. w[2] \in Seq(U)
  BY ArrayInU DEF V!IsArray
<1>2. PartsOf("longs", w) = Enc!Each("long", w[2])
  BY DEF PartsOf
<1>3. \A i \in 1..Len(w[2]) : LongTask(w[2][i]) \in Tasks
  <2>. TAKE i \in 1..Len(w[2])
  <2>1. w[2][i] \in {"int"} \X Int
    BY FormFacts
  <2>. QED
    BY <2>1 DEF LongTask, Enc!Task, Tasks
<1>4. /\ Len(Enc!Each("long", w[2])) = Len(w[2]) /\ Len(w[2]) \in Nat
      /\ Enc!Each("long", w[2]) = [i \in 1..Len(w[2]) |-> Enc!Each("long", w[2])[i]]
      /\ \A i \in 1..Len(w[2]) : Enc!Each("long", w[2])[i] = LongTask(w[2][i])
  BY <1>1, EachTask DEF LongTask
<1>5. Enc!Each("long", w[2]) \in Seq(Tasks)
  BY <1>3, <1>4, ElementsIn
<1>. QED
  BY <1>2, <1>4, <1>5

\* A repeat is its first element.
LEMMA RepeatParts ==
    ASSUME NEW w \in U, w[1] = "list", Enc!Form(w[2]) = "repeat"
    PROVE  /\ PartsOf("repeat", w) \in Seq(Tasks) /\ Len(PartsOf("repeat", w)) = 1
           /\ PartsOf("repeat", w)[1] = ValueTask(w[2][1])
<1>1. w[2] \in Seq(U) /\ Len(w[2]) \in Nat /\ Len(w[2]) >= 2
  BY ArrayInU, FormFacts DEF V!IsArray
<1>2. w[2][1] \in U
  BY <1>1, ElementOfSeq
<1>3. PartsOf("repeat", w) = <<ValueTask(w[2][1])>>
  BY DEF PartsOf, ValueTask
<1>4. ValueTask(w[2][1]) \in Tasks
  BY <1>2 DEF ValueTask, Enc!Task, Tasks
<1>5. \A t : t \in Tasks => <<t>> \in Seq(Tasks) /\ Len(<<t>>) = 1 /\ <<t>>[1] = t
  OBVIOUS
<1>. QED
  BY <1>3, <1>4, <1>5

\* A row of a rowset is its cells.
LEMMA CellParts ==
    ASSUME NEW w \in U, w[1] = "hash"
    PROVE  /\ PartsOf("row", w) \in Seq(Tasks) /\ Len(PartsOf("row", w)) = Len(w[2])
           /\ \A i \in 1..Len(w[2]) : PartsOf("row", w)[i] = ValueTask(w[2][i][2])
<1>1. /\ Enc!CellsOf(w) \in Seq(U) /\ Len(Enc!CellsOf(w)) = Len(w[2])
      /\ \A j \in 1..Len(w[2]) : Enc!CellsOf(w)[j] = w[2][j][2]
  BY RowParts
<1>2. PartsOf("row", w) = Enc!Each("value", Enc!CellsOf(w))
  BY DEF PartsOf
<1>3. \A i \in 1..Len(Enc!CellsOf(w)) : ValueTask(Enc!CellsOf(w)[i]) \in Tasks
  BY <1>1, ElementOfSeq DEF ValueTask, Enc!Task, Tasks
<1>4. /\ Len(Enc!Each("value", Enc!CellsOf(w))) = Len(Enc!CellsOf(w)) /\ Len(Enc!CellsOf(w)) \in Nat
      /\ Enc!Each("value", Enc!CellsOf(w)) =
            [i \in 1..Len(Enc!CellsOf(w)) |-> Enc!Each("value", Enc!CellsOf(w))[i]]
      /\ \A i \in 1..Len(Enc!CellsOf(w)) :
            Enc!Each("value", Enc!CellsOf(w))[i] = ValueTask(Enc!CellsOf(w)[i])
  BY <1>1, EachTask DEF ValueTask
<1>5. Enc!Each("value", Enc!CellsOf(w)) \in Seq(Tasks)
  BY <1>3, <1>4, ElementsIn
<1>. QED
  BY <1>1, <1>2, <1>4, <1>5

\* A rowset is the keys of its first row, and then its rows.
LEMMA RowsParts ==
    ASSUME NEW w \in U, w[1] = "list", Enc!Form(w[2]) = "rows"
    PROVE  LET cols == Len(w[2][1][2]) IN
           /\ PartsOf("rows", w) \in Seq(Tasks) /\ cols \in Nat
           /\ Len(PartsOf("rows", w)) = cols + Len(w[2])
           /\ \A j \in 1..cols : PartsOf("rows", w)[j] = KeyTask(w[2][1][2][j][1])
           /\ \A i \in 1..Len(w[2]) : PartsOf("rows", w)[cols + i] = RowTask(w[2][i])
<1>1. w[2] \in Seq(U) /\ Len(w[2]) \in Nat /\ Len(w[2]) >= 2
      /\ \A i \in 1..Len(w[2]) : w[2][i][1] = "hash"
  BY ArrayInU, FormFacts DEF V!IsArray
<1>2. \A i \in 1..Len(w[2]) : w[2][i] \in U
  BY <1>1, ElementOfSeq
<1>3. w[2][1] \in U /\ w[2][1][1] = "hash"
  BY <1>1, <1>2
<1>. DEFINE first == w[2][1]
            keys == Enc!KeysOf(first)
            a == Enc!Each("key", keys)
            b == Enc!Each("row", w[2])
<1>4. keys \in Seq(V!Keys) /\ Len(keys) = Len(first[2]) /\ Len(keys) \in Nat
      /\ \A j \in 1..Len(first[2]) : keys[j] = first[2][j][1]
  BY <1>3, RowParts, LenProperties
<1>5. \A j \in 1..Len(keys) : KeyTask(keys[j]) \in Tasks
  BY <1>4, ElementOfSeq DEF KeyTask, Enc!Task, Tasks
<1>6. \A i \in 1..Len(w[2]) : RowTask(w[2][i]) \in Tasks
  BY <1>1, <1>2 DEF RowTask, Enc!Task, Tasks
<1>7. a \in Seq(Tasks) /\ Len(a) = Len(keys) /\ \A i \in 1..Len(keys) : a[i] = KeyTask(keys[i])
  <2>1. /\ Len(a) = Len(keys) /\ Len(keys) \in Nat /\ a = [i \in 1..Len(keys) |-> a[i]]
        /\ \A i \in 1..Len(keys) : a[i] = KeyTask(keys[i])
    BY <1>1, <1>4, EachTask DEF KeyTask
  <2>2. a \in Seq(Tasks)
    <3>. HIDE DEF a, keys
    <3>. QED
      BY <1>5, <1>6, <2>1, ElementsIn
  <2>. QED
    BY <2>1, <2>2
<1>8. b \in Seq(Tasks) /\ Len(b) = Len(w[2]) /\ \A i \in 1..Len(w[2]) : b[i] = RowTask(w[2][i])
  <2>1. /\ Len(b) = Len(w[2]) /\ Len(w[2]) \in Nat /\ b = [i \in 1..Len(w[2]) |-> b[i]]
        /\ \A i \in 1..Len(w[2]) : b[i] = RowTask(w[2][i])
    <3>1. w[2] \in Seq(U)
      BY <1>1
    <3>. QED
      BY <3>1, EachTask DEF RowTask
  <2>2. b \in Seq(Tasks)
    <3>. HIDE DEF b, keys
    <3>. QED
      BY <1>5, <1>6, <2>1, ElementsIn
  <2>. QED
    BY <2>1, <2>2
<1>9. PartsOf("rows", w) = a \o b
  BY DEF PartsOf
<1>. HIDE DEF a, b, keys
<1>13. \A p, q \in Seq(Tasks) :
           /\ p \o q \in Seq(Tasks) /\ Len(p \o q) = Len(p) + Len(q)
           /\ \A i \in 1..(Len(p) + Len(q)) :
                 (p \o q)[i] = IF i <= Len(p) THEN p[i] ELSE q[i - Len(p)]
  BY ConcatProperties
<1>10. /\ a \o b \in Seq(Tasks) /\ Len(a \o b) = Len(a) + Len(b)
       /\ \A i \in 1..(Len(a) + Len(b)) :
             (a \o b)[i] = IF i <= Len(a) THEN a[i] ELSE b[i - Len(a)]
  BY <1>7, <1>8, <1>13
<1>11. \A j \in 1..Len(first[2]) : (a \o b)[j] = KeyTask(first[2][j][1])
  BY <1>1, <1>4, <1>7, <1>8, <1>10
<1>12. ASSUME NEW i \in 1..Len(w[2]) PROVE (a \o b)[Len(first[2]) + i] = RowTask(w[2][i])
  <2>1. Len(keys) + i \in 1..(Len(a) + Len(b)) /\ ~(Len(keys) + i <= Len(a))
        /\ (Len(keys) + i) - Len(a) = i
    BY <1>1, <1>4, <1>7, <1>8
  <2>. QED
    BY <1>4, <1>8, <1>10, <2>1
<1>. QED
  BY <1>4, <1>7, <1>8, <1>9, <1>10, <1>11, <1>12

\* A hash is its keys and values in turns.
LEMMA EntryParts ==
    ASSUME NEW w \in U, w[1] = "hash"
    PROVE  /\ PartsOf("hash", w) \in Seq(Tasks) /\ Len(PartsOf("hash", w)) = 2 * Len(w[2])
           /\ \A i \in 1..Len(w[2]) :
                 /\ PartsOf("hash", w)[2 * i - 1] = KeyTask(w[2][i][1])
                 /\ PartsOf("hash", w)[2 * i] = ValueTask(w[2][i][2])
<1>1. w[2] \in Seq(V!Keys \X U) /\ Len(w[2]) \in Nat
  BY ArrayInU DEF V!IsArray
<1>2. \A i \in 1..Len(w[2]) : w[2][i][1] \in V!Keys /\ w[2][i][2] \in U
  <2>. TAKE j \in 1..Len(w[2])
  <2>1. w[2][j] \in V!Keys \X U
    BY <1>1, ElementOfSeq
  <2>. QED
    BY <2>1, PairOf
<1>. DEFINE f == [j \in 1..(2 * Len(w[2])) |->
                     IF j % 2 = 1 THEN KeyTask(w[2][(j + 1) \div 2][1])
                                  ELSE ValueTask(w[2][j \div 2][2])]
<1>3. PartsOf("hash", w) = f
  BY DEF PartsOf, Enc!Entries, KeyTask, ValueTask
<1>4. ASSUME NEW j \in 1..(2 * Len(w[2])) PROVE f[j] \in Tasks
  <2>1. CASE j % 2 = 1
    <3>1. (j + 1) \div 2 \in 1..Len(w[2])
      BY <1>1, <2>1
    <3>2. KeyTask(w[2][(j + 1) \div 2][1]) \in Tasks
      BY <1>2, <3>1 DEF KeyTask, Enc!Task, Tasks
    <3>. QED
      BY <2>1, <3>2
  <2>2. CASE j % 2 # 1
    <3>1. j \div 2 \in 1..Len(w[2])
      BY <1>1, <2>2
    <3>2. ValueTask(w[2][j \div 2][2]) \in Tasks
      BY <1>2, <3>1 DEF ValueTask, Enc!Task, Tasks
    <3>. QED
      BY <2>2, <3>2
  <2>. QED
    BY <2>1, <2>2
<1>5. ASSUME NEW i \in 1..Len(w[2])
      PROVE  f[2 * i - 1] = KeyTask(w[2][i][1]) /\ f[2 * i] = ValueTask(w[2][i][2])
  <2>1. /\ 2 * i - 1 \in 1..(2 * Len(w[2])) /\ 2 * i \in 1..(2 * Len(w[2]))
        /\ (2 * i - 1) % 2 = 1 /\ ((2 * i - 1) + 1) \div 2 = i
        /\ (2 * i) % 2 # 1 /\ (2 * i) \div 2 = i
    BY <1>1
  <2>. QED
    BY <2>1
<1>6. f \in Seq(Tasks) /\ Len(f) = 2 * Len(w[2])
  <2>1. f \in [1..(2 * Len(w[2])) -> Tasks]
    BY <1>4
  <2>2. 2 * Len(w[2]) \in Nat
    BY <1>1
  <2>. HIDE DEF f
  <2>. QED
    BY <2>1, <2>2, FunctionIsSeq
<1>. QED
  BY <1>3, <1>5, <1>6
-----------------------------------------------------------------------------
(* The bytes of a task.                                                    *)

\* The content of a value by its kind.
LEMMA ScalarContent ==
    ASSUME NEW v \in U
    PROVE  /\ v[1] \in {"null", "bool", "int", "str", "double", "list", "hash"}
           /\ v[1] = "null" => v = <<"null">>
           /\ v[1] = "bool" => v[2] \in BOOLEAN /\ v = <<"bool", v[2]>>
           /\ v[1] = "int" => v[2] \in Int /\ v = <<"int", v[2]>>
           /\ v[1] = "str" => v[2] \in Seq(Nat) /\ v = <<"str", v[2]>>
           /\ v[1] = "double" => v[2] \in Seq(Nat) /\ Len(v[2]) = DoubleWidth /\ v = <<"double", v[2]>>
           /\ V!IsArray(v) <=> v[1] \in {"list", "hash"}
           /\ ~V!IsArray(v) => v \in V!Scalars
<1>1. v \in V!Scalars \/ V!IsArray(v)
  BY RoundTripAssumption, NestedKind DEF U
<1>2. CASE v \in V!Scalars
  BY <1>2 DEF V!Scalars, V!IsArray
<1>3. CASE V!IsArray(v)
  BY <1>3 DEF V!IsArray
<1>. QED
  BY <1>1, <1>2, <1>3

\* The bytes of a string and of an integer.
LEMMA StringTokenIs ==
    ASSUME NEW s \in Seq(Nat), NEW dedup \in BOOLEAN, NEW tab, TabOK(tab)
    PROVE  /\ StringToken(s, dedup, tab) \in Seq(Nat)
           /\ Len(StringToken(s, dedup, tab)) \in Nat \ {0}
<1>1. Len(s) \in Nat
  BY LenProperties
<1>2. CASE s = <<>>
  BY <1>2 DEF StringToken, TAG_STR_EMPTY
<1>3. CASE s # <<>> /\ dedup /\ s \in DOMAIN tab
  <2>1. tab[s] \in Nat
    BY <1>3 DEF TabOK
  <2>. QED
    BY <1>3, <2>1 DEF StringToken, TAG_STR_REF
<1>4. CASE s # <<>> /\ ~(dedup /\ s \in DOMAIN tab)
  <2>1. <<TAG_STR_VARINT, Len(s)>> \in Seq(Nat) /\ Len(<<TAG_STR_VARINT, Len(s)>>) = 2
    BY <1>1 DEF TAG_STR_VARINT
  <2>2. /\ <<TAG_STR_VARINT, Len(s)>> \o s \in Seq(Nat)
        /\ Len(<<TAG_STR_VARINT, Len(s)>> \o s) = 2 + Len(s)
    BY <2>1, ConcatProperties
  <2>. QED
    BY <1>1, <1>4, <2>2 DEF StringToken
<1>. QED
  BY <1>2, <1>3, <1>4

\* Zigzag gives a number that is decoded to the integer (encoder.rs:62, varint.rs).
LEMMA ZigzagIs ==
    ASSUME NEW n \in Int
    PROVE  ZigzagEncode(n) \in Nat /\ ZigzagDecode(ZigzagEncode(n)) = n
<1>1. CASE n >= 0
  <2>1. ZigzagEncode(n) = 2 * n /\ 2 * n \in Nat
    BY <1>1 DEF ZigzagEncode
  <2>2. (2 * n) % 2 = 0 /\ (2 * n) \div 2 = n
    BY <1>1
  <2>. QED
    BY <2>1, <2>2 DEF ZigzagDecode
<1>2. CASE n < 0
  <2>1. ZigzagEncode(n) = -2 * n - 1 /\ -2 * n - 1 \in Nat
    BY <1>2 DEF ZigzagEncode
  <2>2. (-2 * n - 1) % 2 = 1 /\ ((-2 * n - 1) + 1) \div 2 = -n
    BY <1>2
  <2>3. -(-n) = n
    OBVIOUS
  <2>. QED
    BY <2>1, <2>2, <2>3 DEF ZigzagDecode
<1>. QED
  BY <1>1, <1>2

\* The two bytes of an integer.
LEMMA IntTokenIs ==
    ASSUME NEW n \in Int
    PROVE  IntToken(n) \in Seq(Nat) /\ Len(IntToken(n)) = 2
           /\ IntToken(n)[1] = TAG_VARINT /\ IntToken(n)[2] = ZigzagEncode(n)
BY ZigzagIs DEF IntToken, TAG_VARINT

\* What an array begins with.
LEMMA HeaderIs ==
    ASSUME NEW v \in U, V!IsArray(v)
    PROVE  LET form == FormOf(v) t == Header(form, v) IN
           /\ form \in {"hash", "longs", "repeat", "rows", "packed"}
           /\ form = "hash" <=> v[1] = "hash"
           /\ form # "hash" => v[1] = "list" /\ form = Enc!Form(v[2])
           /\ t \in Seq(Nat)
           /\ form = "rows" => /\ Len(t) = 3 /\ t[1] = TAG_ARRAY_ROWS /\ t[2] = Len(v[2])
                               /\ t[3] = Len(v[2][1][2]) /\ Len(v[2][1][2]) \in Nat \ {0}
           /\ form # "rows" => /\ Len(t) = 2 /\ t[2] = Len(v[2])
                               /\ form = "hash" => t[1] = TAG_ARRAY_HASH
                               /\ form = "longs" => t[1] = TAG_PACKED_LONGS
                               /\ form = "repeat" => t[1] = TAG_ARRAY_REPEAT
                               /\ form = "packed" => t[1] = TAG_ARRAY_PACKED
<1>. DEFINE form == FormOf(v)
<1>1. v[1] \in {"list", "hash"} /\ Len(v[2]) \in Nat
  BY ArrayInU
<1>2. /\ v[1] = "list" => form = Enc!Form(v[2]) /\ form \in {"longs", "repeat", "rows", "packed"}
      /\ v[1] = "hash" => form = "hash"
  BY FormFacts DEF FormOf
<1>3. ASSUME form = "rows" PROVE Len(v[2][1][2]) \in Nat \ {0}
  <2>1. v[1] = "list" /\ Enc!Form(v[2]) = "rows"
    BY <1>1, <1>2, <1>3
  <2>2. Len(v[2]) >= 2 /\ v[2][1][2] # <<>> /\ \A i \in 1..Len(v[2]) : v[2][i][1] = "hash"
    BY <2>1, FormFacts
  <2>3. v[2] \in Seq(U)
    BY <2>1, ArrayInU
  <2>4. 1 \in 1..Len(v[2])
    BY <1>1, <2>2
  <2>5. v[2][1] \in U /\ v[2][1][1] = "hash"
    BY <2>2, <2>3, <2>4, ElementOfSeq
  <2>6. v[2][1][2] \in Seq(V!Keys \X U) /\ Len(v[2][1][2]) \in Nat
    BY <2>5, ArrayInU DEF V!IsArray
  <2>7. Len(v[2][1][2]) # 0
    BY <2>2, <2>6, EmptySeq
  <2>. QED
    BY <2>6, <2>7
<1>. HIDE DEF form
<1>4. CASE form = "rows"
  <2>1. Header(form, v) = <<TAG_ARRAY_ROWS, Len(v[2]), Len(v[2][1][2])>>
    BY <1>4 DEF Header
  <2>. QED
    <3>1. v[1] = "list" /\ form = Enc!Form(v[2])
      BY <1>1, <1>2, <1>4
    <3>2. /\ Header(form, v) \in Seq(Nat) /\ Len(Header(form, v)) = 3
          /\ Header(form, v)[1] = TAG_ARRAY_ROWS /\ Header(form, v)[2] = Len(v[2])
          /\ Header(form, v)[3] = Len(v[2][1][2]) /\ Len(v[2][1][2]) \in Nat \ {0}
      <4>. DEFINE n == Len(v[2])
                  c == Len(v[2][1][2])
      <4>1. n \in Nat /\ c \in Nat \ {0} /\ Header(form, v) = <<TAG_ARRAY_ROWS, n, c>>
        BY <1>1, <1>3, <1>4, <2>1
      <4>. HIDE DEF n, c
      <4>2. /\ Header(form, v) \in Seq(Nat) /\ Len(Header(form, v)) = 3
            /\ Header(form, v)[1] = TAG_ARRAY_ROWS /\ Header(form, v)[2] = n
            /\ Header(form, v)[3] = c
        BY ONLY <4>1 DEF TAG_ARRAY_ROWS
      <4>. QED
        BY <4>1, <4>2 DEF n, c
    <3>. QED
      BY <1>4, <3>1, <3>2 DEF form
<1>5. CASE form # "rows"
  <2>. DEFINE tag == IF form = "hash" THEN TAG_ARRAY_HASH
                     ELSE IF form = "longs" THEN TAG_PACKED_LONGS
                     ELSE IF form = "repeat" THEN TAG_ARRAY_REPEAT
                     ELSE TAG_ARRAY_PACKED
  <2>1. Header(form, v) = <<tag, Len(v[2])>>
    BY <1>5 DEF Header
  <2>2. tag \in Nat
    BY DEF TAG_ARRAY_HASH, TAG_PACKED_LONGS, TAG_ARRAY_REPEAT, TAG_ARRAY_PACKED
  <2>3. /\ form = "hash" => tag = TAG_ARRAY_HASH
        /\ form = "longs" => tag = TAG_PACKED_LONGS
        /\ form = "repeat" => tag = TAG_ARRAY_REPEAT
        /\ form = "packed" => tag = TAG_ARRAY_PACKED
    OBVIOUS
  <2>. HIDE DEF tag
  <2>4. /\ Header(form, v) \in Seq(Nat) /\ Len(Header(form, v)) = 2
        /\ Header(form, v)[1] = tag /\ Header(form, v)[2] = Len(v[2])
    BY <1>1, <2>1, <2>2
  <2>. QED
    BY <1>1, <1>2, <1>5, <2>3, <2>4 DEF form
<1>. QED
  BY <1>4, <1>5

\* Everything that is written takes a byte at least.
LEMMA TokenIs ==
    ASSUME NEW t \in Tasks, t.kind # "row", NEW dedup \in BOOLEAN, NEW tab, TabOK(tab)
    PROVE  Token(t, dedup, tab) \in Seq(Nat) /\ Len(Token(t, dedup, tab)) \in Nat \ {0}
<1>1. CASE t.kind = "value"
  <2>. DEFINE v == t.what
  <2>1. v \in U
    BY <1>1 DEF Tasks
  <2>2. Token(t, dedup, tab) = ValueToken(v, dedup, tab)
    BY <1>1 DEF Token
  <2>. HIDE DEF v
  <2>3. CASE V!IsArray(v)
    <3>1. ValueToken(v, dedup, tab) = Header(FormOf(v), v)
      BY <2>3 DEF ValueToken, V!IsArray
    <3>. QED
      BY <2>1, <2>2, <2>3, <3>1, HeaderIs
  <2>4. CASE v[1] = "null" \/ v[1] = "bool"
    BY <2>2, <2>4 DEF ValueToken, TAG_NULL, TAG_TRUE, TAG_FALSE
  <2>5. CASE v[1] = "int"
    <3>1. v[2] \in Int
      BY <2>1, <2>5, ScalarContent
    <3>2. Token(t, dedup, tab) = IntToken(v[2])
      BY <2>2, <2>5 DEF ValueToken
    <3>3. IntToken(v[2]) \in Seq(Nat) /\ Len(IntToken(v[2])) = 2
      BY <3>1, IntTokenIs
    <3>. QED
      BY <3>2, <3>3
  <2>6. CASE v[1] = "double"
    <3>1. v[2] \in Seq(Nat) /\ Len(v[2]) \in Nat
      BY <2>1, <2>6, ScalarContent, LenProperties
    <3>2. <<TAG_DOUBLE>> \in Seq(Nat) /\ Len(<<TAG_DOUBLE>>) = 1
      BY DEF TAG_DOUBLE
    <3>3. <<TAG_DOUBLE>> \o v[2] \in Seq(Nat) /\ Len(<<TAG_DOUBLE>> \o v[2]) = 1 + Len(v[2])
      BY <3>1, <3>2, ConcatProperties
    <3>4. Token(t, dedup, tab) = <<TAG_DOUBLE>> \o v[2]
      BY <2>2, <2>6 DEF ValueToken
    <3>. QED
      BY <3>1, <3>3, <3>4
  <2>7. CASE v[1] = "str"
    <3>1. v[2] \in Seq(Nat)
      BY <2>1, <2>7, ScalarContent
    <3>2. Token(t, dedup, tab) = StringToken(v[2], dedup, tab)
      BY <2>2, <2>7 DEF ValueToken
    <3>. QED
      BY <3>1, <3>2, StringTokenIs
  <2>. QED
    BY <2>1, <2>3, <2>4, <2>5, <2>6, <2>7, ScalarContent
<1>2. CASE t.kind = "key"
  <2>1. t.what \in V!Keys
    BY <1>2 DEF Tasks
  <2>2. CASE t.what[1] = "int"
    <3>1. t.what[2] \in Int
      BY <2>1, <2>2 DEF V!Keys
    <3>2. Token(t, dedup, tab) = IntToken(t.what[2])
      BY <1>2, <2>2 DEF Token
    <3>3. IntToken(t.what[2]) \in Seq(Nat) /\ Len(IntToken(t.what[2])) = 2
      BY <3>1, IntTokenIs
    <3>. QED
      BY <3>2, <3>3
  <2>3. CASE t.what[1] # "int"
    <3>1. t.what[2] \in Seq(Nat)
      BY <2>1, <2>3 DEF V!Keys
    <3>2. Token(t, dedup, tab) = StringToken(t.what[2], dedup, tab)
      BY <1>2, <2>3 DEF Token
    <3>. QED
      BY <3>1, <3>2, StringTokenIs
  <2>. QED
    BY <2>2, <2>3
<1>3. CASE t.kind = "long"
  <2>1. t.what[2] \in Int
    BY <1>3 DEF Tasks
  <2>2. Token(t, dedup, tab) = <<ZigzagEncode(t.what[2])>>
    BY <1>3 DEF Token
  <2>. QED
    BY <2>1, <2>2, ZigzagIs
<1>. QED
  BY <1>1, <1>2, <1>3 DEF Tasks
-----------------------------------------------------------------------------
(* Runs, and how much of a document the rest of an array takes.            *)

\* A loop on top of others.
LEMMA PlusTop ==
    ASSUME NEW s \in Seq(Seq(Tasks)), NEW x \in Seq(Tasks)
    PROVE  /\ Plus(s, x) \in Seq(Seq(Tasks)) /\ Plus(s, x) # <<>>
           /\ Plus(s, x)[Len(Plus(s, x))] = x /\ Lower(Plus(s, x)) = s
           /\ \A y \in Seq(Tasks) : Change(Plus(s, x), y) = Plus(s, y)
<1>. DEFINE p == Plus(s, x)
            T == Seq(Tasks)
<1>0. s \in Seq(T) /\ x \in T
  OBVIOUS
<1>. HIDE DEF T
<1>1. /\ p \in Seq(T) /\ Len(p) = Len(s) + 1
      /\ \A i \in 1..Len(s) : p[i] = s[i]
      /\ p[Len(s) + 1] = x
  BY <1>0, SeqPlus
<1>. HIDE DEF p
<1>2. Len(s) \in Nat
  BY <1>0, LenProperties
<1>3. p # <<>> /\ p[Len(p)] = x
  BY <1>1, <1>2
<1>4. Lower(p) = s
  <2>1. /\ Lower(p) \in Seq(T) /\ Len(Lower(p)) = Len(p) - 1
        /\ \A i \in 1..(Len(p) - 1) : Lower(p)[i] = p[i]
    BY <1>1, <1>3, SeqTop
  <2>2. Len(p) - 1 = Len(s)
    BY <1>1, <1>2
  <2>. QED
    BY <1>0, <1>1, <2>1, <2>2, SeqEqual
<1>5. \A y \in Seq(Tasks) : Change(p, y) = Plus(s, y)
  BY <1>1, <1>3, <1>4, ChangeIsPlus DEF T
<1>. QED
  BY <1>1, <1>3, <1>4, <1>5 DEF p, T

\* A loop over a things, and then over m rows of c cells each.
Shape(loop, a, m, c) ==
    /\ loop \in Seq(Tasks) /\ a \in Nat /\ m \in Nat /\ c \in Nat /\ Len(loop) = a + m
    /\ \A i \in 1..Len(loop) :
          IF i <= a THEN loop[i].kind # "row"
          ELSE loop[i].kind = "row" /\ Len(loop[i].what[2]) = c

\* What is left of a shape after its first element.
LEMMA ShapeTail ==
    ASSUME NEW loop, NEW a, NEW m, NEW c, Shape(loop, a, m, c), loop # <<>>
    PROVE  /\ loop[1] \in Tasks
           /\ IF a > 0 THEN loop[1].kind # "row" /\ Shape(Tail(loop), a - 1, m, c)
              ELSE /\ m > 0 /\ loop[1].kind = "row" /\ Len(loop[1].what[2]) = c
                   /\ Shape(Tail(loop), 0, m - 1, c)
<1>1. /\ loop \in Seq(Tasks) /\ a \in Nat /\ m \in Nat /\ c \in Nat /\ Len(loop) = a + m
      /\ \A i \in 1..Len(loop) :
            IF i <= a THEN loop[i].kind # "row"
            ELSE loop[i].kind = "row" /\ Len(loop[i].what[2]) = c
  BY DEF Shape
<1>2. Len(loop) \in Nat \ {0} /\ 1 \in 1..Len(loop)
  BY <1>1, EmptySeq
<1>3. loop[1] \in Tasks
  BY <1>1, <1>2, ElementOfSeq
<1>4. /\ Tail(loop) \in Seq(Tasks) /\ Len(Tail(loop)) = Len(loop) - 1
      /\ \A j \in 1..Len(Tail(loop)) : Tail(loop)[j] = loop[j + 1]
  BY <1>1, HeadTailProperties
<1>5. \A j \in 1..Len(Tail(loop)) : j + 1 \in 1..Len(loop)
  BY <1>2, <1>4
<1>6. CASE a > 0
  <2>1. 1 <= a /\ a - 1 \in Nat /\ Len(Tail(loop)) = (a - 1) + m
    BY <1>1, <1>4, <1>6
  <2>2. \A j \in Nat : j <= a - 1 <=> j + 1 <= a
    BY <1>1
  <2>3. ASSUME NEW j \in 1..Len(Tail(loop))
        PROVE  IF j <= a - 1 THEN Tail(loop)[j].kind # "row"
               ELSE Tail(loop)[j].kind = "row" /\ Len(Tail(loop)[j].what[2]) = c
    <3>1. j + 1 \in 1..Len(loop) /\ Tail(loop)[j] = loop[j + 1] /\ (j <= a - 1 <=> j + 1 <= a)
      BY <1>4, <1>5, <2>2
    <3>. QED
      BY <1>1, <3>1
  <2>4. Shape(Tail(loop), a - 1, m, c)
    BY <1>1, <1>4, <2>1, <2>3 DEF Shape
  <2>. QED
    BY <1>1, <1>2, <1>3, <1>6, <2>1, <2>4
<1>7. CASE ~(a > 0)
  <2>1. a = 0 /\ m > 0 /\ m - 1 \in Nat /\ Len(Tail(loop)) = 0 + (m - 1)
    BY <1>1, <1>2, <1>4, <1>7
  <2>2. ASSUME NEW j \in 1..Len(Tail(loop))
        PROVE  ~(j <= 0) /\ Tail(loop)[j].kind = "row" /\ Len(Tail(loop)[j].what[2]) = c
    <3>1. j + 1 \in 1..Len(loop) /\ Tail(loop)[j] = loop[j + 1] /\ ~(j + 1 <= a) /\ ~(j <= 0)
      BY <1>4, <1>5, <2>1
    <3>. QED
      BY <1>1, <3>1
  <2>3. Shape(Tail(loop), 0, m - 1, c)
    BY <1>1, <1>4, <2>1, <2>2 DEF Shape
  <2>4. ~(1 <= a)
    BY <2>1
  <2>. QED
    BY <1>1, <1>2, <1>3, <1>7, <2>1, <2>3, <2>4
<1>. QED
  BY <1>6, <1>7

\* The shape of what an array consists of.
LEMMA PartsShape ==
    ASSUME NEW w \in U, V!IsArray(w)
    PROVE  LET form == FormOf(w) s == PartsOf(form, w) IN
           /\ form = "rows" => Shape(s, Len(w[2][1][2]), Len(w[2]), Len(w[2][1][2]))
           /\ form = "hash" => Shape(s, 2 * Len(w[2]), 0, 0)
           /\ form = "repeat" => Shape(s, 1, 0, 0)
           /\ form \in {"packed", "longs"} => Shape(s, Len(w[2]), 0, 0)
<1>. DEFINE form == FormOf(w)
            s == PartsOf(form, w)
<1>1. /\ form = "hash" <=> w[1] = "hash"
      /\ form # "hash" => w[1] = "list" /\ form = Enc!Form(w[2])
      /\ Len(w[2]) \in Nat
  BY HeaderIs, ArrayInU
<1>2. \A x : ValueTask(x).kind # "row" /\ KeyTask(x).kind # "row" /\ LongTask(x).kind # "row"
  BY DEF ValueTask, KeyTask, LongTask, Enc!Task
<1>3. \A x : RowTask(x).kind = "row" /\ RowTask(x).what = x
  BY DEF RowTask, Enc!Task
<1>4. CASE form = "rows"
  <2>. DEFINE c == Len(w[2][1][2])
  <2>1. /\ s \in Seq(Tasks) /\ c \in Nat /\ Len(s) = c + Len(w[2])
        /\ \A j \in 1..c : s[j] = KeyTask(w[2][1][2][j][1])
        /\ \A i \in 1..Len(w[2]) : s[c + i] = RowTask(w[2][i])
    BY <1>1, <1>4, RowsParts
  <2>2. \A i \in 1..Len(w[2]) : Len(w[2][i][2]) = c
    <3>. TAKE i \in 1..Len(w[2])
    <3>1. /\ w[2] \in Seq(U) /\ 1 \in 1..Len(w[2])
          /\ w[2][i][1] = "hash" /\ w[2][1][1] = "hash"
          /\ Enc!KeysOf(w[2][i]) = Enc!KeysOf(w[2][1])
      <4>1. 1 \in 1..Len(w[2])
        BY <1>1
      <4>. QED
        BY <1>1, <1>4, <4>1, ArrayInU, FormFacts
    <3>2. w[2][i] \in U /\ w[2][1] \in U
      BY <3>1, ElementOfSeq
    <3>3. Len(Enc!KeysOf(w[2][i])) = Len(w[2][i][2])
      BY <3>1, <3>2, RowParts
    <3>4. Len(Enc!KeysOf(w[2][1])) = c
      BY <3>1, <3>2, RowParts
    <3>. QED
      BY <3>1, <3>3, <3>4
  <2>. HIDE DEF s, c
  <2>3. ASSUME NEW i \in 1..Len(s)
        PROVE  IF i <= c THEN s[i].kind # "row"
               ELSE s[i].kind = "row" /\ Len(s[i].what[2]) = c
    <3>1. CASE i <= c
      <4>1. i \in 1..c
        BY <2>1, <3>1
      <4>. QED
        BY <1>2, <2>1, <3>1, <4>1
    <3>2. CASE ~(i <= c)
      <4>1. i - c \in 1..Len(w[2]) /\ c + (i - c) = i
        BY <1>1, <2>1, <3>2
      <4>2. s[i] = RowTask(w[2][i - c])
        BY <2>1, <4>1
      <4>. QED
        BY <1>3, <2>2, <3>2, <4>1, <4>2
    <3>. QED
      BY <3>1, <3>2
  <2>4. Shape(s, c, Len(w[2]), c)
    BY <1>1, <2>1, <2>3 DEF Shape
  <2>. QED
    BY <1>4, <2>4 DEF s, c
<1>5. ASSUME s \in Seq(Tasks), \A i \in 1..Len(s) : s[i].kind # "row" PROVE Shape(s, Len(s), 0, 0)
  <2>. HIDE DEF s
  <2>1. Len(s) \in Nat /\ Len(s) = Len(s) + 0 /\ \A i \in 1..Len(s) : i <= Len(s)
    BY <1>5, LenProperties
  <2>. QED
    BY <1>5, <2>1 DEF Shape
<1>6. CASE form = "packed"
  <2>1. /\ s \in Seq(Tasks) /\ Len(s) = Len(w[2])
        /\ \A i \in 1..Len(w[2]) : s[i] = ValueTask(w[2][i])
    BY <1>1, <1>6, PackedParts
  <2>. HIDE DEF s
  <2>. QED
    BY <1>2, <1>5, <1>6, <2>1 DEF s
<1>7. CASE form = "longs"
  <2>1. /\ s \in Seq(Tasks) /\ Len(s) = Len(w[2])
        /\ \A i \in 1..Len(w[2]) : s[i] = LongTask(w[2][i])
    BY <1>1, <1>7, LongsParts
  <2>. HIDE DEF s
  <2>. QED
    BY <1>2, <1>5, <1>7, <2>1 DEF s
<1>8. CASE form = "repeat"
  <2>1. /\ s \in Seq(Tasks) /\ Len(s) = 1
        /\ s[1] = ValueTask(w[2][1])
    BY <1>1, <1>8, RepeatParts
  <2>. HIDE DEF s
  <2>2. \A i \in 1..Len(s) : i = 1
    BY <2>1
  <2>. QED
    BY <1>2, <1>5, <1>8, <2>1, <2>2 DEF s
<1>9. CASE form = "hash"
  <2>1. /\ s \in Seq(Tasks) /\ Len(s) = 2 * Len(w[2])
        /\ \A i \in 1..Len(w[2]) :
              s[2 * i - 1] = KeyTask(w[2][i][1]) /\ s[2 * i] = ValueTask(w[2][i][2])
    BY <1>1, <1>9, EntryParts
  <2>. HIDE DEF s
  <2>2. ASSUME NEW i \in 1..Len(s) PROVE s[i].kind # "row"
    <3>1. \/ (i + 1) \div 2 \in 1..Len(w[2]) /\ 2 * ((i + 1) \div 2) - 1 = i
          \/ i \div 2 \in 1..Len(w[2]) /\ 2 * (i \div 2) = i
      <4>1. \A k, l \in Nat : k >= 1 /\ k <= 2 * l =>
               \/ (k + 1) \div 2 \in 1..l /\ 2 * ((k + 1) \div 2) - 1 = k
               \/ k \div 2 \in 1..l /\ 2 * (k \div 2) = k
        OBVIOUS
      <4>2. i \in Nat /\ i >= 1 /\ i <= 2 * Len(w[2]) /\ Len(w[2]) \in Nat
        BY <1>1, <2>1
      <4>. QED
        BY <4>1, <4>2
    <3>. QED
      BY <1>2, <2>1, <3>1
  <2>. QED
    BY <1>5, <1>9, <2>1, <2>2 DEF s
<1>. HIDE DEF s
<1>. QED
  BY <1>4, <1>6, <1>7, <1>8, <1>9 DEF s

\* The shape of a row: its cells.
LEMMA RowShape ==
    ASSUME NEW w \in U, w[1] = "hash"
    PROVE  Shape(PartsOf("row", w), Len(w[2]), 0, 0)
<1>. DEFINE s == PartsOf("row", w)
<1>1. /\ s \in Seq(Tasks) /\ Len(s) = Len(w[2])
      /\ \A i \in 1..Len(w[2]) : s[i] = ValueTask(w[2][i][2])
  BY CellParts
<1>2. \A x : ValueTask(x).kind # "row"
  BY DEF ValueTask, Enc!Task
<1>. HIDE DEF s
<1>3. Len(s) \in Nat /\ Len(s) = Len(s) + 0 /\ \A i \in 1..Len(s) : i <= Len(s)
  BY <1>1, LenProperties
<1>4. Shape(s, Len(s), 0, 0)
  BY <1>1, <1>2, <1>3 DEF Shape
<1>. QED
  BY <1>1, <1>4 DEF s

\* One step of a run that is not at its end.
LEMMA RunStep ==
    ASSUME NEW dedup, NEW v, NEW doc, NEW g, NEW n, Run(dedup, v, doc, g, n), g[n].todo = <<>>,
           NEW k \in 0..n, g[k].todo # <<>>
    PROVE  /\ n \in Nat /\ k \in 0..(n - 1) /\ k + 1 \in 0..n /\ n - (k + 1) = (n - k) - 1
           /\ Advance(dedup, doc, g[k], g[k + 1])
           /\ ConfigOK(g[k]) /\ ConfigOK(g[k + 1]) /\ g[k + 1].at <= Len(doc)
<1>1. n \in Nat /\ k # n
  BY DEF Run
<1>2. k \in 0..(n - 1) /\ k + 1 \in 0..n /\ n - (k + 1) = (n - k) - 1
  BY <1>1
<1>. QED
  BY <1>1, <1>2 DEF Run

\* What is opened has parts of some shape.
LEMMA PartsShaped ==
    ASSUME NEW t \in Tasks, Opens(t)
    PROVE  /\ t.kind # "row" => \E a, m, c : Shape(Parts(t), a, m, c)
           /\ t.kind = "row" => Shape(Parts(t), Len(t.what[2]), 0, 0)
<1>1. CASE t.kind = "row"
  <2>1. t.what \in U /\ t.what[1] = "hash"
    BY <1>1 DEF Tasks
  <2>. QED
    BY <1>1, <2>1, RowShape DEF Parts
<1>2. CASE t.kind # "row"
  <2>1. t.what \in U /\ V!IsArray(t.what)
    BY <1>2 DEF Tasks, Opens
  <2>2. FormOf(t.what) \in {"hash", "longs", "repeat", "rows", "packed"}
    BY <2>1, HeaderIs
  <2>3. \E a, m, c : Shape(PartsOf(FormOf(t.what), t.what), a, m, c)
    BY <2>1, <2>2, PartsShape
  <2>. QED
    BY <1>2, <2>3 DEF Parts
<1>. QED
  BY <1>1, <1>2

\* A loop that is on top comes to its end, and every thing it is about is in the document:
\* a byte at least for each but a row, and for a row as many as it has cells.
Finishes(g, n, k) ==
    \A base \in Seq(Seq(Tasks)) : \A loop, a, m, c :
        Shape(loop, a, m, c) /\ g[k].todo = Plus(base, loop) =>
            \E k2 \in 0..n : k2 > k /\ g[k2].todo = base /\ g[k2].at >= g[k].at + (a + m * c)

\* What is needed of products of numbers.
LEMMA Products ==
    /\ \A p, q \in Nat : p * q \in Nat
    /\ \A q \in Nat : 0 * q = 0
    /\ \A p, q \in Nat : p > 0 => (p - 1) * q \in Nat /\ p * q = (p - 1) * q + q
<1>1. \A p, q \in Nat : p * q \in Nat
  OBVIOUS
<1>2. \A q \in Nat : 0 * q = 0
  OBVIOUS
<1>3. \A p, q \in Nat : p > 0 => (p - 1) * q \in Nat /\ p * q = (p - 1) * q + q
  OBVIOUS
<1>. QED
  BY <1>1, <1>2, <1>3

\* Sums of numbers are numbers.
LEMMA SumNat ==
    ASSUME NEW a, NEW b, NEW c, a \in Nat, b \in Nat, c \in Nat
    PROVE  a + b \in Nat /\ a + b + c \in Nat
  OBVIOUS

\* One token was written, and behind it the rest.
LEMMA SumOne ==
    ASSUME NEW p, NEW q, NEW l, NEW z, NEW u, NEW s, p \in Nat, l \in Nat, z \in Nat, u \in Nat,
           s \in Nat,
           l > 0, q = p + l, u >= q + ((z - 1) + s)
    PROVE  u >= p + (z + s)
  OBVIOUS

\* One token was written, what it opens, and behind that the rest.
LEMMA SumTwo ==
    ASSUME NEW p, NEW q, NEW l, NEW z, NEW u, NEW s, NEW w, NEW e, p \in Nat, l \in Nat,
           z \in Nat, u \in Nat, s \in Nat,
           w \in Nat, e \in Nat, l > 0, q = p + l, w >= q + e, u >= w + ((z - 1) + s)
    PROVE  u >= p + (z + s)
  OBVIOUS

\* A loop comes to its end if those that are opened later do.
LEMMA FinishStep ==
    ASSUME NEW dedup \in BOOLEAN, NEW v, NEW doc, NEW g, NEW n, Run(dedup, v, doc, g, n),
           g[n].todo = <<>>,
           NEW k \in 0..n, \A k2 \in 0..n : k2 > k => Finishes(g, n, k2)
    PROVE  Finishes(g, n, k)
<1>. SUFFICES ASSUME NEW base \in Seq(Seq(Tasks)), NEW loop, NEW a, NEW m, NEW c,
                     Shape(loop, a, m, c), g[k].todo = Plus(base, loop)
              PROVE  \E k2 \in 0..n : k2 > k /\ g[k2].todo = base
                                      /\ g[k2].at >= g[k].at + (a + m * c)
  BY DEF Finishes
<1>1. loop \in Seq(Tasks) /\ a \in Nat /\ m \in Nat /\ c \in Nat /\ Len(loop) = a + m
  BY DEF Shape
<1>2. /\ g[k].todo # <<>> /\ g[k].todo[Len(g[k].todo)] = loop /\ Lower(g[k].todo) = base
      /\ \A y \in Seq(Tasks) : Change(g[k].todo, y) = Plus(base, y)
  BY <1>1, PlusTop
<1>. DEFINE x == g[k]
            y == g[k + 1]
<1>3. /\ n \in Nat /\ k \in 0..(n - 1) /\ k + 1 \in 0..n /\ Advance(dedup, doc, x, y)
      /\ ConfigOK(x) /\ ConfigOK(y)
  BY <1>2, RunStep
<1>4. x.at \in Nat /\ y.at \in Nat /\ TabOK(x.tab)
  BY <1>3 DEF ConfigOK
<1>5. Finishes(g, n, k + 1) /\ k + 1 > k
  BY <1>3
<1>6. CASE loop = <<>>
  <2>1. y.todo = base /\ y.at = x.at
    BY <1>2, <1>3, <1>6 DEF Advance
  <2>2. Len(loop) = 0
    BY <1>6
  <2>3. a = 0 /\ m = 0 /\ 0 * c = 0
    <3>1. a = 0 /\ m = 0
      BY <1>1, <2>2
    <3>. QED
      BY <1>1, <3>1, Products
  <2>4. x.at + (a + m * c) = x.at
    BY <1>4, <2>3
  <2>. QED
    BY <1>3, <1>4, <1>5, <2>1, <2>4
<1>7. CASE loop # <<>>
  <2>. DEFINE t == loop[1]
              r == Tail(loop)
              bytes == Token(t, dedup, x.tab)
  <2>1. /\ t \in Tasks
        /\ IF a > 0 THEN t.kind # "row" /\ Shape(r, a - 1, m, c)
           ELSE m > 0 /\ t.kind = "row" /\ Len(t.what[2]) = c /\ Shape(r, 0, m - 1, c)
    BY <1>7, ShapeTail
  <2>2. Performs(dedup, doc, x, y, loop)
    BY <1>2, <1>3, <1>7 DEF Advance
  <2>3. r \in Seq(Tasks)
    BY <2>1 DEF Shape
  <2>. HIDE DEF r
  <2>4. /\ y.at = x.at + Len(bytes)
        /\ y.todo = IF Opens(t) THEN Plus(Plus(base, r), Parts(t)) ELSE Plus(base, r)
    BY <1>2, <2>2, <2>3 DEF Performs, Spells, r
  <2>. HIDE DEF bytes, t, x, y
  <2>5. CASE ~Opens(t)
    <3>1. t.kind # "row" /\ a > 0
      BY <2>1, <2>5 DEF Opens
    <3>2. Len(bytes) \in Nat \ {0}
      BY <1>4, <2>1, <3>1, TokenIs DEF bytes
    <3>3. PICK k2 \in 0..n : k2 > k + 1 /\ g[k2].todo = base
                             /\ g[k2].at >= y.at + ((a - 1) + m * c)
      BY <1>5, <2>1, <2>4, <2>5, <3>1 DEF Finishes, y
    <3>4. g[k2].at \in Nat
      BY DEF Run, ConfigOK
    <3>. DEFINE area == m * c
    <3>5. area \in Nat
      BY <1>1, Products
    <3>50. g[k2].at >= y.at + ((a - 1) + area)
      BY <3>3
    <3>. HIDE DEF area
    <3>7. g[k2].at >= x.at + (a + area)
      <4>1. y.at = x.at + Len(bytes) /\ Len(bytes) > 0 /\ Len(bytes) \in Nat /\ x.at \in Nat
            /\ a \in Nat
        BY <1>1, <1>4, <2>4, <3>2
      <4>. QED
        BY ONLY <4>1, <3>4, <3>5, <3>50, SumOne
    <3>. QED
      BY <1>3, <3>3, <3>7 DEF x, area
  <2>6. CASE Opens(t) /\ t.kind # "row"
    <3>1. a > 0 /\ Shape(r, a - 1, m, c)
      BY <2>1, <2>6
    <3>2. Len(bytes) \in Nat \ {0}
      BY <1>4, <2>1, <2>6, TokenIs DEF bytes
    <3>3. PICK a1, m1, c1 : Shape(Parts(t), a1, m1, c1)
      BY <2>1, <2>6, PartsShaped
    <3>4. Plus(base, r) \in Seq(Seq(Tasks))
      BY <2>3, PlusTop
    <3>5. PICK k2 \in 0..n : k2 > k + 1 /\ g[k2].todo = Plus(base, r)
                             /\ g[k2].at >= y.at + (a1 + m1 * c1)
      BY <1>5, <2>4, <2>6, <3>3, <3>4 DEF Finishes, y
    <3>6. k2 > k
      BY <1>3, <3>5
    <3>7. PICK k3 \in 0..n : k3 > k2 /\ g[k3].todo = base
                             /\ g[k3].at >= g[k2].at + ((a - 1) + m * c)
      BY <3>1, <3>5, <3>6 DEF Finishes
    <3>8. g[k2].at \in Nat /\ g[k3].at \in Nat /\ k3 > k
      BY <1>3, <3>6, <3>7 DEF Run, ConfigOK
    <3>. DEFINE area == m * c
                inside == a1 + m1 * c1
    <3>9. area \in Nat /\ inside \in Nat
      <4>1. a1 \in Nat /\ m1 \in Nat /\ c1 \in Nat
        BY <3>3 DEF Shape
      <4>2. m * c \in Nat /\ m1 * c1 \in Nat
        BY <1>1, <4>1, Products
      <4>. QED
        BY ONLY <4>1, <4>2, SumNat
    <3>90. g[k2].at >= y.at + inside /\ g[k3].at >= g[k2].at + ((a - 1) + area)
      BY <3>5, <3>7
    <3>. HIDE DEF area, inside
    <3>11. g[k3].at >= x.at + (a + area)
      <4>1. y.at = x.at + Len(bytes) /\ Len(bytes) \in Nat /\ Len(bytes) > 0
        BY <2>4, <3>2
      <4>2. x.at \in Nat /\ y.at \in Nat /\ g[k2].at \in Nat /\ g[k3].at \in Nat /\ a \in Nat
        BY <1>1, <1>4, <3>8
      <4>. DEFINE p == x.at
                  q == y.at
                  w == g[k2].at
                  u == g[k3].at
                  l == Len(bytes)
      <4>3. /\ p \in Nat /\ l \in Nat /\ a \in Nat /\ u \in Nat /\ area \in Nat /\ w \in Nat
            /\ inside \in Nat
            /\ l > 0 /\ q = p + l /\ w >= q + inside /\ u >= w + ((a - 1) + area)
        BY <3>9, <3>90, <4>1, <4>2
      <4>. HIDE DEF p, q, w, u, l
      <4>4. u >= p + (a + area)
        BY ONLY <4>3
      <4>. QED
        BY <4>4 DEF p, u
    <3>. QED
      BY <3>7, <3>8, <3>11 DEF x, area
  <2>7. CASE t.kind = "row"
    <3>1. ~(a > 0) /\ m > 0 /\ Len(t.what[2]) = c /\ Shape(r, 0, m - 1, c) /\ Opens(t)
      BY <2>1, <2>7 DEF Opens
    <3>2. bytes = <<>>
      BY <2>7 DEF Token, bytes
    <3>3. y.at = x.at
      <4>1. Len(bytes) = 0
        BY <3>2
      <4>. QED
        BY <1>4, <2>4, <4>1
    <3>4. Shape(Parts(t), c, 0, 0)
      BY <2>1, <2>7, <3>1, PartsShaped
    <3>5. Plus(base, r) \in Seq(Seq(Tasks))
      BY <2>3, PlusTop
    <3>6. PICK k2 \in 0..n : k2 > k + 1 /\ g[k2].todo = Plus(base, r)
                             /\ g[k2].at >= y.at + (c + 0 * 0)
      BY <1>5, <2>4, <3>1, <3>4, <3>5 DEF Finishes, y
    <3>7. k2 > k
      BY <1>3, <3>6
    <3>8. PICK k3 \in 0..n : k3 > k2 /\ g[k3].todo = base
                             /\ g[k3].at >= g[k2].at + (0 + (m - 1) * c)
      BY <3>1, <3>6, <3>7 DEF Finishes
    <3>9. g[k2].at \in Nat /\ g[k3].at \in Nat /\ k3 > k
      BY <1>3, <3>7, <3>8 DEF Run, ConfigOK
    <3>10. (m - 1) * c \in Nat /\ m * c = (m - 1) * c + c /\ a = 0 /\ 0 * 0 = 0
      BY <1>1, <3>1, Products
    <3>11. \A p, q, u, w, s \in Nat :
              w >= p + (q + 0) /\ u >= w + (0 + s) => u >= p + (0 + (s + q))
      OBVIOUS
    <3>12. g[k3].at >= x.at + (0 + ((m - 1) * c + c))
      BY <1>1, <1>4, <3>3, <3>6, <3>8, <3>9, <3>10, <3>11
    <3>. QED
      BY <3>8, <3>9, <3>10, <3>12 DEF x
  <2>. QED
    BY <2>5, <2>6, <2>7
<1>. QED
  BY <1>6, <1>7

\* The whole run of an encoder that has written this document.
Written(dedup, v, doc, tab, g, n) ==
    Run(dedup, v, doc, g, n) /\ g[n] = [todo |-> <<>>, tab |-> tab, at |-> Len(doc)]

\* Every loop of such a run comes to its end.
LEMMA AllFinish ==
    ASSUME NEW dedup \in BOOLEAN, NEW v, NEW doc, NEW g, NEW n, Run(dedup, v, doc, g, n),
           g[n].todo = <<>>
    PROVE  \A k \in 0..n : Finishes(g, n, k)
<1>. DEFINE S == {j \in Nat : \A k \in 0..n : n - k <= j => Finishes(g, n, k)}
<1>1. n \in Nat
  BY DEF Run
<1>2. 0 \in S
  <2>1. ASSUME NEW k \in 0..n, n - k <= 0 PROVE Finishes(g, n, k)
    <3>1. k = n /\ \A k2 \in 0..n : ~(k2 > k)
      BY <1>1, <2>1
    <3>. QED
      BY <3>1, FinishStep
  <2>. QED
    BY <2>1
<1>3. ASSUME NEW j \in S PROVE j + 1 \in S
  <2>1. ASSUME NEW k \in 0..n, n - k <= j + 1 PROVE Finishes(g, n, k)
    <3>1. ASSUME NEW k2 \in 0..n, k2 > k PROVE Finishes(g, n, k2)
      <4>1. n - k2 <= j
        BY <1>1, <2>1, <3>1
      <4>. QED
        BY <4>1
    <3>. QED
      BY <3>1, FinishStep
  <2>. QED
    BY <2>1
<1>. HIDE DEF S
<1>4. S = Nat
  <2>1. S \in SUBSET Nat
    BY DEF S
  <2>. QED
    BY <1>2, <1>3, <2>1, SetInduction
<1>5. n \in S
  BY <1>1, <1>4
<1>. QED
  <2>1. ASSUME NEW k \in 0..n PROVE n - k <= n
    BY <1>1
  <2>. QED
    BY <1>5, <2>1 DEF S

\* The entries of a table stay.
Keeps(tab, more) == \A s \in DOMAIN tab : s \in DOMAIN more /\ more[s] = tab[s]

\* A step of the encoder keeps the entries of its table.
LEMMA StepKeeps ==
    ASSUME NEW dedup, NEW doc, NEW c, NEW d, Advance(dedup, doc, c, d)
    PROVE  Keeps(c.tab, d.tab)
<1>1. ASSUME NEW s, NEW tab PROVE Keeps(tab, TableWith(s, dedup, tab))
  BY DEF Keeps, TableWith
<1>2. ASSUME NEW t, NEW tab PROVE Keeps(tab, TableAfter(t, dedup, tab))
  BY <1>1 DEF Keeps, TableAfter
<1>. QED
  BY <1>2 DEF Advance, Performs, Keeps

\* So does the whole run.
LEMMA RunKeeps ==
    ASSUME NEW dedup, NEW v, NEW doc, NEW g, NEW n, Run(dedup, v, doc, g, n), NEW k \in 0..n
    PROVE  Keeps(g[k].tab, g[n].tab)
<1>. DEFINE S == {j \in Nat : \A k2 \in 0..n : n - k2 = j => Keeps(g[k2].tab, g[n].tab)}
<1>1. n \in Nat
  BY DEF Run
<1>2. 0 \in S
  <2>1. ASSUME NEW k2 \in 0..n, n - k2 = 0 PROVE Keeps(g[k2].tab, g[n].tab)
    <3>1. k2 = n
      BY <1>1, <2>1
    <3>. QED
      BY <3>1 DEF Keeps
  <2>. QED
    BY <2>1
<1>3. ASSUME NEW j \in S PROVE j + 1 \in S
  <2>1. ASSUME NEW k2 \in 0..n, n - k2 = j + 1 PROVE Keeps(g[k2].tab, g[n].tab)
    <3>1. k2 \in 0..(n - 1) /\ k2 + 1 \in 0..n /\ n - (k2 + 1) = j
      BY <1>1, <2>1
    <3>2. Advance(dedup, doc, g[k2], g[k2 + 1])
      BY <3>1 DEF Run
    <3>3. Keeps(g[k2].tab, g[k2 + 1].tab)
      BY <3>2, StepKeeps
    <3>4. Keeps(g[k2 + 1].tab, g[n].tab)
      BY <3>1
    <3>. QED
      BY <3>3, <3>4 DEF Keeps
  <2>. QED
    BY <2>1
<1>. HIDE DEF S
<1>4. S = Nat
  <2>1. S \in SUBSET Nat
    BY DEF S
  <2>. QED
    BY <1>2, <1>3, <2>1, SetInduction
<1>5. n - k \in S
  BY <1>1, <1>4
<1>. QED
  BY <1>5 DEF S

\* A step of a whole run that writes something.
LEMMA RunTakes ==
    ASSUME NEW dedup \in BOOLEAN, NEW v, NEW doc, NEW tab, NEW g, NEW n,
           Written(dedup, v, doc, tab, g, n),
           NEW k \in 0..n, NEW loop, NEW t, g[k].todo # <<>>, loop = g[k].todo[Len(g[k].todo)],
           loop # <<>>, t = loop[1], t.kind # "row"
    PROVE  /\ k + 1 \in 0..n /\ ConfigOK(g[k]) /\ ConfigOK(g[k + 1]) /\ t \in Tasks
           /\ Token(t, dedup, g[k].tab) \in Seq(Nat) /\ Len(Token(t, dedup, g[k].tab)) \in Nat \ {0}
           /\ Spells(doc, g[k].at, Token(t, dedup, g[k].tab), g[k + 1].at)
           /\ g[k + 1].tab = TableAfter(t, dedup, g[k].tab)
           /\ g[k + 1].todo = IF Opens(t) THEN Plus(Change(g[k].todo, Tail(loop)), Parts(t))
                              ELSE Change(g[k].todo, Tail(loop))
<1>1. Run(dedup, v, doc, g, n) /\ g[n].todo = <<>>
  BY DEF Written
<1>2. /\ k + 1 \in 0..n /\ Advance(dedup, doc, g[k], g[k + 1])
      /\ ConfigOK(g[k]) /\ ConfigOK(g[k + 1])
  BY <1>1, RunStep
<1>3. g[k].todo \in Seq(Seq(Tasks)) /\ TabOK(g[k].tab)
  BY <1>2 DEF ConfigOK
<1>4. loop \in Seq(Tasks)
  BY <1>3, SeqTop
<1>5. t \in Tasks
  BY <1>4, SeqTop, ElementOfSeq, LenProperties
<1>6. Performs(dedup, doc, g[k], g[k + 1], loop)
  BY <1>2 DEF Advance
<1>7. Token(t, dedup, g[k].tab) \in Seq(Nat) /\ Len(Token(t, dedup, g[k].tab)) \in Nat \ {0}
  BY <1>3, <1>5, TokenIs
<1>. QED
  BY <1>2, <1>5, <1>6, <1>7 DEF Performs

\* A step into the row of a rowset, and one out of a loop.
LEMMA RunEntersRow ==
    ASSUME NEW dedup \in BOOLEAN, NEW v, NEW doc, NEW tab, NEW g, NEW n,
           Written(dedup, v, doc, tab, g, n),
           NEW k \in 0..n, NEW loop, NEW w, g[k].todo # <<>>, loop = g[k].todo[Len(g[k].todo)],
           loop # <<>>, loop[1] = RowTask(w)
    PROVE  /\ k + 1 \in 0..n /\ g[k + 1].at = g[k].at /\ g[k + 1].tab = g[k].tab
           /\ g[k + 1].todo = Plus(Change(g[k].todo, Tail(loop)), PartsOf("row", w))
<1>1. Run(dedup, v, doc, g, n) /\ g[n].todo = <<>>
  BY DEF Written
<1>2. /\ k + 1 \in 0..n /\ Advance(dedup, doc, g[k], g[k + 1])
      /\ ConfigOK(g[k]) /\ ConfigOK(g[k + 1])
  BY <1>1, RunStep
<1>3. Performs(dedup, doc, g[k], g[k + 1], loop)
  BY <1>2 DEF Advance
<1>4. RowTask(w).kind = "row" /\ RowTask(w).what = w
  BY DEF RowTask, Enc!Task
<1>5. Token(RowTask(w), dedup, g[k].tab) = <<>>
      /\ TableAfter(RowTask(w), dedup, g[k].tab) = g[k].tab
      /\ Opens(RowTask(w)) /\ Parts(RowTask(w)) = PartsOf("row", w)
  BY <1>4 DEF Token, TableAfter, Opens, Parts
<1>6. g[k].at \in Nat /\ g[k + 1].at \in Nat
  BY <1>2 DEF ConfigOK
<1>7. g[k + 1].at = g[k].at + Len(<<>>) /\ Len(<<>>) = 0
  BY <1>3, <1>5 DEF Performs, Spells
<1>. QED
  BY <1>2, <1>3, <1>5, <1>6, <1>7 DEF Performs

\* A step out of a loop.
LEMMA RunLeaves ==
    ASSUME NEW dedup \in BOOLEAN, NEW v, NEW doc, NEW tab, NEW g, NEW n,
           Written(dedup, v, doc, tab, g, n),
           NEW k \in 0..n, g[k].todo # <<>>, g[k].todo[Len(g[k].todo)] = <<>>
    PROVE  /\ k + 1 \in 0..n /\ g[k + 1].at = g[k].at /\ g[k + 1].tab = g[k].tab
           /\ g[k + 1].todo = Lower(g[k].todo)
<1>1. Run(dedup, v, doc, g, n) /\ g[n].todo = <<>>
  BY DEF Written
<1>2. k + 1 \in 0..n /\ Advance(dedup, doc, g[k], g[k + 1])
  BY <1>1, RunStep
<1>. QED
  BY <1>2 DEF Advance

\* A run that has nothing to do any more is at its end, where the document is.
LEMMA RunEnds ==
    ASSUME NEW dedup, NEW v, NEW doc, NEW tab, NEW g, NEW n, Written(dedup, v, doc, tab, g, n),
           NEW k \in 0..n, g[k].todo = <<>>
    PROVE  g[k].at = Len(doc)
<1>1. CASE k = n
  BY <1>1 DEF Written
<1>2. CASE k # n
  <2>1. k \in 0..(n - 1)
    BY <1>2 DEF Written, Run
  <2>. QED
    BY <2>1 DEF Written, Run, Advance
<1>. QED
  BY <1>1, <1>2

\* An array that was entered has a byte at least for each of its parts.
LEMMA PartsFit ==
    ASSUME NEW dedup \in BOOLEAN, NEW v, NEW doc, NEW tab, NEW g, NEW n,
           Written(dedup, v, doc, tab, g, n),
           NEW k \in 0..n, NEW base \in Seq(Seq(Tasks)), NEW x \in U, V!IsArray(x),
           g[k].todo = Plus(base, PartsOf(FormOf(x), x)), Len(doc) \in Nat
    PROVE  LET form == FormOf(x) count == Len(x[2]) cols == Len(x[2][1][2]) IN
           /\ g[k].at \in Nat
           /\ form = "rows" => cols \in Nat /\ g[k].at + (cols + count * cols) <= Len(doc)
           /\ form = "hash" => g[k].at + 2 * count <= Len(doc)
           /\ form = "repeat" => g[k].at + 1 <= Len(doc)
           /\ form \in {"packed", "longs"} => g[k].at + count <= Len(doc)
<1>. DEFINE s == PartsOf(FormOf(x), x)
<1>1. Run(dedup, v, doc, g, n) /\ g[n].todo = <<>>
  BY DEF Written
<1>2. /\ Finishes(g, n, k) /\ g[k].at \in Nat
      /\ \A k2 \in 0..n : g[k2].at \in Nat /\ g[k2].at <= Len(doc)
  BY <1>1, AllFinish DEF Run, ConfigOK
<1>3. ASSUME NEW a, NEW m, NEW c, Shape(s, a, m, c)
      PROVE  /\ a \in Nat /\ m \in Nat /\ c \in Nat /\ m * c \in Nat
             /\ g[k].at + (a + m * c) <= Len(doc)
  <2>1. PICK k2 \in 0..n : g[k2].at >= g[k].at + (a + m * c)
    BY <1>2, <1>3 DEF Finishes
  <2>2. a \in Nat /\ m \in Nat /\ c \in Nat
    BY <1>3 DEF Shape
  <2>3. m * c \in Nat
    BY <2>2, Products
  <2>4. g[k2].at \in Nat /\ g[k2].at <= Len(doc)
    BY <1>2
  <2>. DEFINE p == g[k].at
              q == g[k2].at
              l == Len(doc)
              area == m * c
  <2>5. p \in Nat /\ q \in Nat /\ l \in Nat /\ area \in Nat /\ q <= l /\ q >= p + (a + area)
        /\ a \in Nat
    BY <1>2, <2>1, <2>2, <2>3, <2>4
  <2>. HIDE DEF p, q, l, area
  <2>6. p + (a + area) <= l
    BY <2>5
  <2>. QED
    BY <2>2, <2>3, <2>6 DEF p, l, area
<1>4. Len(x[2]) \in Nat
  BY ArrayInU
<1>5. ASSUME FormOf(x) = "rows"
      PROVE  /\ Len(x[2][1][2]) \in Nat
             /\ g[k].at + (Len(x[2][1][2]) + Len(x[2]) * Len(x[2][1][2])) <= Len(doc)
  <2>1. Shape(s, Len(x[2][1][2]), Len(x[2]), Len(x[2][1][2]))
    BY <1>5, PartsShape
  <2>. QED
    BY <1>3, <2>1
<1>6. 0 * 0 = 0
  OBVIOUS
<1>7. ASSUME NEW a \in Nat, Shape(s, a, 0, 0) PROVE g[k].at + a <= Len(doc)
  <2>1. g[k].at + (a + 0 * 0) <= Len(doc)
    BY <1>3, <1>7
  <2>. QED
    BY <1>2, <1>6, <2>1
<1>8. FormOf(x) = "hash" => Shape(s, 2 * Len(x[2]), 0, 0) /\ 2 * Len(x[2]) \in Nat
  BY <1>4, PartsShape
<1>9. FormOf(x) = "repeat" => Shape(s, 1, 0, 0)
  BY PartsShape
<1>10. FormOf(x) \in {"packed", "longs"} => Shape(s, Len(x[2]), 0, 0)
  BY PartsShape
<1>. HIDE DEF s
<1>. QED
  BY <1>2, <1>4, <1>5, <1>7, <1>8, <1>9, <1>10
-----------------------------------------------------------------------------
(* The encoder is at the end of a run.                                     *)

\* Bytes that are written are spelled at the end of what was written before.
LEMMA PutSpells ==
    ASSUME NEW doc \in Seq(Nat), NEW bytes \in Seq(Nat)
    PROVE  /\ doc \o bytes \in Seq(Nat) /\ Len(doc) \in Nat
           /\ Spells(doc \o bytes, Len(doc), bytes, Len(doc \o bytes))
           /\ Len(doc) <= Len(doc \o bytes)
           /\ \A i \in 1..Len(doc) : (doc \o bytes)[i] = doc[i]
<1>1. Len(doc) \in Nat /\ Len(bytes) \in Nat
  BY LenProperties
<1>2. /\ doc \o bytes \in Seq(Nat) /\ Len(doc \o bytes) = Len(doc) + Len(bytes)
      /\ \A i \in 1..(Len(doc) + Len(bytes)) :
            (doc \o bytes)[i] = IF i <= Len(doc) THEN doc[i] ELSE bytes[i - Len(doc)]
  BY ConcatProperties
<1>3. ASSUME NEW i \in 1..Len(bytes) PROVE (doc \o bytes)[Len(doc) + i] = bytes[i]
  <2>1. /\ Len(doc) + i \in 1..(Len(doc) + Len(bytes)) /\ ~(Len(doc) + i <= Len(doc))
        /\ (Len(doc) + i) - Len(doc) = i
    BY <1>1
  <2>. QED
    BY <1>2, <2>1
<1>4. ASSUME NEW i \in 1..Len(doc) PROVE (doc \o bytes)[i] = doc[i]
  <2>1. i \in 1..(Len(doc) + Len(bytes)) /\ i <= Len(doc)
    BY <1>1
  <2>. QED
    BY <1>2, <2>1
<1>5. Len(doc \o bytes) <= Len(doc \o bytes) /\ Len(doc) <= Len(doc \o bytes)
  BY <1>1, <1>2
<1>. QED
  BY <1>1, <1>2, <1>3, <1>4, <1>5 DEF Spells

\* Bytes that are put one after the other.
LEMMA Regroup ==
    ASSUME NEW a \in Seq(Nat), NEW b \in Seq(Nat), NEW c \in Seq(Nat)
    PROVE  (a \o b) \o c = a \o (b \o c)
OBVIOUS

\* A table with one string more is one.
LEMMA TableStays ==
    ASSUME NEW tab, TabOK(tab), NEW s \in Seq(Nat), NEW dedup
    PROVE  TabOK(TableWith(s, dedup, tab))
<1>1. CASE ~(s # <<>> /\ dedup /\ s \notin DOMAIN tab)
  BY <1>1 DEF TableWith
<1>2. CASE s # <<>> /\ dedup /\ s \notin DOMAIN tab
  <2>. DEFINE more == TableWith(s, dedup, tab)
  <2>1. more = [x \in DOMAIN tab \cup {s} |-> IF x = s THEN Cardinality(DOMAIN tab) ELSE tab[x]]
    BY <1>2 DEF TableWith
  <2>2. IsFiniteSet(DOMAIN tab) /\ DOMAIN tab \subseteq Seq(Nat)
        /\ \A x \in DOMAIN tab : tab[x] \in Nat
    BY DEF TabOK
  <2>3. Cardinality(DOMAIN tab) \in Nat
    BY <2>2, FS_CardinalityType
  <2>4. IsFiniteSet(DOMAIN tab \cup {s})
    BY <2>2, FS_AddElement
  <2>. HIDE DEF more
  <2>5. DOMAIN more = DOMAIN tab \cup {s}
    BY <2>1
  <2>6. \A x \in DOMAIN more : more[x] \in Nat
    BY <2>1, <2>2, <2>3
  <2>7. TabOK(more)
    BY <2>2, <2>4, <2>5, <2>6 DEF TabOK
  <2>. QED
    BY <2>7 DEF more
<1>. QED
  BY <1>1, <1>2

\* The table stays one whatever is written.
LEMMA TaskTable ==
    ASSUME NEW tab, TabOK(tab), NEW t \in Tasks, NEW dedup
    PROVE  TabOK(TableAfter(t, dedup, tab))
<1>1. CASE t.kind \in {"key", "value"} /\ t.what[1] = "str"
  <2>1. t.what[2] \in Seq(Nat)
    <3>1. CASE t.kind = "key"
      <4>1. t.what \in V!Keys
        BY <3>1 DEF Tasks
      <4>. QED
        BY <1>1, <4>1 DEF V!Keys
    <3>2. CASE t.kind = "value"
      <4>1. t.what \in U
        BY <3>2 DEF Tasks
      <4>. QED
        BY <1>1, <4>1, ScalarContent
    <3>. QED
      BY <1>1, <3>1, <3>2
  <2>. QED
    BY <1>1, <2>1, TableStays DEF TableAfter
<1>2. CASE ~(t.kind \in {"key", "value"} /\ t.what[1] = "str")
  BY <1>2 DEF TableAfter
<1>. QED
  BY <1>1, <1>2

\* What the encoder has done so far.
State == [todo |-> todo, tab |-> strtab, at |-> Len(buf)]
EncOK ==
    /\ value \in U /\ strdedup \in BOOLEAN /\ buf \in Seq(Nat)
    /\ todo \in Seq(Seq(Tasks)) /\ TabOK(strtab)

\* A step of it: it writes these bytes, for what it has to do next.
Writes(t, bytes) ==
    /\ bytes = Token(t, strdedup, strtab)
    /\ buf' = buf \o bytes /\ strtab' = TableAfter(t, strdedup, strtab)
    /\ todo' = IF Opens(t) THEN Plus(Enc!Rest, Parts(t)) ELSE Enc!Rest
    /\ UNCHANGED <<value, strdedup>>

\* A write is a step of a run.
LEMMA WritesAdvance ==
    ASSUME EncOK, todo # <<>>, Enc!Loop # <<>>, NEW t, t = Enc!Loop[1], NEW bytes, Writes(t, bytes)
    PROVE  /\ EncOK' /\ Advance(strdedup, buf', State, State')
           /\ Len(buf) <= Len(buf') /\ \A i \in 1..Len(buf) : buf'[i] = buf[i]
<1>. DEFINE loop == todo[Len(todo)]
<1>1. Enc!Loop = loop /\ Enc!Rest = Change(todo, Tail(loop))
  BY DEF Enc!Loop, Enc!Rest, Change
<1>2. loop \in Seq(Tasks) /\ loop # <<>>
  BY <1>1, SeqTop DEF EncOK
<1>3. t = loop[1] /\ t \in Tasks /\ Tail(loop) \in Seq(Tasks)
  <2>1. Len(loop) \in Nat /\ Len(loop) # 0
    BY <1>2, EmptySeq, LenProperties
  <2>2. 1 \in 1..Len(loop)
    BY <2>1
  <2>3. loop[1] \in Tasks
    BY <1>2, <2>2, ElementOfSeq
  <2>4. Tail(loop) \in Seq(Tasks)
    BY <1>2, HeadTailProperties
  <2>. QED
    BY <1>1, <2>3, <2>4
<1>4. Change(todo, Tail(loop)) \in Seq(Seq(Tasks))
  <2>1. todo \in Seq(Seq(Tasks)) /\ todo # <<>>
    BY DEF EncOK
  <2>. HIDE DEF loop
  <2>. QED
    BY <1>3, <2>1, SeqChange
<1>. HIDE DEF loop
<1>5. bytes \in Seq(Nat)
  <2>1. CASE t.kind = "row"
    BY <2>1 DEF Writes, Token
  <2>2. CASE t.kind # "row"
    BY <1>3, <2>2, TokenIs DEF Writes, EncOK
  <2>. QED
    BY <2>1, <2>2
<1>6. todo' \in Seq(Seq(Tasks))
  <2>1. CASE Opens(t)
    <3>1. Parts(t) \in Seq(Tasks)
      <4>1. \E a, m, c : Shape(Parts(t), a, m, c)
        BY <1>3, <2>1, PartsShaped
      <4>. QED
        BY <4>1 DEF Shape
    <3>2. todo' = Plus(Change(todo, Tail(loop)), Parts(t))
      BY <1>1, <2>1 DEF Writes
    <3>. QED
      BY <1>4, <3>1, <3>2, SeqPlus
  <2>2. CASE ~Opens(t)
    BY <1>1, <1>4, <2>2 DEF Writes
  <2>. QED
    BY <2>1, <2>2
<1>7. TabOK(strtab')
  BY <1>3, TaskTable DEF Writes, EncOK
<1>8. /\ buf' \in Seq(Nat) /\ Spells(buf', Len(buf), bytes, Len(buf'))
      /\ Len(buf) <= Len(buf') /\ \A i \in 1..Len(buf) : buf'[i] = buf[i]
  <2>1. buf \in Seq(Nat) /\ buf' = buf \o bytes
    BY DEF EncOK, Writes
  <2>. QED
    BY <1>5, <2>1, PutSpells
<1>9. EncOK'
  BY <1>6, <1>7, <1>8 DEF EncOK, Writes
<1>10. /\ State.todo = todo /\ State.tab = strtab /\ State.at = Len(buf)
       /\ State'.todo = todo' /\ State'.tab = strtab' /\ State'.at = Len(buf')
  BY DEF State
<1>11. Performs(strdedup, buf', State, State', loop)
  BY <1>1, <1>3, <1>8, <1>10 DEF Performs, Writes
<1>12. Advance(strdedup, buf', State, State')
  BY <1>2, <1>10, <1>11 DEF Advance, loop
<1>. QED
  BY <1>8, <1>9, <1>12

\* What the encoder writes next is a task.
LEMMA NextTask ==
    ASSUME EncOK, todo # <<>>, Enc!Loop # <<>>
    PROVE  Enc!Loop[1] \in Tasks
<1>1. Enc!Loop = todo[Len(todo)]
  BY DEF Enc!Loop
<1>2. Enc!Loop \in Seq(Tasks)
  BY <1>1, SeqTop DEF EncOK
<1>3. Len(Enc!Loop) \in Nat /\ Len(Enc!Loop) # 0
  BY <1>2, EmptySeq, LenProperties
<1>4. 1 \in 1..Len(Enc!Loop)
  BY <1>3
<1>. QED
  BY <1>2, <1>4, ElementOfSeq

\* What the tasks are about.
LEMMA TaskWhat ==
    ASSUME NEW t \in Tasks
    PROVE  /\ t.kind = "value" => t.what \in U
           /\ t.kind = "key" => t.what \in V!Keys
           /\ t.kind = "long" => t.what \in {"int"} \X Int
           /\ t.kind = "row" => t.what \in U /\ t.what[1] = "hash"
BY DEF Tasks

\* write_string writes a reference, a definition or nothing but a tag.
LEMMA StringWrites ==
    ASSUME EncOK, NEW s \in Seq(Nat), Enc!WriteStringBytes(s)
    PROVE  /\ buf' = buf \o StringToken(s, strdedup, strtab)
           /\ strtab' = TableWith(s, strdedup, strtab) /\ strdedup' = strdedup
<1>1. CASE s = <<>>
  BY <1>1 DEF Enc!WriteStringBytes, Enc!Put, StringToken, TableWith, TAG_STR_EMPTY,
     Enc!TAG_STR_EMPTY
<1>2. CASE s # <<>> /\ strdedup /\ s \in DOMAIN strtab
  BY <1>2 DEF Enc!WriteStringBytes, Enc!Put, StringToken, TableWith, TAG_STR_REF, Enc!TAG_STR_REF
<1>3. CASE s # <<>> /\ ~(strdedup /\ s \in DOMAIN strtab)
  <2>. DEFINE head == <<TAG_STR_VARINT, Len(s)>>
  <2>1. /\ buf' = (buf \o head) \o s
        /\ strtab' = IF ~strdedup THEN strtab
                     ELSE [x \in DOMAIN strtab \cup {s} |->
                              IF x = s THEN Cardinality(DOMAIN strtab) ELSE strtab[x]]
        /\ strdedup' = strdedup
    <3>1. /\ buf' = (buf \o head) \o s /\ strdedup' = strdedup
          /\ strtab' = IF ~strdedup THEN strtab
                       ELSE [x \in DOMAIN strtab \cup {s} |->
                                IF x = s THEN Enc!NextId ELSE strtab[x]]
      BY <1>3 DEF Enc!WriteStringBytes, TAG_STR_VARINT, Enc!TAG_STR_VARINT
    <3>2. Enc!NextId = Cardinality(DOMAIN strtab)
      BY Zenon DEF Enc!NextId, Enc!Cardinality, Cardinality
    <3>. QED
      BY <3>1, <3>2
  <2>2. head \in Seq(Nat)
    <3>1. Len(s) \in Nat /\ TAG_STR_VARINT \in Nat
      BY LenProperties DEF TAG_STR_VARINT
    <3>. QED
      BY <3>1
  <2>3. buf \in Seq(Nat)
    BY DEF EncOK
  <2>4. StringToken(s, strdedup, strtab) = head \o s
    BY <1>3 DEF StringToken
  <2>5. TableWith(s, strdedup, strtab) = strtab'
    BY <1>3, <2>1 DEF TableWith
  <2>. HIDE DEF head
  <2>6. (buf \o head) \o s = buf \o (head \o s)
    BY ONLY <2>2, <2>3, s \in Seq(Nat), Regroup
  <2>. QED
    BY <2>1, <2>4, <2>5, <2>6
<1>. QED
  BY <1>1, <1>2, <1>3

\* A value without parts, a key and an item of a run of longs.
LEMMA ScalarWrites ==
    ASSUME EncOK, todo # <<>>, Enc!Loop # <<>>, NEW t, t = Enc!Loop[1], Enc!WriteScalar
    PROVE  \E bytes : Writes(t, bytes)
<1>. DEFINE bytes == Token(t, strdedup, strtab)
<1>1. t.kind = "value" /\ t.what \in U /\ Enc!What = t.what
  BY NextTask, TaskWhat DEF Enc!WriteScalar, Enc!Upcoming, Enc!What
<1>2. t.what[1] \in {"null", "bool", "int", "double"}
  BY <1>1 DEF Enc!WriteScalar
<1>3. ~Opens(t) /\ TableAfter(t, strdedup, strtab) = strtab
      /\ bytes = ValueToken(t.what, strdedup, strtab)
  BY <1>1, <1>2 DEF Opens, TableAfter, V!IsArray, Token
<1>4. todo' = Enc!Rest /\ UNCHANGED value
  BY DEF Enc!WriteScalar, Enc!Done
<1>5. buf' = buf \o bytes /\ UNCHANGED <<strdedup, strtab>>
  <2>1. CASE t.what[1] = "null"
    BY <1>1, <1>3, <2>1 DEF Enc!WriteScalar, Enc!WriteNull, Enc!Put, ValueToken, TAG_NULL,
       Enc!TAG_NULL
  <2>2. CASE t.what[1] = "bool"
    BY <1>1, <1>3, <2>2 DEF Enc!WriteScalar, Enc!WriteBool, Enc!Put, ValueToken, TAG_TRUE,
       TAG_FALSE, Enc!TAG_TRUE, Enc!TAG_FALSE
  <2>3. CASE t.what[1] = "int"
    BY <1>1, <1>3, <2>3 DEF Enc!WriteScalar, Enc!WriteInt, Enc!Put, ValueToken, IntToken,
       TAG_VARINT, Enc!TAG_VARINT, ZigzagEncode, Enc!ZigzagEncode
  <2>4. CASE t.what[1] = "double"
    BY <1>1, <1>3, <2>4 DEF Enc!WriteScalar, Enc!WriteDouble, Enc!Put, ValueToken, TAG_DOUBLE,
       Enc!TAG_DOUBLE
  <2>. QED
    BY <1>2, <2>1, <2>2, <2>3, <2>4
<1>. QED
  BY <1>3, <1>4, <1>5 DEF Writes

\* A string value is written as a step of a run says; and so on, one by one.
LEMMA StringValueWrites ==
    ASSUME EncOK, todo # <<>>, Enc!Loop # <<>>, NEW t, t = Enc!Loop[1], Enc!WriteString
    PROVE  \E bytes : Writes(t, bytes)
<1>. DEFINE bytes == Token(t, strdedup, strtab)
<1>1. t.kind = "value" /\ t.what \in U /\ Enc!What = t.what /\ t.what[1] = "str"
  BY NextTask, TaskWhat DEF Enc!WriteString, Enc!Upcoming, Enc!What
<1>2. t.what[2] \in Seq(Nat)
  BY <1>1, ScalarContent
<1>3. ~Opens(t) /\ TableAfter(t, strdedup, strtab) = TableWith(t.what[2], strdedup, strtab)
      /\ bytes = StringToken(t.what[2], strdedup, strtab)
  BY <1>1 DEF Opens, TableAfter, V!IsArray, Token, ValueToken
<1>4. todo' = Enc!Rest /\ UNCHANGED value /\ Enc!WriteStringBytes(t.what[2])
  BY <1>1 DEF Enc!WriteString, Enc!Done
<1>5. /\ buf' = buf \o StringToken(t.what[2], strdedup, strtab)
      /\ strtab' = TableWith(t.what[2], strdedup, strtab) /\ strdedup' = strdedup
  BY <1>2, <1>4, StringWrites
<1>. QED
  BY <1>3, <1>4, <1>5 DEF Writes

\* A key.
LEMMA KeyWrites ==
    ASSUME EncOK, todo # <<>>, Enc!Loop # <<>>, NEW t, t = Enc!Loop[1], Enc!WriteKey
    PROVE  \E bytes : Writes(t, bytes)
<1>. DEFINE bytes == Token(t, strdedup, strtab)
<1>1. t.kind = "key" /\ t.what \in V!Keys /\ Enc!What = t.what
  BY NextTask, TaskWhat DEF Enc!WriteKey, Enc!Upcoming, Enc!What
<1>2. ~Opens(t) /\ todo' = Enc!Rest /\ UNCHANGED value
  BY <1>1 DEF Opens, Enc!WriteKey, Enc!Done
<1>3. CASE t.what[1] = "int"
  <2>1. TableAfter(t, strdedup, strtab) = strtab /\ bytes = IntToken(t.what[2])
    BY <1>1, <1>3 DEF TableAfter, Token
  <2>2. buf' = buf \o bytes /\ UNCHANGED <<strdedup, strtab>>
    BY <1>1, <1>3, <2>1 DEF Enc!WriteKey, Enc!WriteInt, Enc!Put, IntToken, TAG_VARINT,
       Enc!TAG_VARINT, ZigzagEncode, Enc!ZigzagEncode
  <2>. QED
    BY <1>2, <2>1, <2>2 DEF Writes
<1>4. CASE t.what[1] # "int"
  <2>1. t.what[1] = "str" /\ t.what[2] \in Seq(Nat)
    BY <1>1, <1>4 DEF V!Keys
  <2>2. TableAfter(t, strdedup, strtab) = TableWith(t.what[2], strdedup, strtab)
        /\ bytes = StringToken(t.what[2], strdedup, strtab)
    BY <1>1, <2>1 DEF TableAfter, Token
  <2>3. Enc!WriteStringBytes(t.what[2])
    BY <1>1, <1>4 DEF Enc!WriteKey
  <2>4. /\ buf' = buf \o StringToken(t.what[2], strdedup, strtab)
        /\ strtab' = TableWith(t.what[2], strdedup, strtab) /\ strdedup' = strdedup
    BY <2>1, <2>3, StringWrites
  <2>. QED
    BY <1>2, <2>2, <2>4 DEF Writes
<1>. QED
  BY <1>3, <1>4

\* An item of a run of longs.
LEMMA LongWrites ==
    ASSUME EncOK, todo # <<>>, Enc!Loop # <<>>, NEW t, t = Enc!Loop[1], Enc!WriteLong
    PROVE  \E bytes : Writes(t, bytes)
<1>. DEFINE bytes == Token(t, strdedup, strtab)
<1>1. t.kind = "long" /\ Enc!What = t.what
  BY DEF Enc!WriteLong, Enc!Upcoming, Enc!What
<1>2. ~Opens(t) /\ todo' = Enc!Rest /\ UNCHANGED value
  BY <1>1 DEF Opens, Enc!WriteLong, Enc!Done
<1>3. TableAfter(t, strdedup, strtab) = strtab /\ bytes = <<ZigzagEncode(t.what[2])>>
  BY <1>1 DEF TableAfter, Token
<1>4. buf' = buf \o bytes /\ UNCHANGED <<strdedup, strtab>>
  BY <1>1, <1>3 DEF Enc!WriteLong, Enc!WriteLongItem, Enc!Put, ZigzagEncode, Enc!ZigzagEncode
<1>. QED
  BY <1>2, <1>3, <1>4 DEF Writes

\* The arrays, form by form.
LEMMA ListWrites ==
    ASSUME EncOK, todo # <<>>, Enc!Loop # <<>>, NEW t, t = Enc!Loop[1],
           Enc!WriteLongs \/ Enc!WriteRepeat \/ Enc!WriteRows \/ Enc!WritePacked
    PROVE  \E bytes : Writes(t, bytes)
<1>. DEFINE bytes == Token(t, strdedup, strtab)
            w == t.what
<1>1. t.kind = "value" /\ w \in U /\ Enc!What = w /\ w[1] = "list" /\ UNCHANGED value
  BY NextTask, TaskWhat DEF Enc!WriteLongs, Enc!WriteRepeat, Enc!WriteRows, Enc!WritePacked,
     Enc!WriteList, Enc!Upcoming, Enc!What, Enc!Within
<1>2. /\ Opens(t) /\ TableAfter(t, strdedup, strtab) = strtab
      /\ bytes = Header(Enc!Form(w[2]), w) /\ Parts(t) = PartsOf(Enc!Form(w[2]), w)
  BY <1>1 DEF Opens, TableAfter, V!IsArray, Token, ValueToken, FormOf, Parts
<1>3. /\ buf' = buf \o Header(Enc!Form(w[2]), w) /\ UNCHANGED <<strdedup, strtab>>
      /\ todo' = Plus(Enc!Rest, PartsOf(Enc!Form(w[2]), w))
  <2>. HIDE DEF bytes, w
  <2>1. CASE Enc!WriteLongs
    BY <1>1, <2>1 DEF Enc!WriteLongs, Enc!WriteList, Enc!BeginLongs, Enc!Put, Enc!Within, Header,
       PartsOf, Plus, TAG_PACKED_LONGS, Enc!TAG_PACKED_LONGS
  <2>2. CASE Enc!WriteRepeat
    BY <1>1, <2>2 DEF Enc!WriteRepeat, Enc!WriteList, Enc!BeginRepeat, Enc!Put, Enc!Within, Header,
       PartsOf, Plus, TAG_ARRAY_REPEAT, Enc!TAG_ARRAY_REPEAT
  <2>3. CASE Enc!WriteRows
    BY <1>1, <2>3 DEF Enc!WriteRows, Enc!WriteList, Enc!BeginRows, Enc!Put, Enc!Within, Header,
       PartsOf, Plus, TAG_ARRAY_ROWS, Enc!TAG_ARRAY_ROWS
  <2>4. CASE Enc!WritePacked
    BY <1>1, <2>4 DEF Enc!WritePacked, Enc!WriteList, Enc!BeginPacked, Enc!Put, Enc!Within, Header,
       PartsOf, Plus, TAG_ARRAY_PACKED, Enc!TAG_ARRAY_PACKED
  <2>. QED
    BY <2>1, <2>2, <2>3, <2>4
<1>. QED
  BY <1>1, <1>2, <1>3 DEF Writes

\* A hash.
LEMMA HashWrites ==
    ASSUME EncOK, todo # <<>>, Enc!Loop # <<>>, NEW t, t = Enc!Loop[1], Enc!WriteHash
    PROVE  \E bytes : Writes(t, bytes)
<1>. DEFINE bytes == Token(t, strdedup, strtab)
            w == t.what
<1>1. t.kind = "value" /\ Enc!What = w /\ w[1] = "hash" /\ UNCHANGED value
  BY DEF Enc!WriteHash, Enc!Upcoming, Enc!What, Enc!Within
<1>2. /\ Opens(t) /\ TableAfter(t, strdedup, strtab) = strtab
      /\ bytes = <<TAG_ARRAY_HASH, Len(w[2])>> /\ Parts(t) = Enc!Entries(w[2])
  BY <1>1 DEF Opens, TableAfter, V!IsArray, Token, ValueToken, FormOf, Parts, Header, PartsOf
<1>3. /\ buf' = buf \o <<TAG_ARRAY_HASH, Len(w[2])>> /\ UNCHANGED <<strdedup, strtab>>
      /\ todo' = Plus(Enc!Rest, Enc!Entries(w[2]))
  BY <1>1 DEF Enc!WriteHash, Enc!BeginHash, Enc!Put, Enc!Within, Plus, TAG_ARRAY_HASH,
     Enc!TAG_ARRAY_HASH
<1>. QED
  BY <1>1, <1>2, <1>3 DEF Writes

\* A row of a rowset, which has no bytes of its own.
LEMMA RowWrites ==
    ASSUME EncOK, todo # <<>>, Enc!Loop # <<>>, NEW t, t = Enc!Loop[1], Enc!WriteRow
    PROVE  \E bytes : Writes(t, bytes)
<1>. DEFINE bytes == Token(t, strdedup, strtab)
            w == t.what
<1>1. t.kind = "row" /\ Enc!What = w /\ UNCHANGED <<value, strdedup, strtab, buf>>
  BY DEF Enc!WriteRow, Enc!Upcoming, Enc!What, Enc!Within, Enc!written
<1>2. /\ Opens(t) /\ TableAfter(t, strdedup, strtab) = strtab
      /\ bytes = <<>> /\ Parts(t) = Enc!Each("value", Enc!CellsOf(w))
  BY <1>1 DEF Opens, TableAfter, Token, Parts, PartsOf
<1>3. todo' = Plus(Enc!Rest, Enc!Each("value", Enc!CellsOf(w)))
  BY <1>1 DEF Enc!WriteRow, Enc!Within, Plus
<1>4. buf' = buf \o <<>>
  BY <1>1 DEF EncOK
<1>. QED
  BY <1>1, <1>2, <1>3, <1>4 DEF Writes

\* A step of the encoder is one of a run.
LEMMA EncoderSteps ==
    ASSUME EncOK, Enc!Encode
    PROVE  /\ EncOK' /\ Advance(strdedup, buf', State, State') /\ UNCHANGED <<value, strdedup>>
           /\ Len(buf) <= Len(buf') /\ \A i \in 1..Len(buf) : buf'[i] = buf[i]
<1>1. CASE Enc!EndLoop
  <2>1. todo # <<>> /\ todo[Len(todo)] = <<>> /\ todo' = Lower(todo)
        /\ UNCHANGED <<value, strdedup, strtab, buf>>
    BY <1>1 DEF Enc!EndLoop, Enc!Loop, Lower, Enc!written
  <2>2. todo' \in Seq(Seq(Tasks))
    BY <2>1, SeqTop DEF EncOK
  <2>3. EncOK'
    BY <2>1, <2>2 DEF EncOK
  <2>4. /\ State.todo = todo /\ State.tab = strtab /\ State.at = Len(buf)
        /\ State'.todo = todo' /\ State'.tab = strtab' /\ State'.at = Len(buf')
    BY DEF State
  <2>5. Advance(strdedup, buf', State, State')
    BY <2>1, <2>4 DEF Advance
  <2>6. Len(buf) \in Nat
    BY LenProperties DEF EncOK
  <2>7. Len(buf) <= Len(buf')
    BY <2>1, <2>6
  <2>. QED
    BY <2>1, <2>3, <2>5, <2>7
<1>2. CASE ~Enc!EndLoop
  <2>1. todo # <<>> /\ Enc!Loop # <<>>
    BY <1>2 DEF Enc!Encode, Enc!WriteScalar, Enc!WriteString, Enc!WriteKey, Enc!WriteLong,
       Enc!WriteLongs, Enc!WriteRepeat, Enc!WriteRows, Enc!WriteRow, Enc!WritePacked, Enc!WriteHash,
       Enc!WriteList, Enc!Upcoming
  <2>. DEFINE t == Enc!Loop[1]
  <2>2. \E bytes : Writes(t, bytes)
    BY <1>2, <2>1, ScalarWrites, StringValueWrites, KeyWrites, LongWrites, ListWrites, HashWrites,
       RowWrites DEF Enc!Encode
  <2>3. PICK bytes : Writes(t, bytes)
    BY <2>2
  <2>4. UNCHANGED <<value, strdedup>>
    BY <2>3 DEF Writes
  <2>. HIDE DEF t
  <2>5. t = Enc!Loop[1]
    BY DEF t
  <2>. QED
    BY <2>1, <2>3, <2>4, <2>5, WritesAdvance
<1>. QED
  BY <1>1, <1>2

\* A document goes on.
GoesOn(doc, more) ==
    /\ Len(doc) \in Nat /\ Len(more) \in Nat /\ Len(doc) <= Len(more)
    /\ \A i \in 1..Len(doc) : more[i] = doc[i]

\* A step of a run stays one when the document goes on.
LEMMA AdvanceStays ==
    ASSUME NEW dedup \in BOOLEAN, NEW doc, NEW more, GoesOn(doc, more),
           NEW c, NEW d, ConfigOK(c), Advance(dedup, doc, c, d)
    PROVE  Advance(dedup, more, c, d)
<1>. DEFINE loop == c.todo[Len(c.todo)]
<1>1. CASE loop = <<>>
  BY <1>1 DEF Advance
<1>2. CASE loop # <<>>
  <2>. DEFINE t == loop[1]
              bytes == Token(t, dedup, c.tab)
  <2>1. c.todo # <<>> /\ Performs(dedup, doc, c, d, loop)
    BY <1>2 DEF Advance
  <2>2. loop \in Seq(Tasks)
    BY <2>1, SeqTop DEF ConfigOK
  <2>. HIDE DEF loop
  <2>3. t \in Tasks
    <3>1. Len(loop) \in Nat /\ Len(loop) # 0
      BY <1>2, <2>2, EmptySeq, LenProperties
    <3>2. 1 \in 1..Len(loop)
      BY <3>1
    <3>. QED
      BY <2>2, <3>2, ElementOfSeq
  <2>4. Len(bytes) \in Nat
    <3>. HIDE DEF t
    <3>1. CASE t.kind = "row"
      BY <3>1 DEF Token
    <3>2. CASE t.kind # "row"
      BY <2>3, <3>2, TokenIs DEF ConfigOK
    <3>. QED
      BY <3>1, <3>2
  <2>5. c.at \in Nat /\ Spells(doc, c.at, bytes, d.at)
    BY <2>1 DEF ConfigOK, Performs
  <2>. HIDE DEF bytes
  <2>6. Spells(more, c.at, bytes, d.at)
    <3>. USE DEF GoesOn
    <3>1. d.at = c.at + Len(bytes) /\ d.at <= Len(doc)
      BY <2>5 DEF Spells
    <3>2. d.at <= Len(more)
      BY <2>4, <2>5, <3>1
    <3>3. ASSUME NEW i \in 1..Len(bytes) PROVE more[c.at + i] = bytes[i]
      <4>1. c.at + i \in 1..Len(doc)
        BY <2>4, <2>5, <3>1
      <4>. QED
        BY <2>5, <4>1 DEF Spells
    <3>. QED
      BY <3>1, <3>2, <3>3 DEF Spells
  <2>7. Performs(dedup, more, c, d, loop)
    BY <2>1, <2>6 DEF Performs, bytes
  <2>. QED
    BY <1>2, <2>1, <2>7 DEF Advance, loop
<1>. QED
  BY <1>1, <1>2

\* The encoder is at the end of a run.
EncInv == EncOK /\ \E g, n : Run(strdedup, value, buf, g, n) /\ g[n] = State

\* The parts of it.
LEMMA StateIs ==
    /\ State.todo = todo /\ State.tab = strtab /\ State.at = Len(buf)
    /\ EncOK => ConfigOK(State) /\ State.at \in Nat /\ Len(buf) \in Nat
BY LenProperties DEF State, EncOK, ConfigOK

\* An encoder that has not begun is at the end of a run without steps.
LEMMA EncStart == TripInit => EncInv
<1>. SUFFICES ASSUME TripInit PROVE EncInv
  OBVIOUS
<1>1. /\ value \in Documents /\ todo = <<Enc!Each("value", <<value>>)>>
      /\ strdedup \in BOOLEAN /\ strtab = <<>> /\ buf = <<>>
  BY DEF TripInit, Enc!Init, Enc!WriterInit
<1>2. value \in U
  BY <1>1, RoundTripAssumption DEF U
<1>3. todo \in Seq(Seq(Tasks))
  <2>1. ValueTask(value) \in Tasks
    BY <1>2 DEF ValueTask, Enc!Task, Tasks
  <2>2. <<<<ValueTask(value)>>>> \in Seq(Seq(Tasks))
    <3>1. \A S : \A x \in S : <<x>> \in Seq(S)
      OBVIOUS
    <3>2. <<ValueTask(value)>> \in Seq(Tasks)
      BY <2>1, <3>1
    <3>. QED
      BY <3>1, <3>2
  <2>3. Enc!Each("value", <<value>>) = <<ValueTask(value)>>
    <3>1. Enc!Each("value", <<value>>) = [i \in 1..1 |-> Enc!Task("value", <<value>>[i])]
      BY DEF Enc!Each
    <3>2. [i \in 1..1 |-> Enc!Task("value", <<value>>[i])] = <<ValueTask(value)>>
      BY DEF ValueTask
    <3>. QED
      BY <3>1, <3>2
  <2>. QED
    BY <1>1, <2>2, <2>3
<1>4. TabOK(strtab)
  BY <1>1, FS_EmptySet DEF TabOK
<1>5. EncOK
  BY <1>1, <1>2, <1>3, <1>4 DEF EncOK
<1>6. State = [todo |-> <<Enc!Each("value", <<value>>)>>, tab |-> <<>>, at |-> 0]
  BY <1>1 DEF State
<1>. DEFINE g == [k \in 0..0 |-> State]
<1>7. Run(strdedup, value, buf, g, 0)
  <2>1. g[0] = State /\ 0..0 = {0} /\ 0..(0 - 1) = {}
    OBVIOUS
  <2>2. ConfigOK(g[0]) /\ g[0].at <= Len(buf)
    BY <1>5, <2>1, StateIs
  <2>. QED
    BY <1>6, <2>1, <2>2 DEF Run
<1>8. g[0] = State
  OBVIOUS
<1>. QED
  BY <1>5, <1>7, <1>8 DEF EncInv

\* One configuration more.
LEMMA RunGrows ==
    ASSUME NEW dedup \in BOOLEAN, NEW v, NEW doc, NEW more, GoesOn(doc, more),
           NEW g, NEW n, Run(dedup, v, doc, g, n),
           NEW d, ConfigOK(d), d.at <= Len(more), Advance(dedup, more, g[n], d)
    PROVE  \E h : Run(dedup, v, more, h, n + 1) /\ h[n + 1] = d
<1>. DEFINE h == [k \in 0..(n + 1) |-> IF k = n + 1 THEN d ELSE g[k]]
<1>0. Len(doc) \in Nat /\ Len(more) \in Nat /\ Len(doc) <= Len(more)
  BY DEF GoesOn
<1>1. n \in Nat /\ n + 1 \in Nat /\ n + 1 # 0 /\ (n + 1) - 1 = n /\ 0 \in 0..(n + 1)
      /\ n + 1 \in 0..(n + 1)
  BY DEF Run
<1>2. h[n + 1] = d /\ h[0] = g[0]
  BY <1>1
<1>3. ASSUME NEW k \in 0..(n + 1) PROVE ConfigOK(h[k]) /\ h[k].at <= Len(more)
  <2>1. CASE k = n + 1
    BY <1>2, <2>1
  <2>2. CASE k # n + 1
    <3>1. k \in 0..n /\ h[k] = g[k]
      BY <1>1, <2>2
    <3>2. ConfigOK(g[k]) /\ g[k].at <= Len(doc)
      BY <3>1 DEF Run
    <3>3. g[k].at \in Nat
      BY <3>2 DEF ConfigOK
    <3>4. g[k].at <= Len(more)
      BY <1>0, <3>2, <3>3
    <3>. QED
      BY <3>1, <3>2, <3>4
  <2>. QED
    BY <2>1, <2>2
<1>4. ASSUME NEW k \in 0..n PROVE Advance(dedup, more, h[k], h[k + 1])
  <2>0. h[k] = g[k] /\ ConfigOK(g[k])
    <3>1. k \in 0..(n + 1) /\ k # n + 1
      BY <1>1
    <3>. QED
      BY <3>1 DEF Run
  <2>1. CASE k = n
    BY <1>2, <2>0, <2>1
  <2>2. CASE k # n
    <3>1. k \in 0..(n - 1) /\ k + 1 \in 0..(n + 1) /\ k + 1 # n + 1
      BY <1>1, <2>2
    <3>2. Advance(dedup, doc, g[k], g[k + 1])
      BY <3>1 DEF Run
    <3>3. h[k + 1] = g[k + 1]
      BY <3>1
    <3>4. Advance(dedup, more, g[k], g[k + 1])
      BY <2>0, <3>2, AdvanceStays
    <3>. QED
      BY <2>0, <3>3, <3>4
  <2>. QED
    BY <2>1, <2>2
<1>5. Run(dedup, v, more, h, n + 1)
  <2>. HIDE DEF h
  <2>. QED
    BY <1>1, <1>2, <1>3, <1>4 DEF Run
<1>. QED
  BY <1>2, <1>5

\* Every step of the encoder makes the run longer.
LEMMA EncNext == EncInv /\ Enc!Encode => EncInv'
<1>. SUFFICES ASSUME EncInv, Enc!Encode PROVE EncInv'
  OBVIOUS
<1>1. PICK g, n : Run(strdedup, value, buf, g, n) /\ g[n] = State
  BY DEF EncInv
<1>2. /\ EncOK /\ EncOK' /\ Advance(strdedup, buf', State, State') /\ UNCHANGED <<value, strdedup>>
      /\ Len(buf) <= Len(buf') /\ \A i \in 1..Len(buf) : buf'[i] = buf[i]
  BY EncoderSteps DEF EncInv
<1>3. Len(buf) \in Nat /\ Len(buf') \in Nat /\ strdedup \in BOOLEAN
  BY <1>2, LenProperties DEF EncOK
<1>4. State'.at = Len(buf') /\ ConfigOK(State')
  BY <1>2, LenProperties DEF State, EncOK, ConfigOK
<1>5. State'.at <= Len(buf')
  BY <1>3, <1>4
<1>6. \E h : Run(strdedup, value, buf', h, n + 1) /\ h[n + 1] = State'
  <2>. DEFINE d == State'
              more == buf'
  <2>1. Advance(strdedup, more, g[n], d)
    BY <1>1, <1>2
  <2>2. GoesOn(buf, more)
    BY <1>2, <1>3 DEF GoesOn
  <2>3. ConfigOK(d) /\ d.at <= Len(more)
    BY <1>4, <1>5
  <2>4. Run(strdedup, value, buf, g, n) /\ strdedup \in BOOLEAN
    BY <1>1, <1>3
  <2>. HIDE DEF d, more
  <2>5. \E h : Run(strdedup, value, more, h, n + 1) /\ h[n + 1] = d
    BY ONLY <2>1, <2>2, <2>3, <2>4, RunGrows
  <2>. QED
    BY <2>5 DEF d, more
<1>8. PICK h : Run(strdedup, value, buf', h, n + 1) /\ h[n + 1] = State'
  BY <1>6
<1>7. Run(strdedup', value', buf', h, n + 1) /\ h[n + 1] = State'
  BY <1>2, <1>8
<1>. QED
  BY <1>2, <1>7 DEF EncInv

\* Nothing else touches the encoder.
LEMMA EncStays == EncInv /\ UNCHANGED <<strdedup, encoder>> => EncInv'
BY DEF EncInv, EncOK, State, encoder
=============================================================================
