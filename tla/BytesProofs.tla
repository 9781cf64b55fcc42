----------------------------- MODULE BytesProofs -----------------------------
(***************************************************************************)
(* What the bytes of a document rest on, whatever is in them: the integers *)
(* of the wire format, for every width (64 bits in groups of seven are one *)
(* of them), and the buffer that the C encoder writes into, for every      *)
(* size_t, capacity and amount of memory.                                  *)
(*                                                                         *)
(* The shifts and the digits are recursive functions.  What those are is   *)
(* shown by induction in a form without operators as parameters: a set of  *)
(* numbers that has 0 and with each number the next has them all.          *)
(***************************************************************************)
EXTENDS Varint, Buffer, TLAPS, WellFoundedInduction
-----------------------------------------------------------------------------
(* Induction and recursion.                                                  *)

\* A set of numbers that has 0 and with each number the next has all of them.
LEMMA SetInduction ==
    ASSUME NEW S \in SUBSET Nat, 0 \in S, \A n \in S : n + 1 \in S
    PROVE  S = Nat
<1>. DEFINE T == Nat \ S
            R == OpToRel(<, Nat)
<1>1. SUFFICES ASSUME T # {} PROVE FALSE
  OBVIOUS
<1>2. IsWellFoundedOn(R, Nat)
  BY NatLessThanWellFounded
<1>. HIDE DEF R
<1>3. PICK x \in T : \A y \in T : ~(<<y, x>> \in R)
  BY <1>1, <1>2, WFMin
<1>4. x \in Nat /\ x # 0 /\ x - 1 \in Nat /\ x - 1 < x
  OBVIOUS
<1>5. <<x - 1, x>> \in R
  BY <1>4 DEF R, OpToRel
<1>6. x - 1 \in S
  BY <1>3, <1>4, <1>5
<1>. QED
  BY <1>4, <1>6

\* The first n values of the function that begins with b and goes on with step.
Begun(b, step, n) ==
    {g \in [0..n -> Nat] : g[0] = b /\ \A k \in 0..(n - 1) : g[k + 1] = step[<<k, g[k]>>]}

\* There are such first values, as many as one wants.
LEMMA BegunExist ==
    ASSUME NEW b \in Nat, NEW step \in [Nat \X Nat -> Nat], NEW n \in Nat
    PROVE  Begun(b, step, n) # {}
<1>. DEFINE N == {m \in Nat : Begun(b, step, m) # {}}
<1>1. 0 \in N
  <2>1. [k \in 0..0 |-> b] \in Begun(b, step, 0)
    BY DEF Begun
  <2>. QED
    BY <2>1
<1>2. ASSUME NEW m \in N PROVE m + 1 \in N
  <2>1. PICK g \in [0..m -> Nat] :
            g[0] = b /\ \A k \in 0..(m - 1) : g[k + 1] = step[<<k, g[k]>>]
    BY DEF Begun
  <2>. DEFINE h == [k \in 0..(m + 1) |-> IF k = m + 1 THEN step[<<m, g[m]>>] ELSE g[k]]
  <2>2. m \in Nat /\ m \in 0..m /\ \A k \in 0..(m + 1) : k # m + 1 => k \in 0..m
    OBVIOUS
  <2>3. step[<<m, g[m]>>] \in Nat
    BY <2>2
  <2>4. h \in [0..(m + 1) -> Nat]
    BY <2>2, <2>3
  <2>5. /\ h[m + 1] = step[<<m, g[m]>>]
        /\ \A k \in 0..m : h[k] = g[k]
    BY <2>2
  <2>. HIDE DEF h
  <2>6. ASSUME NEW k \in 0..m PROVE h[k + 1] = step[<<k, h[k]>>]
    <3>1. CASE k = m
      BY <2>2, <2>5, <3>1
    <3>2. CASE k # m
      <4>1. k \in 0..(m - 1) /\ k + 1 \in 0..m
        BY <2>2, <3>2
      <4>. QED
        BY <2>1, <2>5, <4>1
    <3>. QED
      BY <3>1, <3>2
  <2>7. h[0] = b
    BY <2>1, <2>2, <2>5
  <2>8. h \in Begun(b, step, m + 1)
    <3>1. (m + 1) - 1 = m
      BY <2>2
    <3>. QED
      BY <2>4, <2>6, <2>7, <3>1 DEF Begun
  <2>. QED
    BY <2>2, <2>8
<1>3. N = Nat
  <2>. HIDE DEF N
  <2>1. N \in SUBSET Nat
    BY DEF N
  <2>. QED
    BY <1>1, <1>2, <2>1, SetInduction
<1>. QED
  BY <1>3

\* Two such sequences of values agree as far as both go.
LEMMA BegunAgree ==
    ASSUME NEW b \in Nat, NEW step \in [Nat \X Nat -> Nat], NEW m \in Nat, NEW n \in Nat,
           NEW g \in Begun(b, step, m), NEW h \in Begun(b, step, n),
           NEW j \in Nat, j <= m, j <= n
    PROVE  g[j] = h[j]
<1>. DEFINE N == {k \in Nat : k <= m /\ k <= n => g[k] = h[k]}
<1>1. 0 \in N
  BY DEF Begun
<1>2. ASSUME NEW k \in N PROVE k + 1 \in N
  <2>. SUFFICES ASSUME k + 1 <= m, k + 1 <= n PROVE g[k + 1] = h[k + 1]
    OBVIOUS
  <2>1. k \in 0..(m - 1) /\ k \in 0..(n - 1) /\ g[k] = h[k]
    OBVIOUS
  <2>2. g[k + 1] = step[<<k, g[k]>>] /\ h[k + 1] = step[<<k, h[k]>>]
    BY <2>1 DEF Begun
  <2>. QED
    BY <2>1, <2>2
<1>3. N = Nat
  <2>. HIDE DEF N
  <2>1. N \in SUBSET Nat
    BY DEF N
  <2>. QED
    BY <1>1, <1>2, <2>1, SetInduction
<1>. QED
  BY <1>3

\* So there is a function on all numbers that begins with b and goes on with step.
LEMMA Recursion ==
    ASSUME NEW b \in Nat, NEW step \in [Nat \X Nat -> Nat]
    PROVE  \E f \in [Nat -> Nat] : f[0] = b /\ \A n \in Nat : f[n + 1] = step[<<n, f[n]>>]
<1>. DEFINE first(n) == CHOOSE g \in Begun(b, step, n) : TRUE
            f == [n \in Nat |-> first(n)[n]]
<1>1. \A n \in Nat : first(n) \in Begun(b, step, n)
  BY BegunExist
<1>. HIDE DEF first
<1>2. f \in [Nat -> Nat]
  <2>. SUFFICES ASSUME NEW n \in Nat PROVE first(n)[n] \in Nat
    OBVIOUS
  <2>1. first(n) \in [0..n -> Nat] /\ n \in 0..n
    BY <1>1 DEF Begun
  <2>. QED
    BY <2>1
<1>3. f[0] = b
  <2>1. first(0)[0] = b
    BY <1>1 DEF Begun
  <2>. QED
    BY <2>1
<1>4. ASSUME NEW n \in Nat PROVE f[n + 1] = step[<<n, f[n]>>]
  <2>1. first(n) \in Begun(b, step, n) /\ first(n + 1) \in Begun(b, step, n + 1)
    BY <1>1
  <2>2. first(n + 1)[n] = first(n)[n]
    BY <2>1, BegunAgree
  <2>3. n \in 0..((n + 1) - 1)
    OBVIOUS
  <2>4. first(n + 1)[n + 1] = step[<<n, first(n + 1)[n]>>]
    BY <2>1, <2>3 DEF Begun
  <2>. QED
    BY <2>2, <2>4
<1>. HIDE DEF f
<1>. QED
  BY <1>2, <1>3, <1>4
-----------------------------------------------------------------------------
(* Powers of two.                                                            *)

\* What 1 << n is.
LEMMA PowerOfTwo ==
    /\ Pow2 \in [Nat -> Nat \ {0}] /\ Pow2[0] = 1
    /\ \A n \in Nat : Pow2[n + 1] = 2 * Pow2[n]
<1>1. PICK f \in [Nat -> Nat] : f[0] = 1 /\ \A n \in Nat : f[n + 1] = 2 * f[n]
  <2>1. PICK step : step = [x \in Nat \X Nat |-> 2 * x[2]]
    OBVIOUS
  <2>2. step \in [Nat \X Nat -> Nat] /\ 1 \in Nat
    BY <2>1
  <2>3. PICK f \in [Nat -> Nat] : f[0] = 1 /\ \A n \in Nat : f[n + 1] = step[<<n, f[n]>>]
    BY <2>2, Recursion
  <2>4. \A n \in Nat : step[<<n, f[n]>>] = 2 * f[n]
    BY <2>1, <2>3
  <2>. QED
    BY <2>3, <2>4
<1>2. f = [n \in Nat |-> IF n = 0 THEN 1 ELSE 2 * f[n - 1]]
  <2>1. ASSUME NEW n \in Nat PROVE f[n] = IF n = 0 THEN 1 ELSE 2 * f[n - 1]
    <3>1. CASE n = 0
      BY <1>1, <3>1
    <3>2. CASE n # 0
      <4>1. n - 1 \in Nat /\ (n - 1) + 1 = n
        BY <3>2
      <4>2. f[(n - 1) + 1] = 2 * f[n - 1]
        BY <1>1, <4>1
      <4>. QED
        BY <3>2, <4>1, <4>2
    <3>. QED
      BY <3>1, <3>2
  <2>. QED
    BY <1>1, <2>1
<1>3. Pow2 = [n \in Nat |-> IF n = 0 THEN 1 ELSE 2 * Pow2[n - 1]]
  BY <1>2, Zenon DEF Pow2
<1>4. Pow2[0] = 1 /\ \A n \in Nat : Pow2[n + 1] = 2 * Pow2[n]
  <2>1. Pow2[0] = 1
    BY <1>3
  <2>2. ASSUME NEW n \in Nat PROVE Pow2[n + 1] = 2 * Pow2[n]
    <3>1. n + 1 \in Nat /\ n + 1 # 0 /\ (n + 1) - 1 = n
      OBVIOUS
    <3>. QED
      BY <1>3, <3>1
  <2>. QED
    BY <2>1, <2>2
<1>5. \A n \in Nat : Pow2[n] \in Nat \ {0}
  <2>. DEFINE N == {n \in Nat : Pow2[n] \in Nat \ {0}}
  <2>1. 0 \in N /\ \A n \in N : n + 1 \in N
    BY <1>4
  <2>2. N = Nat
    <3>. HIDE DEF N
    <3>1. N \in SUBSET Nat
      BY DEF N
    <3>. QED
      BY <2>1, <3>1, SetInduction
  <2>. QED
    BY <2>2
<1>6. Pow2 \in [Nat -> Nat \ {0}]
  BY <1>3, <1>5
<1>. QED
  BY <1>4, <1>6

\* The product of two powers of two.
LEMMA PowerOfSum ==
    ASSUME NEW m \in Nat, NEW n \in Nat
    PROVE  Pow2[m + n] = Pow2[m] * Pow2[n]
<1>. DEFINE N == {k \in Nat : Pow2[m + k] = Pow2[m] * Pow2[k]}
<1>1. 0 \in N
  BY PowerOfTwo
<1>2. ASSUME NEW k \in N PROVE k + 1 \in N
  <2>1. PICK j \in Nat : j = m + k
    <3>1. m + k \in Nat
      OBVIOUS
    <3>. QED
      BY <3>1
  <2>2. Pow2[j + 1] = 2 * Pow2[j] /\ Pow2[k + 1] = 2 * Pow2[k] /\ m + (k + 1) = j + 1
    BY <2>1, PowerOfTwo
  <2>3. PICK a \in Nat, b \in Nat, c \in Nat : a = Pow2[m] /\ b = Pow2[k] /\ c = Pow2[j]
    BY PowerOfTwo
  <2>4. c = a * b
    BY <2>1, <2>3
  <2>5. 2 * c = a * (2 * b)
    BY <2>4
  <2>6. Pow2[m + (k + 1)] = Pow2[m] * Pow2[k + 1]
    BY <2>2, <2>3, <2>5
  <2>. QED
    BY <2>6
<1>3. N = Nat
  <2>. HIDE DEF N
  <2>1. N \in SUBSET Nat
    BY DEF N
  <2>. QED
    BY <1>1, <1>2, <2>1, SetInduction
<1>. QED
  BY <1>3
-----------------------------------------------------------------------------
(* Digits.                                                                   *)

\* What a one in the group behind k others is worth.
Place(k) == Pow2[GroupBits * k]

\* Each place is worth a whole group of the one before it.
LEMMA Places ==
    /\ Group \in Nat /\ Group >= 2
    /\ Place(0) = 1
    /\ \A k \in Nat : Place(k) \in Nat \ {0} /\ Place(k + 1) = Group * Place(k)
<1>1. Group \in Nat /\ Group >= 2
  <2>1. PICK g \in Nat : g + 1 = GroupBits
    <3>1. GroupBits - 1 \in Nat /\ (GroupBits - 1) + 1 = GroupBits
      BY VarintAssumption
    <3>. QED
      BY <3>1
  <2>2. Pow2[g + 1] = 2 * Pow2[g] /\ Pow2[g] \in Nat \ {0}
    BY PowerOfTwo
  <2>. QED
    BY <2>1, <2>2 DEF Group
<1>2. Place(0) = 1
  <2>1. GroupBits * 0 = 0
    BY VarintAssumption
  <2>. QED
    BY <2>1, PowerOfTwo DEF Place
<1>3. ASSUME NEW k \in Nat PROVE Place(k) \in Nat \ {0} /\ Place(k + 1) = Group * Place(k)
  <2>1. GroupBits * k \in Nat /\ GroupBits \in Nat
    BY VarintAssumption
  <2>2. GroupBits * (k + 1) = GroupBits + GroupBits * k
    BY VarintAssumption
  <2>3. Pow2[GroupBits + GroupBits * k] = Pow2[GroupBits] * Pow2[GroupBits * k]
    BY <2>1, PowerOfSum
  <2>4. Pow2[GroupBits * k] \in Nat \ {0}
    BY <2>1, PowerOfTwo
  <2>. QED
    BY <2>2, <2>3, <2>4 DEF Place, Group
<1>. QED
  BY <1>1, <1>2, <1>3

\* A place behind another is worth no less.
LEMMA PlacesGrow ==
    ASSUME NEW m \in Nat, NEW n \in Nat, m <= n
    PROVE  Place(m) <= Place(n)
<1>. DEFINE N == {d \in Nat : Place(m) <= Place(m + d)}
<1>1. 0 \in N
  BY Places
<1>2. ASSUME NEW d \in N PROVE d + 1 \in N
  <2>1. m + d \in Nat /\ m + (d + 1) = (m + d) + 1
    OBVIOUS
  <2>2. Place((m + d) + 1) = Group * Place(m + d) /\ Place(m + d) \in Nat
    BY <2>1, Places
  <2>3. \A g \in Nat, p \in Nat : g >= 2 => p <= g * p
    OBVIOUS
  <2>4. Place(m + d) <= Place((m + d) + 1)
    BY <2>2, <2>3, Places
  <2>5. Place(m) <= Place((m + d) + 1)
    BY <2>1, <2>2, <2>4, Places
  <2>. QED
    BY <2>1, <2>5
<1>3. N = Nat
  <2>. HIDE DEF N
  <2>1. N \in SUBSET Nat
    BY DEF N
  <2>. QED
    BY <1>1, <1>2, <2>1, SetInduction
<1>4. n - m \in Nat /\ m + (n - m) = n
  OBVIOUS
<1>. QED
  BY <1>3, <1>4

\* The last place of a varint is worth half of the numbers that the width has.
LEMMA LastPlace ==
    /\ MaxLen - 1 \in Nat /\ Place(MaxLen - 1) \in Nat \ {0}
    /\ Modulus = 2 * Place(MaxLen - 1) /\ Half = Place(MaxLen - 1)
<1>1. MaxLen - 1 \in Nat /\ GroupBits * (MaxLen - 1) \in Nat
  BY VarintAssumption
<1>2. Place(MaxLen - 1) \in Nat \ {0}
  BY <1>1, Places
<1>3. Modulus = 2 * Place(MaxLen - 1)
  BY <1>1, PowerOfTwo DEF Modulus, Place
<1>. QED
  BY <1>1, <1>2, <1>3 DEF Half

\* The bits of a byte are a number.
LEMMA BitsOfByte ==
    ASSUME NEW b \in Bytes
    PROVE  b.bits \in 0..(Group - 1) /\ b.bits \in Nat /\ b.more \in BOOLEAN
<1>1. b.bits \in 0..(Group - 1) /\ b.more \in BOOLEAN
  BY DEF Bytes
<1>2. Group \in Nat
  BY Places
<1>. QED
  BY <1>1, <1>2

\* The numbers that the first bytes of a sequence are the digits of.
LEMMA SumsGrow ==
    ASSUME NEW s \in Seq(Bytes)
    PROVE  /\ Sums(s)[0] = 0
           /\ \A k \in 0..Len(s) : Sums(s)[k] \in Nat
           /\ \A k \in 0..(Len(s) - 1) : Sums(s)[k + 1] = Sums(s)[k] + s[k + 1].bits * Place(k)
<1>1. PICK n \in Nat : n = Len(s)
  OBVIOUS
<1>2. PICK term \in [Nat -> Nat] :
          \A k \in 0..(n - 1) : term[k] = s[k + 1].bits * Place(k)
  <2>1. ASSUME NEW k \in 0..(n - 1) PROVE s[k + 1].bits * Place(k) \in Nat
    <3>1. s[k + 1] \in Bytes /\ k \in Nat
      BY <1>1
    <3>2. s[k + 1].bits \in Nat
      BY <3>1, BitsOfByte
    <3>3. Place(k) \in Nat
      BY <3>1, Places
    <3>. QED
      BY <3>2, <3>3
  <2>2. PICK term : term = [k \in Nat |-> IF k < n THEN s[k + 1].bits * Place(k) ELSE 0]
    OBVIOUS
  <2>3. ASSUME NEW k \in Nat PROVE term[k] \in Nat
    BY <2>1, <2>2
  <2>4. term \in [Nat -> Nat]
    BY <2>2, <2>3
  <2>5. \A k \in 0..(n - 1) : term[k] = s[k + 1].bits * Place(k)
    BY <2>2
  <2>. QED
    BY <2>4, <2>5
<1>3. PICK f \in [Nat -> Nat] : f[0] = 0 /\ \A k \in Nat : f[k + 1] = f[k] + term[k]
  <2>1. PICK step : step = [x \in Nat \X Nat |-> x[2] + term[x[1]]]
    OBVIOUS
  <2>2. step \in [Nat \X Nat -> Nat] /\ 0 \in Nat
    <3>1. ASSUME NEW x \in Nat \X Nat PROVE x[2] + term[x[1]] \in Nat
      <4>1. x[1] \in Nat /\ x[2] \in Nat
        OBVIOUS
      <4>2. term[x[1]] \in Nat
        BY <1>2, <4>1
      <4>3. \A a \in Nat, b \in Nat : a + b \in Nat
        OBVIOUS
      <4>. QED
        BY <4>1, <4>2, <4>3
    <3>. QED
      BY <2>1, <3>1
  <2>3. PICK f \in [Nat -> Nat] : f[0] = 0 /\ \A k \in Nat : f[k + 1] = step[<<k, f[k]>>]
    BY <2>2, Recursion
  <2>4. \A k \in Nat : step[<<k, f[k]>>] = f[k] + term[k]
    BY <2>1, <2>3
  <2>. QED
    BY <2>3, <2>4
<1>4. PICK h : h = [k \in 0..n |-> f[k]]
  OBVIOUS
<1>5. h = [k \in 0..n |->
               IF k = 0 THEN 0 ELSE h[k - 1] + s[k].bits * Pow2[GroupBits * (k - 1)]]
  <2>1. ASSUME NEW k \in 0..n
        PROVE h[k] = IF k = 0 THEN 0 ELSE h[k - 1] + s[k].bits * Pow2[GroupBits * (k - 1)]
    <3>1. CASE k = 0
      BY <1>3, <1>4, <3>1
    <3>2. CASE k # 0
      <4>1. k - 1 \in 0..(n - 1) /\ k - 1 \in 0..n /\ (k - 1) + 1 = k
        BY <3>2
      <4>2. f[(k - 1) + 1] = f[k - 1] + term[k - 1]
        BY <1>3, <4>1
      <4>3. term[k - 1] = s[k].bits * Pow2[GroupBits * (k - 1)]
        BY <1>2, <4>1 DEF Place
      <4>. QED
        BY <1>4, <3>2, <4>1, <4>2, <4>3
    <3>. QED
      BY <3>1, <3>2
  <2>. QED
    BY <1>4, <2>1
<1>6. Sums(s) = [k \in 0..n |-> IF k = 0 THEN 0
                     ELSE Sums(s)[k - 1] + s[k].bits * Pow2[GroupBits * (k - 1)]]
  BY <1>1, <1>5, Zenon DEF Sums
<1>7. Sums(s)[0] = 0
  BY <1>6
<1>8. ASSUME NEW k \in 0..(n - 1) PROVE Sums(s)[k + 1] = Sums(s)[k] + s[k + 1].bits * Place(k)
  <2>1. k + 1 \in 0..n /\ k + 1 # 0 /\ (k + 1) - 1 = k
    OBVIOUS
  <2>. QED
    BY <1>6, <2>1 DEF Place
<1>9. \A k \in 0..n : Sums(s)[k] = f[k]
  <2>. DEFINE N == {k \in Nat : k <= n => Sums(s)[k] = f[k]}
  <2>1. 0 \in N
    BY <1>3, <1>7
  <2>2. ASSUME NEW k \in N PROVE k + 1 \in N
    <3>. SUFFICES ASSUME k + 1 <= n PROVE Sums(s)[k + 1] = f[k + 1]
      OBVIOUS
    <3>1. k \in 0..(n - 1) /\ Sums(s)[k] = f[k]
      OBVIOUS
    <3>2. Sums(s)[k + 1] = Sums(s)[k] + term[k]
      BY <1>2, <1>8, <3>1
    <3>. QED
      BY <1>3, <3>1, <3>2
  <2>3. N = Nat
    <3>. HIDE DEF N
    <3>1. N \in SUBSET Nat
      BY DEF N
    <3>. QED
      BY <2>1, <2>2, <3>1, SetInduction
  <2>4. \A k \in Nat : k \in N
    BY <2>3
  <2>5. \A k \in Nat : k <= n => Sums(s)[k] = f[k]
    BY <2>4
  <2>. QED
    BY <2>5
<1>10. ASSUME NEW k \in 0..n PROVE Sums(s)[k] \in Nat
  <2>1. k \in Nat
    OBVIOUS
  <2>2. f[k] \in Nat
    BY <1>3, <2>1
  <2>. QED
    BY <1>9, <2>2
<1>. QED
  BY <1>1, <1>7, <1>8, <1>10

\* What the first bytes are the digits of does not depend on the others.
LEMMA SumsOfPrefix ==
    ASSUME NEW s \in Seq(Bytes), NEW t \in Seq(Bytes), NEW n \in Nat, n <= Len(s), n <= Len(t),
           \A k \in 1..n : s[k] = t[k]
    PROVE  Sums(s)[n] = Sums(t)[n]
<1>. DEFINE N == {k \in Nat : k <= n => Sums(s)[k] = Sums(t)[k]}
<1>1. 0 \in N
  BY SumsGrow
<1>2. ASSUME NEW k \in N PROVE k + 1 \in N
  <2>. SUFFICES ASSUME k + 1 <= n PROVE Sums(s)[k + 1] = Sums(t)[k + 1]
    OBVIOUS
  <2>1. k \in 0..(Len(s) - 1) /\ k \in 0..(Len(t) - 1) /\ k + 1 \in 1..n /\ Sums(s)[k] = Sums(t)[k]
    OBVIOUS
  <2>2. Sums(s)[k + 1] = Sums(s)[k] + s[k + 1].bits * Place(k)
    BY <2>1, SumsGrow
  <2>3. Sums(t)[k + 1] = Sums(t)[k] + t[k + 1].bits * Place(k)
    BY <2>1, SumsGrow
  <2>. QED
    BY <2>1, <2>2, <2>3
<1>3. N = Nat
  <2>. HIDE DEF N
  <2>1. N \in SUBSET Nat
    BY DEF N
  <2>. QED
    BY <1>1, <1>2, <2>1, SetInduction
<1>. QED
  BY <1>3
-----------------------------------------------------------------------------
(* Division and zigzag.                                                      *)

\* The quotient and the remainder.
LEMMA Division ==
    ASSUME NEW a \in Nat, NEW b \in Nat, b > 0
    PROVE  /\ a \div b \in Nat /\ a % b \in 0..(b - 1)
           /\ a = b * (a \div b) + (a % b)
OBVIOUS

\* A remainder is its own remainder, and what is wrapped once comes back.
LEMMA Remainders ==
    ASSUME NEW m \in Nat, m > 0, NEW x \in 0..(m - 1)
    PROVE  x % m = x /\ (x + m) % m = x
OBVIOUS

\* The numbers of the width.
LEMMA Width ==
    /\ Half \in Nat /\ Half > 0 /\ Modulus = 2 * Half /\ Modulus \in Nat
    /\ U64 = 0..(Modulus - 1) /\ I64 = (-Half)..(Half - 1)
BY LastPlace DEF U64, I64

\* Zigzag comes back, for every integer of the width.
LEMMA ZigzagComesBack ==
    ASSUME NEW n \in I64
    PROVE  zigzag_encode(n) \in U64 /\ zigzag_decode(zigzag_encode(n)) = n
<1>1. PICK H \in Nat : H = Half /\ H > 0
  BY Width
<1>2. PICK M \in Nat : M = Modulus /\ M = 2 * H
  BY <1>1, Width
<1>3. n \in Int /\ -H <= n /\ n <= H - 1 /\ U64 = 0..(M - 1)
  BY <1>1, <1>2, Width
<1>4. CASE n >= 0
  <2>1. 2 * n \in 0..(M - 1)
    BY <1>1, <1>2, <1>3, <1>4
  <2>2. (2 * n) % M = 2 * n
    BY <1>1, <1>2, <2>1, Remainders
  <2>3. zigzag_encode(n) = 2 * n
    BY <1>2, <1>3, <1>4, <2>2 DEF zigzag_encode, AsUnsigned, XorMask
  <2>4. (2 * n) \div 2 = n /\ (2 * n) % 2 = 0
    BY <1>3
  <2>5. zigzag_decode(2 * n) = n
    BY <1>1, <1>3, <2>4 DEF zigzag_decode, AsSigned, XorMask
  <2>. QED
    BY <1>3, <2>1, <2>3, <2>5
<1>5. CASE n < 0
  <2>1. PICK x \in 0..(M - 1) : x = 2 * n + M
    <3>1. 2 * n + M \in 0..(M - 1)
      BY <1>1, <1>2, <1>3, <1>5
    <3>. QED
      BY <3>1
  <2>2. (x + M) % M = x /\ 2 * (n + M) = x + M
    <3>1. M > 0
      BY <1>1, <1>2
    <3>2. (x + M) % M = x
      BY <3>1, Remainders
    <3>. QED
      BY <1>3, <2>1, <3>2
  <2>3. PICK u \in 0..(M - 1) : u = M - 1 - x
    <3>1. M - 1 - x \in 0..(M - 1)
      OBVIOUS
    <3>. QED
      BY <3>1
  <2>4. zigzag_encode(n) = u
    <3>1. (2 * AsUnsigned(n)) % Modulus = x
      BY <1>2, <1>5, <2>2 DEF AsUnsigned
    <3>. QED
      BY <1>2, <1>5, <2>3, <3>1 DEF zigzag_encode, XorMask
  <2>5. u = 2 * (-n - 1) + 1 /\ -n - 1 \in Nat
    BY <1>3, <1>5, <2>1, <2>3
  <2>6. u \div 2 = -n - 1 /\ u % 2 = 1
    BY <2>5
  <2>7. XorMask(u \div 2, u % 2 = 1) = n + M
    BY <1>2, <1>3, <2>6 DEF XorMask
  <2>8. AsSigned(n + M) = n
    BY <1>1, <1>2, <1>3 DEF AsSigned
  <2>. QED
    BY <1>3, <2>3, <2>4, <2>7, <2>8 DEF zigzag_decode
<1>. QED
  BY <1>3, <1>4, <1>5
-----------------------------------------------------------------------------
(* The writer and the reader.                                                *)

\* The first n bytes all announce another.
GoOn(n) == \A k \in 1..n : input[k].more

\* A varint ends with byte n.
EndsAt(n) == n \in 1..Len(input) /\ n <= MaxLen /\ ~input[n].more /\ GoOn(n - 1)

\* What is written and what is left are the digits of the number, which has its
\* last one in the tenth byte at the latest.
WriterInv ==
    /\ outcome = "writing" =>
         /\ value # <<>> /\ i = 0 /\ result = 0
         /\ Len(input) = written /\ written < MaxLen /\ GoOn(written)
         /\ Sums(input)[written] + rest * Place(written) = zigzag_encode(value[1])
    /\ outcome # "writing" /\ value # <<>> =>
         EndsAt(written) /\ Sums(input)[written] = zigzag_encode(value[1])

\* What is read is the number of the bytes so far, and no bit of it is lost.
ReaderInv ==
    outcome # "writing" =>
        /\ result = Sums(input)[i]
        /\ outcome # "ok" => i < MaxLen /\ GoOn(i) /\ result < Place(i)
        /\ outcome = "ok" => EndsAt(i)
        /\ outcome = "VarInt" => i + 1 = MaxLen /\ i < Len(input) /\ TooLong(input[i + 1])
        /\ outcome = "Truncated" => i = Len(input)

Inv == TypeOK /\ WriterInv /\ ReaderInv

\* The zero is a number of the width.
LEMMA ZeroFits == 0 \in U64
BY Width

\* It holds at the start.
LEMMA InitInv ==
    ASSUME Init
    PROVE  Inv
<1>. USE DEF Init
<1>1. MaxLen \in Nat /\ MaxLen > 0 /\ GroupBits \in Nat /\ 0 \in U64 /\ 0 * GroupBits = 0
  BY VarintAssumption, ZeroFits
<1>2. GoOn(0)
  BY DEF GoOn
<1>3. CASE /\ \E n \in I64 : value = <<n>> /\ rest = zigzag_encode(n)
           /\ input = <<>> /\ outcome = "writing"
  <2>1. PICK n \in I64 : value = <<n>> /\ rest = zigzag_encode(n)
    BY <1>3
  <2>2. rest \in U64 /\ rest \in Nat
    BY <2>1, ZigzagComesBack, Width
  <2>3. input \in Seq(Bytes) /\ Len(input) = 0
    <3>1. <<>> \in Seq(Bytes) /\ Len(<<>>) = 0
      OBVIOUS
    <3>. QED
      BY <1>3, <3>1
  <2>4. TypeOK
    BY <1>1, <1>3, <2>1, <2>2, <2>3 DEF TypeOK
  <2>5. Sums(input)[written] + rest * Place(written) = rest
    <3>1. Sums(input)[0] = 0 /\ Place(0) = 1
      BY <2>3, SumsGrow, Places
    <3>. QED
      BY <2>2, <3>1
  <2>6. value # <<>> /\ value[1] = n
    BY <2>1
  <2>7. WriterInv
    BY <1>1, <1>2, <1>3, <2>1, <2>3, <2>5, <2>6 DEF WriterInv
  <2>8. ReaderInv
    BY <1>3 DEF ReaderInv
  <2>. QED
    BY <2>4, <2>7, <2>8 DEF Inv
<1>4. CASE /\ value = <<>> /\ rest = 0
           /\ input \in UNION {[1..n -> Bytes] : n \in 0..(MaxLen + 1)}
           /\ outcome = "reading"
  <2>1. input \in Seq(Bytes)
    <3>1. PICK n \in 0..(MaxLen + 1) : input \in [1..n -> Bytes]
      BY <1>4
    <3>. QED
      BY <3>1
  <2>2. 0 \in 0..Len(input)
    BY <2>1
  <2>3. TypeOK
    BY <1>1, <1>4, <2>1, <2>2 DEF TypeOK
  <2>4. WriterInv
    BY <1>4 DEF WriterInv
  <2>5. Sums(input)[0] = 0 /\ Place(0) = 1
    BY <2>1, SumsGrow, Places
  <2>6. ReaderInv
    BY <1>1, <1>2, <1>4, <2>5 DEF ReaderInv
  <2>. QED
    BY <2>3, <2>4, <2>6 DEF Inv
<1>. QED
  BY <1>3, <1>4

\* What a group of the rest is worth, the bytes have afterwards.
LEMMA GroupMoves ==
    ASSUME NEW a \in Nat, NEW s \in Nat, NEW z \in Nat, NEW p \in Nat, NEW g \in Nat,
           NEW q \in Nat, NEW r \in Nat, a = g * q + r, s + a * p = z
    PROVE  (s + r * p) + q * (g * p) = z
<1>1. a * p = (g * q) * p + r * p
  OBVIOUS
<1>2. (g * q) * p = q * (g * p)
  OBVIOUS
<1>. QED
  BY <1>1, <1>2

\* A byte that is written behind those written before.
LEMMA ByteWritten ==
    ASSUME Inv, WriteByte
    PROVE  LET q == rest \div Group
               s == Sums(input')[written + 1]
           IN  /\ rest' = q /\ q \in Nat /\ q \in U64 /\ written' = written + 1
               /\ written + 1 \in 1..MaxLen
               /\ input' \in Seq(Bytes) /\ written + 1 <= Len(input')
               /\ \A k \in 1..written : input'[k].more
               /\ s \in Nat /\ s + q * Place(written + 1) = zigzag_encode(value[1])
               /\ \/ /\ q # 0 /\ input'[written + 1].more /\ outcome' = "writing"
                     /\ Len(input') = written + 1 /\ written + 1 < MaxLen
                  \/ q = 0 /\ ~input'[written + 1].more /\ outcome' = "reading"
<1>. DEFINE q == rest \div Group
            r == rest % Group
            byte == [bits |-> r, more |-> q # 0]
<1>1. /\ outcome = "writing" /\ rest' = q /\ written' = written + 1
      /\ \/ q # 0 /\ input' = Append(input, byte) /\ outcome' = "writing"
         \/ /\ q = 0 /\ outcome' = "reading"
            /\ \E next \in {<<>>} \cup {<<b>> : b \in Bytes} : input' = Append(input, byte) \o next
  BY DEF WriteByte
<1>2. PICK n \in I64 : value = <<n>>
  BY <1>1 DEF Inv, TypeOK, WriterInv
<1>3. PICK z \in U64 : z = zigzag_encode(value[1])
  <2>1. value[1] = n
    BY <1>2
  <2>. QED
    BY <2>1, ZigzagComesBack
<1>4. PICK w \in Nat : w = written /\ w < MaxLen /\ Len(input) = w
  BY <1>1, VarintAssumption DEF Inv, TypeOK, WriterInv
<1>5. input \in Seq(Bytes) /\ GoOn(w) /\ Sums(input)[w] + rest * Place(w) = z
  BY <1>1, <1>3, <1>4 DEF Inv, TypeOK, WriterInv
<1>6. rest \in Nat /\ rest \in U64 /\ z \in Nat /\ z < Modulus
  <2>1. rest \in U64
    BY DEF Inv, TypeOK
  <2>. QED
    BY <2>1, <1>3, Width
<1>7. q \in Nat /\ r \in 0..(Group - 1) /\ r \in Nat /\ rest = Group * q + r /\ Group >= 2
  <2>1. PICK g \in Nat : g = Group /\ g >= 2
    BY Places
  <2>2. g > 0
    BY <2>1
  <2>3. rest \div g \in Nat /\ rest % g \in 0..(g - 1) /\ rest = g * (rest \div g) + (rest % g)
    BY <1>6, <2>2, Division
  <2>4. rest % g \in Nat
    BY <2>3
  <2>. QED
    BY <2>1, <2>3, <2>4
<1>8. q \in U64
  <2>1. ASSUME NEW g \in Nat, NEW a \in Nat, NEW b \in Nat, g >= 2 PROVE a <= g * a + b
    <3>1. PICK d \in Nat : g = 2 + d
      <4>1. g - 2 \in Nat /\ g = 2 + (g - 2)
        BY <2>1
      <4>. QED
        BY <4>1
    <3>2. g * a = a + a + d * a /\ d * a \in Nat
      BY <3>1
    <3>. QED
      BY <3>2
  <2>2. q <= rest
    <3>1. PICK g \in Nat : g = Group
      BY Places
    <3>. HIDE DEF q, r
    <3>2. q \in Nat /\ r \in Nat /\ g >= 2 /\ rest = g * q + r
      BY <1>7, <3>1
    <3>. QED
      BY <2>1, <3>2
  <2>. QED
    BY <1>6, <1>7, <2>2, Width
<1>9. byte \in Bytes /\ byte.bits = r /\ byte.more = (q # 0)
  BY <1>7 DEF Bytes
<1>. HIDE DEF byte, q, r
<1>10. PICK next \in {<<>>} \cup {<<b>> : b \in Bytes} :
           input' = Append(input, byte) \o next /\ (q # 0 => next = <<>>)
  <2>1. CASE q # 0 /\ input' = Append(input, byte)
    <3>1. Append(input, byte) \in Seq(Bytes)
      BY <1>5, <1>9
    <3>2. Append(input, byte) \o <<>> = Append(input, byte)
      BY <3>1
    <3>. QED
      BY <2>1, <3>2
  <2>2. CASE q = 0
    BY <1>1, <2>2
  <2>. QED
    BY <1>1, <2>1, <2>2
<1>11. /\ input' \in Seq(Bytes) /\ w + 1 <= Len(input') /\ (q # 0 => Len(input') = w + 1)
       /\ input'[w + 1] = byte /\ \A k \in 1..w : input'[k] = input[k]
  <2>1. PICK t \in Seq(Bytes) : t = Append(input, byte)
    <3>1. Append(input, byte) \in Seq(Bytes)
      BY <1>5, <1>9
    <3>. QED
      BY <3>1
  <2>2. Len(t) = w + 1 /\ t[w + 1] = byte /\ \A k \in 1..w : t[k] = input[k]
    BY <1>4, <1>5, <1>9, <2>1
  <2>3. next \in Seq(Bytes)
    <3>1. <<>> \in Seq(Bytes) /\ \A b \in Bytes : <<b>> \in Seq(Bytes)
      OBVIOUS
    <3>. QED
      BY <1>10, <3>1
  <2>4. input' = t \o next
    BY <1>10, <2>1
  <2>5. input' \in Seq(Bytes) /\ Len(input') = Len(t) + Len(next)
    BY <2>3, <2>4
  <2>6. \A k \in 1..Len(t) : input'[k] = t[k]
    BY <2>3, <2>4
  <2>7. next = <<>> => Len(next) = 0
    OBVIOUS
  <2>8. Len(next) \in Nat
    BY <2>3
  <2>. QED
    BY <1>10, <2>2, <2>5, <2>6, <2>7, <2>8
<1>12. PICK s \in Nat, p \in Nat, t \in Nat :
           /\ s = Sums(input)[w] /\ p = Place(w) /\ t = Sums(input')[w + 1]
           /\ t = s + r * p /\ Place(w + 1) = Group * p
  <2>1. Sums(input)[w] \in Nat
    BY <1>4, <1>5, SumsGrow
  <2>2. Place(w) \in Nat /\ Place(w + 1) = Group * Place(w)
    BY Places
  <2>3. Sums(input')[w] = Sums(input)[w]
    <3>1. w <= Len(input) /\ w <= Len(input')
      BY <1>4, <1>11
    <3>. QED
      BY <1>5, <1>11, <3>1, SumsOfPrefix
  <2>4. w \in 0..(Len(input') - 1) /\ w + 1 \in 0..Len(input')
    BY <1>11
  <2>5. Sums(input')[w + 1] = Sums(input')[w] + input'[w + 1].bits * Place(w)
    BY <1>11, <2>4, SumsGrow
  <2>6. Sums(input')[w + 1] \in Nat
    BY <1>11, <2>4, SumsGrow
  <2>. QED
    BY <1>9, <1>11, <2>1, <2>2, <2>3, <2>5, <2>6
<1>13. t + q * Place(w + 1) = z
  <2>1. s + rest * p = z
    BY <1>5, <1>12
  <2>2. Group \in Nat
    BY Places
  <2>3. (s + r * p) + q * (Group * p) = z
    BY <1>6, <1>7, <2>1, <2>2, GroupMoves
  <2>. QED
    BY <1>12, <2>3
<1>14. q # 0 => w + 1 < MaxLen
  <2>. SUFFICES ASSUME w + 1 = MaxLen, q # 0 PROVE FALSE
    BY <1>4, VarintAssumption
  <2>1. w = MaxLen - 1
    BY VarintAssumption
  <2>2. Modulus = 2 * p /\ p > 0
    BY <1>12, <2>1, LastPlace
  <2>3. rest >= 2
    <3>1. \A g \in Nat, a \in Nat, b \in Nat : g >= 2 /\ a # 0 => g * a + b >= 2
      OBVIOUS
    <3>. QED
      BY <1>7, <3>1, Places
  <2>4. \A a \in Nat, b \in Nat : a >= 2 => a * b >= 2 * b
    OBVIOUS
  <2>5. rest * p >= 2 * p
    BY <1>6, <2>3, <2>4
  <2>6. z = s + rest * p
    BY <1>5, <1>12
  <2>7. rest * p \in Nat
    BY <1>6
  <2>. QED
    BY <1>6, <2>2, <2>5, <2>6, <2>7
<1>15. \A k \in 1..w : input'[k].more
  BY <1>5, <1>11 DEF GoOn
<1>16. w + 1 \in 1..MaxLen
  BY <1>4, VarintAssumption
<1>17. t = Sums(input')[written + 1]
  BY <1>4, <1>12
<1>18. \/ /\ q # 0 /\ input'[w + 1].more /\ outcome' = "writing"
          /\ Len(input') = w + 1 /\ w + 1 < MaxLen
       \/ q = 0 /\ ~input'[w + 1].more /\ outcome' = "reading"
  BY <1>1, <1>9, <1>11, <1>14
<1>. QED
  BY <1>1, <1>3, <1>4, <1>7, <1>8, <1>11, <1>13, <1>15, <1>16, <1>17, <1>18 DEF q

\* Writing a byte.
LEMMA WriteByteInv ==
    ASSUME Inv, WriteByte
    PROVE  Inv'
<1>1. PICK w \in Nat : w = written
  BY VarintAssumption DEF Inv, TypeOK
<1>2. PICK q \in Nat, s \in Nat : q = rest \div Group /\ s = Sums(input')[w + 1]
  BY <1>1, ByteWritten
<1>3. /\ rest' = q /\ q \in U64 /\ written' = w + 1 /\ w + 1 \in 1..MaxLen
      /\ input' \in Seq(Bytes) /\ w + 1 <= Len(input')
      /\ \A k \in 1..w : input'[k].more
      /\ s + q * Place(w + 1) = zigzag_encode(value[1])
      /\ \/ /\ q # 0 /\ input'[w + 1].more /\ outcome' = "writing"
            /\ Len(input') = w + 1 /\ w + 1 < MaxLen
         \/ q = 0 /\ ~input'[w + 1].more /\ outcome' = "reading"
  BY <1>1, <1>2, ByteWritten
<1>4. /\ value' = value /\ i' = i /\ result' = result /\ shift' = shift
      /\ value # <<>> /\ i = 0 /\ result = 0
  BY DEF WriteByte, Inv, WriterInv
<1>5. TypeOK'
  <2>1. i' \in 0..Len(input')
    BY <1>3, <1>4
  <2>2. /\ value \in {<<>>} \cup {<<n>> : n \in I64} /\ result \in U64
        /\ shift = i * GroupBits
    BY DEF Inv, TypeOK
  <2>3. written' \in 0..MaxLen
    BY <1>3
  <2>. QED
    BY <1>3, <1>4, <2>1, <2>2, <2>3 DEF TypeOK
<1>6. CASE /\ q # 0 /\ input'[w + 1].more /\ outcome' = "writing"
           /\ Len(input') = w + 1 /\ w + 1 < MaxLen
  <2>1. GoOn(written)'
    BY <1>3, <1>6 DEF GoOn
  <2>2. WriterInv'
    BY <1>2, <1>3, <1>4, <1>6, <2>1 DEF WriterInv
  <2>3. ReaderInv'
    BY <1>6 DEF ReaderInv
  <2>. QED
    BY <1>5, <2>2, <2>3 DEF Inv
<1>7. CASE q = 0 /\ ~input'[w + 1].more /\ outcome' = "reading"
  <2>1. s = zigzag_encode(value[1])
    <3>1. Place(w + 1) \in Nat
      BY Places
    <3>2. q * Place(w + 1) = 0
      BY <1>7, <3>1
    <3>. QED
      BY <1>3, <3>2
  <2>2. GoOn(w)' /\ (w + 1) - 1 = w /\ w + 1 \in 1..Len(input')
    BY <1>3 DEF GoOn
  <2>3. EndsAt(written)'
    BY <1>3, <1>7, <2>2 DEF EndsAt
  <2>4. WriterInv'
    BY <1>2, <1>3, <1>4, <1>7, <2>1, <2>3 DEF WriterInv
  <2>5. Sums(input')[0] = 0 /\ Place(0) = 1 /\ 0 < MaxLen
    BY <1>3, SumsGrow, Places, VarintAssumption
  <2>6. GoOn(0)'
    BY DEF GoOn
  <2>7. ReaderInv'
    BY <1>4, <1>7, <2>5, <2>6 DEF ReaderInv
  <2>. QED
    BY <1>5, <2>4, <2>7 DEF Inv
<1>. QED
  BY <1>3, <1>6, <1>7

\* Looking behind the last byte.
LEMMA EndOfInputInv ==
    ASSUME Inv, EndOfInput
    PROVE  Inv'
<1>1. /\ outcome = "reading" /\ i = Len(input) /\ outcome' = "Truncated"
      /\ UNCHANGED <<value, rest, input, written, i, result, shift>>
  BY DEF EndOfInput, Reading
<1>2. TypeOK'
  BY <1>1 DEF Inv, TypeOK
<1>3. GoOn(i) => GoOn(i)'
  BY <1>1 DEF GoOn
<1>4. EndsAt(written) => EndsAt(written)'
  BY <1>1 DEF EndsAt, GoOn
<1>5. WriterInv'
  BY <1>1, <1>4 DEF Inv, WriterInv
<1>6. ReaderInv'
  BY <1>1, <1>3 DEF Inv, ReaderInv
<1>. QED
  BY <1>2, <1>5, <1>6 DEF Inv

\* Reading a byte.
LEMMA ReadByteInv ==
    ASSUME Inv, ReadByte
    PROVE  Inv'
<1>. DEFINE byte == input[i + 1]
<1>1. outcome = "reading" /\ i < Len(input) /\ UNCHANGED <<value, rest, input, written>>
  BY DEF ReadByte, Reading
<1>2. input \in Seq(Bytes) /\ i \in 0..Len(input) /\ TypeOK /\ shift = i * GroupBits
  BY DEF Inv, TypeOK
<1>3. /\ result = Sums(input)[i] /\ i < MaxLen /\ GoOn(i) /\ result < Place(i)
      /\ (value # <<>> =>
              EndsAt(written) /\ Sums(input)[written] = zigzag_encode(value[1]))
  BY <1>1 DEF Inv, WriterInv, ReaderInv
<1>4. PICK j \in Nat : j = i /\ j + 1 \in 1..Len(input) /\ j + 1 <= MaxLen
  <2>1. i \in Nat /\ i + 1 \in 1..Len(input) /\ i + 1 <= MaxLen
    BY <1>1, <1>2, <1>3, VarintAssumption
  <2>. QED
    BY <2>1
<1>5. byte \in Bytes
  BY <1>2, <1>4
<1>6. EndsAt(written) => EndsAt(written)'
  BY <1>1 DEF EndsAt, GoOn
<1>7. WriterInv' \/ outcome' = "writing"
  BY <1>1, <1>3, <1>6 DEF WriterInv
<1>8. CASE TooLong(byte)
  <2>1. outcome' = "VarInt" /\ UNCHANGED <<i, result, shift>>
    BY <1>8 DEF ReadByte
  <2>2. TypeOK'
    BY <1>1, <1>2, <2>1 DEF TypeOK
  <2>3. GoOn(i)'
    BY <1>1, <1>3, <2>1 DEF GoOn
  <2>4. TooLong(input[i + 1])' /\ i + 1 = MaxLen
    BY <1>1, <1>4, <1>8, <2>1, VarintAssumption DEF TooLong
  <2>5. ReaderInv'
    BY <1>1, <1>3, <2>1, <2>3, <2>4 DEF ReaderInv
  <2>. QED
    BY <1>7, <2>1, <2>2, <2>5 DEF Inv
<1>9. CASE ~TooLong(byte)
  <2>1. /\ i' = i + 1 /\ result' = (result + byte.bits * Pow2[shift]) % Modulus
        /\ shift' = shift + GroupBits
        /\ outcome' = IF byte.more THEN "reading" ELSE "ok"
    BY <1>9 DEF ReadByte
  <2>2. PICK b \in Nat, p \in Nat, a \in Nat :
            /\ b = byte.bits /\ b <= Group - 1 /\ p = Place(j) /\ p > 0 /\ a = result
            /\ a < p /\ Place(j + 1) = Group * p
    <3>1. byte.bits \in 0..(Group - 1) /\ byte.bits \in Nat
      BY <1>5, BitsOfByte
    <3>2. Place(j) \in Nat \ {0} /\ Place(j + 1) = Group * Place(j)
      BY Places
    <3>3. result \in Nat
      BY <1>2, Width DEF TypeOK
    <3>4. result < Place(j) /\ Place(j) > 0
      BY <1>3, <1>4, <3>2
    <3>5. byte.bits <= Group - 1
      BY <3>1
    <3>. HIDE DEF byte
    <3>. QED
      BY <3>1, <3>2, <3>3, <3>4, <3>5
  <2>3. Pow2[shift] = p
    <3>1. shift = GroupBits * j
      BY <1>2, <1>4, VarintAssumption
    <3>. QED
      BY <2>2, <3>1 DEF Place
  <2>4. a + b * p \in Nat /\ a + b * p < Group * p
    <3>1. PICK d \in Nat : Group = b + 1 + d
      <4>1. Group - 1 - b \in Nat /\ Group = b + 1 + (Group - 1 - b)
        BY <2>2, Places
      <4>. QED
        BY <4>1
    <3>2. Group * p = b * p + p + d * p
      BY <3>1
    <3>3. b * p \in Nat /\ d * p \in Nat
      OBVIOUS
    <3>. QED
      BY <2>2, <3>2, <3>3
  <2>5. a + b * p < Modulus
    <3>1. CASE j + 1 = MaxLen
      <4>1. j = MaxLen - 1 /\ i = MaxLen - 1
        BY <1>4, <3>1, VarintAssumption
      <4>2. b <= 1
        BY <1>9, <2>2, <4>1 DEF TooLong
      <4>3. b * p <= p
        <5>1. \A x \in Nat, y \in Nat : x <= 1 => x * y <= y
          OBVIOUS
        <5>. QED
          BY <4>2, <5>1
      <4>4. Modulus = 2 * p
        BY <2>2, <4>1, LastPlace
      <4>5. b * p \in Nat
        OBVIOUS
      <4>. QED
        BY <2>2, <4>3, <4>4, <4>5
    <3>2. CASE j + 1 < MaxLen
      <4>1. MaxLen - 1 \in Nat /\ j + 1 <= MaxLen - 1
        BY <3>2, VarintAssumption
      <4>2. Place(j + 1) <= Place(MaxLen - 1)
        BY <4>1, PlacesGrow
      <4>3. Place(MaxLen - 1) < Modulus
        BY LastPlace
      <4>4. Place(MaxLen - 1) \in Nat /\ Group * p \in Nat /\ Modulus \in Nat
        BY LastPlace, Places, Width
      <4>. QED
        BY <2>2, <2>4, <4>2, <4>3, <4>4
    <3>. QED
      BY <1>4, <3>1, <3>2, VarintAssumption
  <2>6. result' = a + b * p /\ result' \in U64
    <3>1. PICK x \in 0..(Modulus - 1) : x = a + b * p
      BY <2>4, <2>5, Width
    <3>2. x % Modulus = x
      BY <3>1, Remainders, Width
    <3>. QED
      BY <2>1, <2>2, <2>3, <3>1, <3>2, Width
  <2>7. result' = Sums(input)[j + 1]
    <3>1. j \in 0..(Len(input) - 1)
      BY <1>4
    <3>2. Sums(input)[j + 1] = Sums(input)[j] + input[j + 1].bits * Place(j)
      BY <1>2, <3>1, SumsGrow
    <3>. QED
      BY <1>3, <1>4, <2>2, <2>6, <3>2
  <2>8. TypeOK'
    <3>1. i' \in 0..Len(input')
      BY <1>1, <1>4, <2>1
    <3>2. shift' = i' * GroupBits
      BY <1>2, <1>4, <2>1, VarintAssumption
    <3>. QED
      BY <1>1, <1>2, <2>1, <2>6, <3>1, <3>2 DEF TypeOK
  <2>9. CASE byte.more
    <3>1. outcome' = "reading"
      BY <2>1, <2>9
    <3>2. j + 1 # MaxLen
      BY <1>4, <1>9, <2>9, VarintAssumption DEF TooLong
    <3>3. i' = j + 1 /\ i' < MaxLen
      BY <1>4, <2>1, <3>2, VarintAssumption
    <3>4. GoOn(i)'
      <4>1. \A k \in 1..(j + 1) : k = j + 1 \/ k \in 1..j
        OBVIOUS
      <4>2. \A k \in 1..(j + 1) : input[k].more
        BY <1>3, <1>4, <2>9, <4>1 DEF GoOn
      <4>. QED
        BY <1>1, <3>3, <4>2 DEF GoOn
    <3>5. result' < Place(i')
      BY <2>2, <2>4, <2>6, <3>3
    <3>6. ReaderInv'
      BY <1>1, <2>7, <3>1, <3>3, <3>4, <3>5 DEF ReaderInv
    <3>. QED
      BY <1>7, <2>8, <3>1, <3>6 DEF Inv
  <2>10. CASE ~byte.more
    <3>1. outcome' = "ok" /\ i' = j + 1
      BY <1>4, <2>1, <2>10
    <3>2. GoOn(j) /\ (j + 1) - 1 = j /\ ~input[j + 1].more
      BY <1>3, <1>4, <2>10
    <3>3. EndsAt(j + 1)
      BY <1>4, <3>2 DEF EndsAt
    <3>4. EndsAt(i)'
      BY <1>1, <3>1, <3>3 DEF EndsAt, GoOn
    <3>5. ReaderInv'
      BY <1>1, <2>7, <3>1, <3>4 DEF ReaderInv
    <3>. QED
      BY <1>7, <2>8, <3>1, <3>5 DEF Inv
  <2>. QED
    BY <2>9, <2>10
<1>. QED
  BY <1>8, <1>9

\* It holds in every state.
LEMMA VarintInvariant == Spec => []Inv
<1>1. Init => Inv
  BY InitInv
<1>2. Inv /\ [Next]_vars => Inv'
  <2>. SUFFICES ASSUME Inv, [Next]_vars PROVE Inv'
    OBVIOUS
  <2>1. CASE WriteByte
    BY <2>1, WriteByteInv
  <2>2. CASE ReadByte
    BY <2>2, ReadByteInv
  <2>3. CASE EndOfInput
    BY <2>3, EndOfInputInv
  <2>4. CASE UNCHANGED vars
    BY <2>4 DEF vars, Inv, TypeOK, WriterInv, ReaderInv, GoOn, EndsAt, TooLong
  <2>. QED
    BY <2>1, <2>2, <2>3, <2>4 DEF Next, Stopped
<1>. QED
  BY <1>1, <1>2, PTL DEF Spec
-----------------------------------------------------------------------------
(* What follows for every width.                                             *)

\* Only one byte is the last one of a varint.
LEMMA OneEnd ==
    ASSUME NEW m, NEW n, EndsAt(m), EndsAt(n), input \in Seq(Bytes)
    PROVE  m = n
<1>1. m \in Nat /\ n \in Nat /\ m >= 1 /\ n >= 1
  BY DEF EndsAt
<1>2. m < n => m \in 1..(n - 1)
  BY <1>1
<1>3. n < m => n \in 1..(m - 1)
  BY <1>1
<1>. QED
  BY <1>1, <1>2, <1>3 DEF EndsAt, GoOn

\* Every write_ivarint is a number of at most ten bytes, and no variable leaves
\* its type: what the reader has stays below 2^64 before it is cut to that.
THEOREM VarintTypeOK == Spec => []TypeOK
<1>1. Inv => TypeOK
  BY DEF Inv
<1>. QED
  BY <1>1, VarintInvariant, PTL

\* read_uvarint stopped for its tenth byte: this one is the last and too large, or
\* it is none.
LEMMA TooLongMeans ==
    ASSUME Inv, outcome = "VarInt"
    PROVE  /\ Len(input) >= MaxLen
           /\ ~input[MaxLen].more => EndsAt(MaxLen) /\ Sums(input)[MaxLen] >= Modulus
           /\ input[MaxLen].more => GoOn(MaxLen)
<1>1. /\ input \in Seq(Bytes) /\ i \in 0..Len(input) /\ i + 1 = MaxLen /\ i < Len(input)
      /\ TooLong(input[i + 1]) /\ GoOn(i)
  BY DEF Inv, TypeOK, ReaderInv
<1>2. PICK j \in Nat : j = i /\ j + 1 = MaxLen /\ j = MaxLen - 1 /\ j + 1 \in 1..Len(input)
  <2>1. i \in Nat /\ i + 1 = MaxLen /\ i = MaxLen - 1 /\ i + 1 \in 1..Len(input)
    BY <1>1, VarintAssumption
  <2>. QED
    BY <2>1
<1>3. Len(input) >= MaxLen
  BY <1>1, <1>2, VarintAssumption
<1>4. ASSUME ~input[MaxLen].more PROVE EndsAt(MaxLen) /\ Sums(input)[MaxLen] >= Modulus
  <2>1. EndsAt(MaxLen)
    BY <1>1, <1>2, <1>4 DEF EndsAt
  <2>2. input[MaxLen].bits > 1
    BY <1>1, <1>2, <1>4 DEF TooLong
  <2>3. PICK s \in Nat, b \in Nat, p \in Nat :
            /\ s = Sums(input)[j] /\ b = input[MaxLen].bits /\ p = Place(j)
            /\ Sums(input)[MaxLen] = s + b * p
    <3>1. j \in 0..(Len(input) - 1) /\ j \in 0..Len(input)
      BY <1>2
    <3>2. Sums(input)[j + 1] = Sums(input)[j] + input[j + 1].bits * Place(j)
      BY <1>1, <3>1, SumsGrow
    <3>3. Sums(input)[j] \in Nat
      BY <1>1, <3>1, SumsGrow
    <3>4. input[MaxLen] \in Bytes
      BY <1>1, <1>2
    <3>5. input[MaxLen].bits \in Nat
      BY <3>4, BitsOfByte
    <3>6. Place(j) \in Nat
      BY Places
    <3>. QED
      BY <1>2, <3>2, <3>3, <3>5, <3>6
  <2>4. Modulus = 2 * p
    BY <1>2, <2>3, LastPlace
  <2>5. \A x \in Nat, y \in Nat : x > 1 => x * y >= 2 * y
    OBVIOUS
  <2>6. b * p >= 2 * p /\ b * p \in Nat
    BY <2>2, <2>3, <2>5
  <2>. QED
    BY <2>1, <2>3, <2>4, <2>6
<1>5. ASSUME input[MaxLen].more PROVE GoOn(MaxLen)
  <2>1. \A k \in 1..MaxLen : k = MaxLen \/ k \in 1..j
    BY <1>2, VarintAssumption
  <2>. QED
    BY <1>1, <1>2, <1>5, <2>1 DEF GoOn
<1>. QED
  BY <1>3, <1>4, <1>5

\* The end of a varint, when there is one, is what Meaning finds.
LEMMA MeaningAtEnd ==
    ASSUME NEW n, EndsAt(n), input \in Seq(Bytes)
    PROVE  Meaning = IF Sums(input)[n] < Modulus THEN [outcome |-> "ok", n |-> Sums(input)[n]]
                     ELSE [outcome |-> "VarInt", n |-> 0]
<1>. DEFINE ends == {k \in 1..Len(input) : k <= MaxLen /\ ~input[k].more}
            end == CHOOSE k \in ends : \A l \in ends : k <= l
<1>1. n \in ends
  BY DEF EndsAt
<1>2. \A l \in ends : n <= l
  <2>. SUFFICES ASSUME NEW l \in ends, l < n PROVE FALSE
    BY DEF EndsAt
  <2>1. l \in 1..(n - 1)
    BY DEF EndsAt
  <2>. QED
    BY <2>1 DEF EndsAt, GoOn
<1>3. \A k \in ends : (\A l \in ends : k <= l) => k = n
  BY <1>1, <1>2 DEF EndsAt
<1>4. end = n
  <2>. HIDE DEF ends
  <2>. QED
    BY <1>1, <1>2, <1>3
<1>. QED
  BY <1>1, <1>4, Zenon DEF Meaning

\* Where there is none, the bytes are too few or too many.
LEMMA MeaningWithoutEnd ==
    ASSUME input \in Seq(Bytes), \A k \in 1..Len(input) : k <= MaxLen => input[k].more
    PROVE  Meaning = [outcome |-> IF Len(input) < MaxLen THEN "Truncated" ELSE "VarInt", n |-> 0]
<1>. DEFINE ends == {k \in 1..Len(input) : k <= MaxLen /\ ~input[k].more}
<1>1. ends = {}
  OBVIOUS
<1>. QED
  BY <1>1, Zenon DEF Meaning

\* Whatever bytes read_uvarint is given, it returns the number they mean, or says
\* that they are no number of 64 bits, or that there are too few.
THEOREM VarintReadsMeaning == Spec => []ReadsMeaning
<1>1. ASSUME Inv PROVE ReadsMeaning
  <2>1. input \in Seq(Bytes) /\ i \in 0..Len(input) /\ result \in U64
    BY <1>1 DEF Inv, TypeOK
  <2>2. CASE outcome = "ok"
    <3>1. EndsAt(i) /\ result = Sums(input)[i]
      BY <1>1, <2>2 DEF Inv, ReaderInv
    <3>2. Sums(input)[i] < Modulus
      BY <2>1, <3>1, Width
    <3>3. Meaning = [outcome |-> "ok", n |-> Sums(input)[i]]
      BY <2>1, <3>1, <3>2, MeaningAtEnd
    <3>. QED
      BY <2>2, <3>1, <3>3 DEF ReadsMeaning
  <2>3. CASE outcome = "VarInt"
    <3>1. CASE ~input[MaxLen].more
      <4>1. EndsAt(MaxLen) /\ Sums(input)[MaxLen] >= Modulus
        BY <1>1, <2>3, <3>1, TooLongMeans
      <4>2. Sums(input)[MaxLen] \in Nat
        <5>1. MaxLen \in 0..Len(input)
          BY <4>1, VarintAssumption DEF EndsAt
        <5>. QED
          BY <2>1, <5>1, SumsGrow
      <4>3. ~(Sums(input)[MaxLen] < Modulus)
        BY <4>1, <4>2, Width
      <4>4. Meaning = [outcome |-> "VarInt", n |-> 0]
        BY <2>1, <4>1, <4>3, MeaningAtEnd
      <4>. QED
        BY <2>3, <4>4 DEF ReadsMeaning
    <3>2. CASE input[MaxLen].more
      <4>1. Len(input) >= MaxLen /\ GoOn(MaxLen)
        BY <1>1, <2>3, <3>2, TooLongMeans
      <4>2. \A k \in 1..Len(input) : k <= MaxLen => input[k].more
        BY <4>1, VarintAssumption DEF GoOn
      <4>3. ~(Len(input) < MaxLen)
        BY <2>1, <4>1, VarintAssumption
      <4>4. Meaning = [outcome |-> "VarInt", n |-> 0]
        BY <2>1, <4>2, <4>3, MeaningWithoutEnd
      <4>. QED
        BY <2>3, <4>4 DEF ReadsMeaning
    <3>. QED
      BY <3>1, <3>2
  <2>4. CASE outcome = "Truncated"
    <3>1. i = Len(input) /\ i < MaxLen /\ GoOn(i)
      BY <1>1, <2>4 DEF Inv, ReaderInv
    <3>2. \A k \in 1..Len(input) : k <= MaxLen => input[k].more
      BY <3>1 DEF GoOn
    <3>3. Meaning = [outcome |-> "Truncated", n |-> 0]
      BY <2>1, <3>1, <3>2, MeaningWithoutEnd
    <3>. QED
      BY <2>4, <3>3 DEF ReadsMeaning
  <2>. QED
    BY <2>2, <2>3, <2>4 DEF ReadsMeaning
<1>. QED
  BY <1>1, VarintInvariant, PTL

\* What write_ivarint writes, read_ivarint reads back, for every i64 and whatever
\* follows it, and reads no byte more.
THEOREM VarintIntegersSurvive == Spec => []IntegersSurvive
<1>1. ASSUME Inv PROVE IntegersSurvive
  <2>. SUFFICES ASSUME value # <<>>, outcome \notin {"writing", "reading"}
                PROVE  outcome = "ok" /\ <<zigzag_decode(result)>> = value /\ i = written
    BY DEF IntegersSurvive
  <2>1. /\ input \in Seq(Bytes) /\ i \in 0..Len(input)
        /\ outcome \in {"ok", "VarInt", "Truncated"}
    BY <1>1 DEF Inv, TypeOK
  <2>2. PICK n \in I64 : value = <<n>> /\ value[1] = n
    <3>1. PICK n \in I64 : value = <<n>>
      BY <1>1 DEF Inv, TypeOK
    <3>. QED
      BY <3>1
  <2>3. EndsAt(written) /\ Sums(input)[written] = zigzag_encode(n)
    BY <1>1, <2>2 DEF Inv, WriterInv
  <2>4. zigzag_encode(n) \in U64 /\ zigzag_decode(zigzag_encode(n)) = n
    BY ZigzagComesBack
  <2>5. CASE outcome = "ok"
    <3>1. EndsAt(i) /\ result = Sums(input)[i]
      BY <1>1, <2>5 DEF Inv, ReaderInv
    <3>2. i = written
      BY <2>1, <2>3, <3>1, OneEnd
    <3>. QED
      BY <2>2, <2>3, <2>4, <2>5, <3>1, <3>2
  <2>6. CASE outcome = "VarInt"
    <3>1. CASE ~input[MaxLen].more
      <4>1. EndsAt(MaxLen) /\ Sums(input)[MaxLen] >= Modulus
        BY <1>1, <2>6, <3>1, TooLongMeans
      <4>2. MaxLen = written
        BY <2>1, <2>3, <4>1, OneEnd
      <4>. QED
        BY <2>3, <2>4, <4>1, <4>2, Width
    <3>2. CASE input[MaxLen].more
      <4>1. GoOn(MaxLen)
        BY <1>1, <2>6, <3>2, TooLongMeans
      <4>2. written \in 1..MaxLen
        BY <2>3, VarintAssumption DEF EndsAt
      <4>. QED
        BY <2>3, <4>1, <4>2 DEF GoOn, EndsAt
    <3>. QED
      BY <3>1, <3>2
  <2>7. CASE outcome = "Truncated"
    <3>1. i = Len(input) /\ GoOn(i)
      BY <1>1, <2>7 DEF Inv, ReaderInv
    <3>. QED
      BY <2>3, <3>1 DEF GoOn, EndsAt
  <2>. QED
    BY <2>1, <2>5, <2>6, <2>7
<1>. QED
  BY <1>1, VarintInvariant, PTL
-----------------------------------------------------------------------------
(* The buffer: no sum and no doubling of enc_reserve wraps around, so that   *)
(* it is large enough when bytes are written into it.                        *)

\* A grown buffer is less than twice as large as what it must hold.
HalfFull == pc = "copy" => cap = InitCap \/ cap < 2 * (len + asked)

\* What is in memory at once, and how far the loop of enc_reserve gets.
Fits == pc # "ready" => len + asked <= Memory + 1
Grown == cap = InitCap \/ cap < 2 * (len + asked)
Growing == pc = "grow" => len + asked > cap /\ ncap > 0 /\ ncap < 2 * (len + asked)

BufferIInv ==
    /\ BufferTypeOK /\ NoOverrun
    /\ cap > 0 /\ cap <= Memory
    /\ Fits /\ Growing
    /\ IF pc = "ready" THEN cap = InitCap \/ cap < 2 * len ELSE Grown

\* A buffer as it is when pf_c_encode starts to write.
LEMMA BufferInitIInv == BufferInit => BufferIInv
BY BufferAssumption DEF BufferInit, BufferIInv, BufferTypeOK, NoOverrun, Fits, Growing, Grown

\* Sums of what is in memory do not wrap around: SizeT leaves them alone.
LEMMA NoWrap ==
    ASSUME NEW x \in Nat, x <= 2 * Memory
    PROVE SizeT(x) = x
BY BufferAssumption DEF SizeT

\* enc_reserve with a request that fits into the memory next to the buffer, or
\* of one byte.
LEMMA ReserveIInv ==
    ASSUME BufferIInv, pc = "ready", NEW k \in Requests \cup {1}, asked' = k,
           k = 1 \/ cap + k <= Memory, Reserve(k), UNCHANGED <<cap, len>>
    PROVE BufferIInv'
<1>1. /\ cap \in Nat /\ len \in 0..cap /\ k \in Nat
      /\ cap > 0 /\ cap <= Memory /\ Memory \in Nat /\ 2 * Memory < Word
  BY BufferAssumption DEF BufferIInv, BufferTypeOK
<1>2. len + k <= 2 * Memory
  BY <1>1
<1>3. SizeT(len + k) = len + k /\ Start = 2 * cap /\ 2 * cap \in 0..(Word - 1)
  <2>1. len + k \in Nat /\ 2 * cap \in Nat /\ 2 * cap <= 2 * Memory
    BY <1>1
  <2>2. SizeT(len + k) = len + k /\ SizeT(2 * cap) = 2 * cap
    BY <1>2, <2>1, NoWrap
  <2>. QED
    BY <1>1, <2>1, <2>2, BufferAssumption DEF Start
<1>4. cap = InitCap \/ cap < 2 * (len + k)
  BY <1>1 DEF BufferIInv
<1>5. CASE len + k <= cap
  <2>1. pc' = "copy" /\ ncap' = ncap
    BY <1>3, <1>5 DEF Reserve
  <2>. QED
    BY <1>1, <1>4, <1>5, <2>1 DEF BufferIInv, BufferTypeOK, NoOverrun, Fits, Growing, Grown
<1>6. CASE len + k > cap
  <2>1. pc' = "grow" /\ ncap' = 2 * cap
    BY <1>1, <1>3, <1>6 DEF Reserve
  <2>. QED
    BY <1>1, <1>3, <1>4, <1>6, <2>1 DEF BufferIInv, BufferTypeOK, NoOverrun, Fits, Growing, Grown
<1>. QED
  BY <1>1, <1>5, <1>6

\* Every step of the encoder keeps it.
LEMMA BufferNextIInv == BufferIInv /\ [BufferNext]_bufferVars => BufferIInv'
<1>. SUFFICES ASSUME BufferIInv, [BufferNext]_bufferVars PROVE BufferIInv'
  OBVIOUS
<1>1. /\ cap \in Nat /\ len \in 0..cap /\ asked \in Nat /\ ncap \in Nat /\ InitCap \in Nat \ {0}
      /\ cap > 0 /\ cap <= Memory /\ Memory \in Nat /\ 2 * Memory < Word /\ Word \in Nat
  BY BufferAssumption DEF BufferIInv, BufferTypeOK
<1>2. pc # "ready" => len + asked \in Nat /\ len + asked <= 2 * Memory
  BY <1>1 DEF BufferIInv, Fits
<1>3. CASE AppendBytes
  BY <1>3, ReserveIInv DEF AppendBytes
<1>4. CASE AppendByte
  <2>1. CASE len < cap
    BY <1>1, <1>4, <2>1 DEF AppendByte, BufferIInv, BufferTypeOK, NoOverrun, Fits, Growing, Grown
  <2>2. CASE ~(len < cap)
    BY <1>4, <2>2, ReserveIInv DEF AppendByte
  <2>. QED
    BY <2>1, <2>2
<1>5. CASE Double
  <2>1. Need = len + asked
    BY <1>1, <1>2, <1>5, NoWrap DEF Double, Need
  <2>2. ncap < len + asked /\ SizeT(2 * ncap) = 2 * ncap /\ ncap > 0
    <3>1. ncap < len + asked /\ ncap > 0
      BY <1>5, <2>1 DEF Double, Small, BufferIInv, Growing
    <3>2. len + asked \in Nat /\ len + asked <= Memory + 1
      BY <1>1, <1>5 DEF Double, BufferIInv, Fits
    <3>3. 2 * ncap \in Nat /\ 2 * ncap <= 2 * Memory
      BY <1>1, <3>1, <3>2
    <3>. QED
      BY <3>1, <3>3, NoWrap
  <2>. QED
    BY <1>1, <1>2, <1>5, <2>1, <2>2
    DEF Double, BufferIInv, BufferTypeOK, NoOverrun, Fits, Growing, Grown
<1>6. CASE Reallocate
  <2>1. Need = len + asked
    BY <1>1, <1>2, <1>6, NoWrap DEF Reallocate, Need
  <2>2. ncap >= len + asked /\ ncap < 2 * (len + asked)
    BY <1>1, <1>6, <2>1 DEF Reallocate, Small, BufferIInv, Growing
  <2>. QED
    BY <1>1, <1>6, <2>2 DEF Reallocate, BufferIInv, BufferTypeOK, NoOverrun, Fits, Growing, Grown
<1>7. CASE Copy
  <2>1. SizeT(len + asked) = len + asked
    BY <1>1, <1>2, <1>7, NoWrap DEF Copy
  <2>. QED
    BY <1>1, <1>7, <2>1 DEF Copy, BufferIInv, BufferTypeOK, NoOverrun, Fits, Growing, Grown
<1>8. CASE UNCHANGED bufferVars
  BY <1>8 DEF bufferVars, BufferIInv, BufferTypeOK, NoOverrun, Fits, Growing, Grown
<1>. QED
  BY <1>3, <1>4, <1>5, <1>6, <1>7, <1>8 DEF BufferNext

\* The inductive invariant holds of every behaviour of the buffer.
LEMMA BufferInvariant == BufferSpec => []BufferIInv
BY BufferInitIInv, BufferNextIInv, PTL DEF BufferSpec

\* The variables of pf_cenc and enc_reserve keep their types: the length is never
\* beyond the capacity.
THEOREM BufferTypeCorrect == BufferSpec => []BufferTypeOK
<1>. BufferIInv => BufferTypeOK
  BY DEF BufferIInv
<1>. QED
  BY BufferInvariant, PTL

\* enc_bytes and enc_u8 never write behind the block.
THEOREM BufferNotOverrun == BufferSpec => []NoOverrun
<1>. BufferIInv => NoOverrun
  BY DEF BufferIInv
<1>. QED
  BY BufferInvariant, PTL

\* A buffer that has grown is more than half full.
THEOREM BufferHalfFull == BufferSpec => []HalfFull
<1>. BufferIInv => HalfFull
  BY DEF BufferIInv, HalfFull, Grown
<1>. QED
  BY BufferInvariant, PTL
=============================================================================
