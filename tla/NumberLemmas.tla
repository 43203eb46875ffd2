---------------------------- MODULE NumberLemmas ----------------------------
(* Facts about natural numbers that the proofs of several components need:
   least elements, induction over a set, division. *)
EXTENDS Integers, FiniteSetsExt, WellFoundedInduction, TLAPS

LEMMA LeastNumber ==
    ASSUME NEW S \in SUBSET Nat, S # {}
    PROVE  \E n \in S : \A m \in S : n <= m
<1> DEFINE R == {ss \in Nat \X Nat : ss[1] < ss[2]}
<1>1. IsWellFoundedOn(R, Nat)
  BY NatLessThanWellFounded DEF OpToRel
<1>2. PICK n \in S : \A m \in S : ~(<<m, n>> \in R)
  BY <1>1, WFMin
<1>3. ASSUME NEW m \in S PROVE n <= m
  <2>1. m \in Nat /\ n \in Nat /\ <<m, n>> \in Nat \X Nat
    OBVIOUS
  <2>2. ~(<<m, n>>[1] < <<m, n>>[2])
    BY <1>2, <2>1
  <2> QED  BY <2>1, <2>2
<1> QED  BY <1>3

LEMMA MinOf ==
    ASSUME NEW S \in SUBSET Nat, S # {}
    PROVE  Min(S) \in S /\ \A y \in S : Min(S) <= y
BY LeastNumber DEF Min

\* The least of two numbers, as the code writes it.
LEMMA MinOfTwo ==
    ASSUME NEW a \in Nat, NEW b \in Nat
    PROVE  Min({a, b}) = IF a <= b THEN a ELSE b
<1> DEFINE S == {a, b}
<1>1. Min(S) \in S /\ \A y \in S : Min(S) <= y
  BY MinOf
<1> QED  BY <1>1

\* A set that begins at 0 and is closed under successor holds every number.
LEMMA AllNumbers ==
    ASSUME NEW S, 0 \in S, \A n \in Nat : n \in S => n + 1 \in S
    PROVE  Nat \subseteq S
<1> SUFFICES ASSUME Nat \ S # {} PROVE FALSE
  OBVIOUS
<1>1. PICK n \in Nat \ S : \A m \in Nat \ S : n <= m
  BY LeastNumber
<1>2. n - 1 \in Nat /\ ~(n <= n - 1)
  BY <1>1
<1>3. n - 1 \in S
  BY <1>1, <1>2
<1> QED  BY <1>1, <1>2, <1>3

LEMMA Division ==
    ASSUME NEW n \in Nat, NEW size \in Nat \ {0}
    PROVE  /\ n \div size \in Nat
           /\ size * (n \div size) <= n
           /\ n < size * (n \div size) + size
OBVIOUS

\* A cursor that moves by at least a unit has one unit fewer ahead of it.
LEMMA DivisionLess ==
    ASSUME NEW size \in Nat \ {0}, NEW m \in Nat, NEW n \in Nat, m + size <= n
    PROVE  /\ m \div size \in Nat /\ n \div size \in Nat
           /\ m \div size < n \div size
<1> PICK a, b : a = m \div size /\ b = n \div size
  OBVIOUS
<1>1. /\ a \in Nat /\ size * a <= m
      /\ b \in Nat /\ n < size * b + size
  BY Division
<1>2. ASSUME b <= a PROVE FALSE
  <2>1. (a - b) * size >= 0
    BY <1>1, <1>2
  <2>2. (a - b) * size = size * a - size * b
    BY <1>1
  <2>3. size * a \in Nat /\ size * b \in Nat
    BY <1>1
  <2> QED  BY <1>1, <2>1, <2>2, <2>3
<1> QED  BY <1>1, <1>2

\* Division that rounds up counts the blocks that are begun.
LEMMA CeilingDivision ==
    ASSUME NEW len \in Nat, NEW size \in Nat \ {0}, NEW j \in Nat
    PROVE  /\ (len + size - 1) \div size \in Nat
           /\ j * size < len <=> j < (len + size - 1) \div size
<1> DEFINE q == (len + size - 1) \div size
<1>1. q \in Nat /\ size * q <= len + size - 1 /\ len + size - 1 < size * q + size
  BY Division
<1> HIDE DEF q
<1>2. ASSUME j < q PROVE j * size < len
  <2>1. (q - (j + 1)) * size >= 0
    BY <1>1, <1>2
  <2>2. (q - (j + 1)) * size = size * q - j * size - size
    BY <1>1
  <2> QED  BY <1>1, <2>1, <2>2
<1>3. ASSUME ~(j < q) PROVE ~(j * size < len)
  <2>1. (j - q) * size >= 0
    BY <1>1, <1>3
  <2>2. (j - q) * size = j * size - size * q
    BY <1>1
  <2> QED  BY <1>1, <2>1, <2>2
<1> QED  BY <1>1, <1>2, <1>3 DEF q

(* The running sum of N numbers, defined by recursion, is what it is meant to be:
   such a function exists for every n up to N, by induction. *)
RunningSum(N, g) == CHOOSE f : f = [n \in 0 .. N |-> IF n = 0 THEN 0 ELSE f[n - 1] + g[n]]

LEMMA RunningSumIs ==
    ASSUME NEW N \in Nat, NEW g \in [1 .. N -> Nat]
    PROVE  /\ RunningSum(N, g) \in [0 .. N -> Nat] /\ RunningSum(N, g)[0] = 0
           /\ \A n \in 1 .. N : RunningSum(N, g)[n] = RunningSum(N, g)[n - 1] + g[n]
<1> DEFINE Sums(f, n) == /\ f \in [0 .. n -> Nat] /\ f[0] = 0
                         /\ \A m \in 1 .. n : f[m] = f[m - 1] + g[m]
           D == {n \in Nat : n <= N => \E f : Sums(f, n)}
<1>1. 0 \in D
  <2> DEFINE z == [m \in 0 .. 0 |-> 0]
  <2>1. z \in [0 .. 0 -> Nat] /\ z[0] = 0
    OBVIOUS
  <2>2. ASSUME NEW m \in 1 .. 0 PROVE FALSE
    OBVIOUS
  <2> HIDE DEF z
  <2>3. Sums(z, 0)
    BY <2>1, <2>2
  <2> QED  BY <2>3
<1>2. ASSUME NEW n \in Nat, n \in D PROVE n + 1 \in D
  <2> HIDE DEF Sums
  <2> SUFFICES ASSUME n + 1 <= N PROVE \E f : Sums(f, n + 1)
    OBVIOUS
  <2>1. PICK f : Sums(f, n)
    BY <1>2
  <2> USE DEF Sums
  <2> DEFINE h == [m \in 0 .. n + 1 |-> IF m = n + 1 THEN f[n] + g[n + 1] ELSE f[m]]
  <2>2. n + 1 \in 1 .. N /\ g[n + 1] \in Nat /\ f[n] \in Nat
    BY <2>1
  <2>3. h \in [0 .. n + 1 -> Nat]
    BY <2>1, <2>2
  <2>4. h[0] = 0
    BY <2>1
  <2>5. ASSUME NEW m \in 1 .. n + 1 PROVE h[m] = h[m - 1] + g[m]
    <3>1. m - 1 \in 0 .. n + 1 /\ m - 1 # n + 1 /\ h[m - 1] = f[m - 1]
      OBVIOUS
    <3>2. CASE m = n + 1
      BY <3>1, <3>2
    <3>3. CASE m \in 1 .. n
      <4>1. m \in 0 .. n + 1 /\ m # n + 1
        BY <3>3
      <4>2. h[m] = f[m]
        BY <4>1
      <4> QED  BY <2>1, <3>1, <3>3, <4>2
    <3> QED  BY <3>2, <3>3
  <2> HIDE DEF h
  <2> QED  BY <2>3, <2>4, <2>5
<1>3. Nat \subseteq D
  <2> HIDE DEF D
  <2> QED  BY <1>1, <1>2, AllNumbers
<1>4. PICK f : Sums(f, N)
  <2>1. N \in D
    BY <1>3
  <2>2. N <= N => \E f : Sums(f, N)
    BY <2>1
  <2>3. N <= N
    OBVIOUS
  <2> HIDE DEF Sums
  <2> QED  BY <2>2, <2>3
<1>5. f = [n \in 0 .. N |-> IF n = 0 THEN 0 ELSE f[n - 1] + g[n]]
  BY <1>4
<1> DEFINE F == RunningSum(N, g)
<1>6. F = [n \in 0 .. N |-> IF n = 0 THEN 0 ELSE F[n - 1] + g[n]]
  BY <1>5 DEF RunningSum
<1> HIDE DEF F
<1>7. F[0] = 0 /\ \A n \in 1 .. N : F[n] = F[n - 1] + g[n]
  BY <1>6
<1> DEFINE E == {n \in Nat : n <= N => F[n] \in Nat}
<1>8. 0 \in E /\ \A n \in Nat : n \in E => n + 1 \in E
  <2>1. ASSUME NEW n \in Nat, n \in E, n + 1 <= N PROVE F[n + 1] \in Nat
    <3>1. n + 1 \in 1 .. N /\ F[n] \in Nat /\ g[n + 1] \in Nat
      BY <2>1
    <3> QED  BY <1>7, <3>1
  <2> QED  BY <1>7, <2>1
<1>9. Nat \subseteq E
  <2> HIDE DEF E
  <2> QED  BY <1>8, AllNumbers
<1>10. F \in [0 .. N -> Nat]
  BY <1>6, <1>9
<1> QED  BY <1>7, <1>10 DEF F

LEMMA MaxOf ==
    ASSUME NEW N \in Nat, NEW S \in SUBSET (0 .. N), S # {}
    PROVE  Max(S) \in S /\ \A y \in S : y <= Max(S)
<1> DEFINE T == {N - y : y \in S}
<1>1. T \in SUBSET Nat /\ T # {}
  <2>1. \A y \in S : y \in 0 .. N /\ N - y \in Nat
    OBVIOUS
  <2>2. PICK y : y \in S
    OBVIOUS
  <2>3. N - y \in T
    BY <2>2
  <2>4. T \subseteq Nat
    BY <2>1
  <2> QED  BY <2>3, <2>4
<1>2. PICK t \in T : \A u \in T : t <= u
  <2> HIDE DEF T
  <2> QED  BY <1>1, LeastNumber
<1>3. PICK x \in S : t = N - x
  BY <1>2
<1>4. \A y \in S : x >= y
  BY <1>2, <1>3
<1>5. Max(S) \in S /\ \A y \in S : Max(S) >= y
  BY <1>3, <1>4 DEF Max
<1> QED  BY <1>5

=============================================================================
