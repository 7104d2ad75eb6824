--------------------------- MODULE HistogramProofs --------------------------
(***************************************************************************)
(* Theorems about Histogram.  The functions it defines by recursion are    *)
(* handled by the least-number principle: what a definition says of them   *)
(* is derived first, then used like any other fact.                        *)
(***************************************************************************)
EXTENDS Histogram, WellFoundedInduction, FiniteSetTheorems, SequenceTheorems,
        TLAPS

-----------------------------------------------------------------------------
(* Induction and recursion *)

(* A non-empty set of naturals has a least element.                        *)
LEMMA LeastNumber ==
  ASSUME NEW T \in SUBSET Nat, T # {}
  PROVE  \E x \in T : \A y \in T : x <= y
<1>1. \E x \in T : \A y \in T : <<y, x>> \notin OpToRel(<, Nat)
  BY NatLessThanWellFounded, WFMin
<1>2. ASSUME NEW x \in T, NEW y \in T, y < x
      PROVE  <<y, x>> \in OpToRel(<, Nat)
  <2>1. <<y, x>> \in Nat \X Nat /\ <<y, x>>[1] < <<y, x>>[2]
    BY <1>2
  <2> QED BY <2>1, Zenon DEF OpToRel
<1>3. \E x \in T : \A y \in T : ~ (y < x)
  BY <1>1, <1>2
<1> QED BY <1>3

(* A set of naturals that has 0 and with a number its successor has all.   *)
LEMMA Induction ==
  ASSUME NEW P, 0 \in P, \A n \in Nat : n \in P => n + 1 \in P
  PROVE  \A n \in Nat : n \in P
<1> SUFFICES ASSUME Nat \ P # {} PROVE FALSE
  OBVIOUS
<1>1. PICK m \in Nat \ P : \A y \in Nat \ P : m <= y
  BY LeastNumber
<1>2. m # 0 /\ m - 1 \in Nat
  BY <1>1
<1>3. m - 1 \in P
  BY <1>1, <1>2
<1> QED BY <1>1, <1>2, <1>3

(* The solutions of a recursion up to n: start, and then step by step.     *)
Solutions(S, c, step, n) ==
  { f \in [0 .. n -> S] :
      f[0] = c /\ \A i \in 0 .. n - 1 : f[i + 1] = step[<<i, f[i]>>] }

(* Any two solutions agree where both are defined ...                      *)
LEMMA SolutionsAgree ==
  ASSUME NEW S, NEW c, NEW step, NEW m \in Nat, NEW n \in Nat,
         NEW f \in Solutions(S, c, step, m), NEW g \in Solutions(S, c, step, n)
  PROVE  \A i \in Nat : i <= m /\ i <= n => f[i] = g[i]
<1> DEFINE P == { i \in Nat : i <= m /\ i <= n => f[i] = g[i] }
<1>1. 0 \in P
  BY DEF Solutions
<1>2. ASSUME NEW i \in Nat, i \in P, i + 1 <= m, i + 1 <= n
      PROVE  f[i + 1] = g[i + 1]
  <2>1. i \in 0 .. m - 1 /\ i \in 0 .. n - 1 /\ f[i] = g[i]
    BY <1>2
  <2> QED BY <2>1 DEF Solutions
<1>3. \A i \in Nat : i \in P => i + 1 \in P
  BY <1>2
<1> HIDE DEF P
<1>4. \A i \in Nat : i \in P
  BY <1>1, <1>3, Induction
<1> QED BY <1>4 DEF P

StepOf(step, S) == step \in [Nat \X S -> S]

(* ... and there is one up to every n.                                     *)
LEMMA SolutionExists ==
  ASSUME NEW S, NEW c \in S, NEW step, StepOf(step, S), NEW n \in Nat
  PROVE  Solutions(S, c, step, n) # {}
<1>0. step \in [Nat \X S -> S]
  BY DEF StepOf
<1> DEFINE P == { i \in Nat : Solutions(S, c, step, i) # {} }
<1>1. 0 \in P
  <2>1. [i \in 0 .. 0 |-> c] \in Solutions(S, c, step, 0)
    BY DEF Solutions
  <2> QED BY <2>1
<1>2. ASSUME NEW i \in Nat, i \in P PROVE i + 1 \in P
  <2>1. PICK f : f \in Solutions(S, c, step, i)
    BY <1>2
  <2>2. f \in [0 .. i -> S] /\ f[0] = c /\ step[<<i, f[i]>>] \in S
    BY <1>0, <2>1 DEF Solutions
  <2> DEFINE g == [j \in 0 .. i + 1 |-> IF j = i + 1 THEN step[<<i, f[i]>>] ELSE f[j]]
  <2>3. g \in [0 .. i + 1 -> S] /\ g[0] = c
    BY <2>2
  <2>4. ASSUME NEW j \in 0 .. i
        PROVE  g[j + 1] = step[<<j, g[j]>>]
    <3>1. g[j] = f[j]
      <4>1. j \in 0 .. i + 1 /\ j # i + 1
        OBVIOUS
      <4> QED BY <4>1
    <3>2. CASE j = i
      <4>1. g[i + 1] = step[<<i, f[i]>>]
        OBVIOUS
      <4> HIDE DEF g
      <4> QED BY <3>1, <3>2, <4>1
    <3>3. CASE j \in 0 .. i - 1
      <4>1. g[j + 1] = f[j + 1] /\ f[j + 1] = step[<<j, f[j]>>]
        BY <2>1, <3>3 DEF Solutions
      <4> QED BY <3>1, <4>1
    <3> QED BY <3>2, <3>3
  <2>5. g \in Solutions(S, c, step, i + 1)
    <3> HIDE DEF g
    <3> QED BY <2>3, <2>4 DEF Solutions
  <2> QED BY <2>5
<1> HIDE DEF P
<1>3. \A i \in Nat : i \in P
  BY <1>1, <1>2, Induction
<1> QED BY <1>3 DEF P

Solves(f, S, c, step) ==
  /\ f \in [Nat -> S]
  /\ f[0] = c /\ \A n \in Nat : f[n + 1] = step[<<n, f[n]>>]

(* A recursion on the naturals has a solution.                             *)
LEMMA Recursion ==
  ASSUME NEW S, NEW c \in S, NEW step, StepOf(step, S)
  PROVE  \E f : Solves(f, S, c, step)
<1> DEFINE sol(n) == CHOOSE f : f \in Solutions(S, c, step, n)
<1> DEFINE g == [n \in Nat |-> sol(n)[n]]
<1>1. \A n \in Nat : sol(n) \in Solutions(S, c, step, n)
  BY SolutionExists
<1>2. \A n \in Nat : sol(n)[n] \in S
  <2> HIDE DEF sol
  <2> QED BY <1>1 DEF Solutions
<1>3. g[0] = c
  <2> HIDE DEF sol
  <2> QED BY <1>1 DEF Solutions
<1>4. ASSUME NEW n \in Nat
      PROVE  g[n + 1] = step[<<n, g[n]>>]
  <2> HIDE DEF sol
  <2>1. sol(n + 1)[n] = sol(n)[n]
    BY <1>1, SolutionsAgree
  <2>2. sol(n + 1)[n + 1] = step[<<n, sol(n + 1)[n]>>]
    <3>1. sol(n + 1) \in Solutions(S, c, step, n + 1)
      BY <1>1
    <3> QED BY <3>1 DEF Solutions
  <2> QED BY <2>1, <2>2
<1>5. g \in [Nat -> S]
  BY <1>2
<1> HIDE DEF g
<1>6. Solves(g, S, c, step)
  BY <1>3, <1>4, <1>5 DEF Solves
<1> QED BY <1>6

-----------------------------------------------------------------------------
(* Powers of ten *)

(* What the recursive definition says of the powers of ten.                *)
LEMMA Power10Def ==
  /\ Power10[0] = 1
  /\ \A n \in Nat : Power10[n] \in Nat /\ Power10[n + 1] = 10 * Power10[n]
<1> DEFINE step == [p \in Nat \X Nat |-> 10 * p[2]]
<1>1. step \in [Nat \X Nat -> Nat]
  OBVIOUS
<1>2. \A n, k \in Nat : step[<<n, k>>] = 10 * k
  OBVIOUS
<1> HIDE DEF step
<1>3. \E f : Solves(f, Nat, 1, step)
  BY <1>1, Recursion DEF StepOf
<1>4. PICK f : Solves(f, Nat, 1, step)
  BY <1>3
<1>5. f = [n \in Nat |-> IF n = 0 THEN 1 ELSE 10 * f[n - 1]]
  <2>1. ASSUME NEW n \in Nat, n # 0
        PROVE  f[n] = 10 * f[n - 1]
    <3>1. n - 1 \in Nat /\ (n - 1) + 1 = n
      BY <2>1
    <3> QED BY <1>2, <1>4, <3>1 DEF Solves
  <2> QED BY <1>4, <2>1 DEF Solves
<1>6. Power10 = [n \in Nat |-> IF n = 0 THEN 1 ELSE 10 * Power10[n - 1]]
  BY <1>5, Zenon DEF Power10
<1>7. Power10[0] = 1 /\ \A n \in Nat : Power10[n + 1] = 10 * Power10[n]
  BY <1>6
<1> DEFINE P == { n \in Nat : Power10[n] \in Nat }
<1>8. 0 \in P /\ \A n \in Nat : n \in P => n + 1 \in P
  BY <1>7
<1>9. \A n \in Nat : n \in P
  <2> HIDE DEF P
  <2> QED BY <1>8, Induction
<1> QED BY <1>7, <1>9

(* A later power is at least ten times an earlier one.                     *)
LEMMA Power10Grows ==
  /\ \A n \in Nat : Power10[n] >= 1
  /\ \A m, n \in Nat : m < n => 10 * Power10[m] <= Power10[n]
<1> DEFINE P == { n \in Nat : /\ Power10[n] >= 1
                             /\ \A m \in Nat : m < n => 10 * Power10[m] <= Power10[n] }
<1>1. 0 \in P
  BY Power10Def
<1>2. ASSUME NEW n \in Nat, n \in P PROVE n + 1 \in P
  <2>1. /\ Power10[n] \in Nat /\ Power10[n + 1] = 10 * Power10[n]
        /\ Power10[n] >= 1
    BY <1>2, Power10Def
  <2>2. ASSUME NEW m \in Nat, m < n + 1
        PROVE  10 * Power10[m] <= Power10[n + 1]
    <3>1. CASE m = n
      BY <2>1, <3>1
    <3>2. CASE m < n
      <4>1. 10 * Power10[m] <= Power10[n] /\ Power10[m] \in Nat
        BY <1>2, <3>2, Power10Def
      <4> QED BY <2>1, <4>1
    <3> QED BY <2>2, <3>1, <3>2
  <2> QED BY <2>1, <2>2
<1>3. \A n \in Nat : n \in P
  <2> HIDE DEF P
  <2> QED BY <1>1, <1>2, Induction
<1> QED BY <1>3

-----------------------------------------------------------------------------
(* The table of limits *)

(* One decade: its limits are 2, then 5, then 10 units apart.              *)
LEMMA DecadeLimits ==
  /\ \A q \in 0 .. 4 : DecadeLimit[q + 1] = 12 + 2 * q
  /\ \A q \in 0 .. 5 : DecadeLimit[q + 6] = 25 + 5 * q
  /\ \A q \in 0 .. 4 : DecadeLimit[q + 12] = 60 + 10 * q
BY DEF DecadeLimit

(* The limits of a decade increase, from 12 to 100.                        *)
LEMMA DecadeIncreases ==
  /\ \A i \in 1 .. 16 : DecadeLimit[i] \in 12 .. 100
  /\ \A i, j \in 1 .. 16 : i < j => DecadeLimit[i] < DecadeLimit[j]
<1>1. ASSUME NEW i \in 1 .. 16
      PROVE  \/ i \in 1 .. 5 /\ DecadeLimit[i] = 10 + 2 * i
             \/ i \in 6 .. 11 /\ DecadeLimit[i] = 5 * i - 5
             \/ i \in 12 .. 16 /\ DecadeLimit[i] = 10 * i - 60
  <2>1. CASE i \in 1 .. 5
    <3>1. i - 1 \in 0 .. 4 /\ (i - 1) + 1 = i
      BY <2>1
    <3> QED BY <2>1, <3>1, DecadeLimits
  <2>2. CASE i \in 6 .. 11
    <3>1. i - 6 \in 0 .. 5 /\ (i - 6) + 6 = i
      BY <2>2
    <3> QED BY <2>2, <3>1, DecadeLimits
  <2>3. CASE i \in 12 .. 16
    <3>1. i - 12 \in 0 .. 4 /\ (i - 12) + 12 = i
      BY <2>3
    <3> QED BY <2>3, <3>1, DecadeLimits
  <2> QED BY <2>1, <2>2, <2>3
<1> QED BY <1>1

(* There are buckets, and the unit of a decade is positive.                *)
LEMMA TableFacts ==
  /\ Decades \in Nat /\ Decades >= 1
  /\ kNumBuckets \in Nat /\ kNumBuckets = 10 + 16 * Decades /\ kNumBuckets >= 26
  /\ Scale \in Nat /\ Scale >= 1
  /\ \A n \in Nat : Power10[n] * Scale \in Nat /\ Power10[n] * Scale >= 1
<1>1. /\ Decades \in Nat /\ Decades >= 1 /\ Scale \in Nat /\ Scale >= 1
  BY HistogramAssumption
<1>2. ASSUME NEW a \in Nat, NEW b \in Nat, a >= 1, b >= 1
      PROVE  a * b \in Nat /\ a * b >= 1
  BY <1>2
<1>3. \A n \in Nat : Power10[n] \in Nat /\ Power10[n] >= 1
  BY Power10Def, Power10Grows
<1> QED BY <1>1, <1>2, <1>3 DEF kNumBuckets

(* The limits below ten microseconds ...                                   *)
LEMMA LowLimit ==
  ASSUME NEW b \in 0 .. 9
  PROVE  b \in Buckets /\ kBucketLimit[b] = (b + 1) * Scale
<1>1. b \in Buckets /\ b < 10 /\ b < kNumBuckets - 1 /\ b # kNumBuckets - 1
  BY TableFacts DEF Buckets
<1> QED BY <1>1 DEF kBucketLimit

(* ... those of decade n ...                                               *)
LEMMA HighLimit ==
  ASSUME NEW n \in Nat, NEW j \in 0 .. 15, 16 * n + 10 + j < kNumBuckets - 1
  PROVE  /\ 16 * n + 10 + j \in Buckets
         /\ kBucketLimit[16 * n + 10 + j] = DecadeLimit[j + 1] * (Power10[n] * Scale)
<1> DEFINE b == 16 * n + 10 + j
<1>1. b \in Buckets /\ ~ (b < 10) /\ b # kNumBuckets - 1
  BY TableFacts DEF Buckets
<1>2. (b - 10) % 16 = j /\ (b - 10) \div 16 = n
  <2>1. b - 10 = 16 * n + j
    OBVIOUS
  <2>2. (16 * n + j) % 16 = j /\ (16 * n + j) \div 16 = n
    OBVIOUS
  <2> QED BY <2>1, <2>2
<1>3. kBucketLimit[b] =
        DecadeLimit[((b - 10) % 16) + 1] * (Power10[(b - 10) \div 16] * Scale)
  <2> HIDE DEF b
  <2> QED BY <1>1 DEF kBucketLimit
<1> QED BY <1>1, <1>2, <1>3

(* ... and the last one.                                                   *)
LEMMA LastLimit ==
  kNumBuckets - 1 \in Buckets /\ kBucketLimit[kNumBuckets - 1] = Huge
<1>1. kNumBuckets - 1 \in Buckets /\ ~ (kNumBuckets - 1 < 10)
  BY TableFacts DEF Buckets
<1> QED BY <1>1 DEF kBucketLimit

(* A bucket is below ten, or in a decade, or the last.                     *)
LEMMA BucketCases ==
  ASSUME NEW b \in Buckets, b # kNumBuckets - 1, b > 9
  PROVE  \E n \in Nat, j \in 0 .. 15 : b = 16 * n + 10 + j
<1>1. b \in Nat /\ b - 10 \in Nat
  BY TableFacts DEF Buckets
<1>2. (b - 10) \div 16 \in Nat /\ (b - 10) % 16 \in 0 .. 15
  BY <1>1
<1>3. b = 16 * ((b - 10) \div 16) + 10 + ((b - 10) % 16)
  BY <1>1
<1> QED BY <1>2, <1>3

(* Products with the unit of a decade.                                     *)
LEMMA Scaling ==
  ASSUME NEW a \in Int, NEW b \in Int, NEW u \in Nat, u >= 1
  PROVE  /\ a * u \in Int
         /\ a < b => a * u < b * u
         /\ a <= b => a * u <= b * u
BY Z3T(20)

(* The limits of later decades are above those of earlier ones.            *)
LEMMA LimitsIncrease ==
  /\ \A b \in Buckets : kBucketLimit[b] \in Int
  /\ \A b, c \in Buckets : b < c => kBucketLimit[b] < kBucketLimit[c]
<1> USE TableFacts
<1>1. ASSUME NEW n \in Nat, NEW j \in 0 .. 15
      PROVE  /\ DecadeLimit[j + 1] \in 12 .. 100
             /\ DecadeLimit[j + 1] * (Power10[n] * Scale) \in Int
             /\ 12 * (Power10[n] * Scale) <= DecadeLimit[j + 1] * (Power10[n] * Scale)
             /\ DecadeLimit[j + 1] * (Power10[n] * Scale) <= 100 * (Power10[n] * Scale)
  <2>1. j + 1 \in 1 .. 16
    OBVIOUS
  <2>2. DecadeLimit[j + 1] \in 12 .. 100
    BY <2>1, DecadeIncreases
  <2> QED BY <2>2, Scaling
<1>2. ASSUME NEW m \in Nat, NEW n \in Nat, m < n
      PROVE  100 * (Power10[m] * Scale) <= 10 * (Power10[n] * Scale)
  <2>1. /\ Power10[m] \in Nat /\ Power10[n] \in Nat
        /\ 10 * Power10[m] <= Power10[n]
    BY <1>2, Power10Def, Power10Grows
  <2>2. (10 * Power10[m]) * Scale <= Power10[n] * Scale
    BY <2>1, Scaling
  <2> QED BY <2>1, <2>2
<1>3. ASSUME NEW b \in Buckets
      PROVE  kBucketLimit[b] \in Int
  <2>1. CASE b = kNumBuckets - 1
    BY <2>1, LastLimit, HistogramAssumption
  <2>2. CASE b \in 0 .. 9
    BY <2>2, LowLimit
  <2>3. CASE b # kNumBuckets - 1 /\ b > 9
    <3>1. PICK n \in Nat, j \in 0 .. 15 : b = 16 * n + 10 + j
      BY <2>3, BucketCases
    <3>2. 16 * n + 10 + j < kNumBuckets - 1
      BY <2>3, <3>1 DEF Buckets
    <3> QED BY <1>1, <3>1, <3>2, HighLimit
  <2> QED BY <2>1, <2>2, <2>3 DEF Buckets
<1>4. ASSUME NEW b \in Buckets, NEW c \in Buckets, b < c, c # kNumBuckets - 1
      PROVE  kBucketLimit[b] < kBucketLimit[c]
  <2>0. b < kNumBuckets - 1 /\ c < kNumBuckets - 1 /\ b \in Nat /\ c \in Nat
    BY <1>4 DEF Buckets
  <2>1. CASE c \in 0 .. 9
    <3>1. b \in 0 .. 9 /\ b + 1 < c + 1
      BY <1>4, <2>0, <2>1
    <3>2. (b + 1) * Scale < (c + 1) * Scale
      BY <2>0, <3>1, Scaling
    <3> QED BY <2>1, <3>1, <3>2, LowLimit
  <2>2. CASE c > 9
    <3>1. PICK n \in Nat, j \in 0 .. 15 : c = 16 * n + 10 + j
      BY <1>4, <2>2, BucketCases
    <3>2. /\ kBucketLimit[c] = DecadeLimit[j + 1] * (Power10[n] * Scale)
          /\ 12 * (Power10[n] * Scale) <= kBucketLimit[c]
      BY <1>1, <2>0, <3>1, HighLimit
    <3>3. CASE b \in 0 .. 9
      <4>1. (b + 1) * Scale <= 10 * Scale
        BY <2>0, <3>3, Scaling
      <4>2. Scale <= Power10[n] * Scale
        <5>1. Power10[n] \in Nat /\ 1 <= Power10[n]
          BY Power10Def, Power10Grows
        <5>2. 1 * Scale <= Power10[n] * Scale
          BY <5>1, Scaling
        <5> QED BY <5>2
      <4>3. kBucketLimit[b] <= 10 * Scale /\ 10 * Scale < 12 * (Power10[n] * Scale)
        BY <3>3, <4>1, <4>2, LowLimit
      <4> QED BY <1>3, <3>2, <4>3
    <3>4. CASE b > 9
      <4>1. PICK m \in Nat, i \in 0 .. 15 : b = 16 * m + 10 + i
        BY <1>4, <2>0, <3>4, BucketCases
      <4>2. /\ kBucketLimit[b] = DecadeLimit[i + 1] * (Power10[m] * Scale)
            /\ kBucketLimit[b] <= 100 * (Power10[m] * Scale)
        BY <1>1, <2>0, <4>1, HighLimit
      <4>3. CASE m = n
        <5>1. i + 1 \in 1 .. 16 /\ j + 1 \in 1 .. 16 /\ i + 1 < j + 1
          BY <1>4, <3>1, <4>1, <4>3
        <5>2. DecadeLimit[i + 1] < DecadeLimit[j + 1]
          BY <5>1, DecadeIncreases
        <5>3. DecadeLimit[i + 1] \in Int /\ DecadeLimit[j + 1] \in Int
          <6>1. DecadeLimit[i + 1] \in 12 .. 100 /\ DecadeLimit[j + 1] \in 12 .. 100
            BY <5>1, DecadeIncreases
          <6> QED BY <6>1
        <5>4. DecadeLimit[i + 1] * (Power10[n] * Scale)
                < DecadeLimit[j + 1] * (Power10[n] * Scale)
          <6>1. ASSUME NEW x \in Int, NEW y \in Int, x < y
                PROVE  x * (Power10[n] * Scale) < y * (Power10[n] * Scale)
            <7>1. Power10[n] * Scale \in Nat /\ Power10[n] * Scale >= 1
              OBVIOUS
            <7> QED BY <6>1, <7>1, Scaling
          <6> QED BY <5>2, <5>3, <6>1
        <5> QED BY <3>2, <4>2, <4>3, <5>4
      <4>4. CASE m < n
        <5>1. 100 * (Power10[m] * Scale) <= 10 * (Power10[n] * Scale)
          BY <1>2, <4>4
        <5>2. 10 * (Power10[n] * Scale) < 12 * (Power10[n] * Scale)
          OBVIOUS
        <5>3. kBucketLimit[b] \in Int /\ kBucketLimit[c] \in Int
          BY <1>3
        <5> QED BY <3>2, <4>2, <5>1, <5>2, <5>3
      <4> QED BY <1>4, <3>1, <4>1, <4>3, <4>4
    <3> QED BY <2>0, <3>3, <3>4
  <2> QED BY <2>0, <2>1, <2>2
<1>5. ASSUME NEW b \in Buckets, b < kNumBuckets - 1
      PROVE  kBucketLimit[b] < kBucketLimit[kNumBuckets - 1]
  <2>1. kNumBuckets - 2 = 16 * (Decades - 1) + 10 + 14 /\ Decades - 1 \in Nat
    OBVIOUS
  <2>2. /\ kNumBuckets - 2 \in Buckets
        /\ kBucketLimit[kNumBuckets - 2] = DecadeLimit[15] * (Power10[Decades - 1] * Scale)
    BY <2>1, HighLimit
  <2>3. DecadeLimit[15] = 90
    BY DEF DecadeLimit
  <2>4. Huge \in Nat /\ Huge >= 1000 * Scale * Power10[Decades]
    BY HistogramAssumption
  <2>5. /\ Power10[Decades - 1] \in Nat
        /\ Power10[Decades] = 10 * Power10[Decades - 1]
    BY <2>1, Power10Def
  <2>6. kBucketLimit[kNumBuckets - 2] < Huge
    <3>1. 1000 * Scale * Power10[Decades] = 10000 * (Power10[Decades - 1] * Scale)
      BY <2>5
    <3>2. Power10[Decades - 1] * Scale >= 1
      BY <2>1
    <3> QED BY <2>2, <2>3, <2>4, <2>5, <3>1, <3>2
  <2>7. CASE b = kNumBuckets - 2
    BY <2>6, <2>7, LastLimit
  <2>8. CASE b < kNumBuckets - 2
    <3>1. kBucketLimit[b] < kBucketLimit[kNumBuckets - 2]
      BY <1>4, <2>2, <2>8
    <3> QED BY <1>3, <2>2, <2>4, <2>6, <3>1, LastLimit
  <2> QED BY <1>5, <2>7, <2>8 DEF Buckets
<1> QED BY <1>3, <1>4, <1>5 DEF Buckets

-----------------------------------------------------------------------------
(* AddFast finds the bucket that the limits define *)

(* Min of a non-empty set of naturals is its least element.                *)
LEMMA MinOfSet ==
  ASSUME NEW T \in SUBSET Nat, T # {}
  PROVE  Min(T) \in T /\ \A y \in T : Min(T) <= y
BY LeastNumber DEF Min

(* The lesser of two.                                                      *)
LEMMA MinOfPair ==
  ASSUME NEW x \in Int, NEW y \in Int
  PROVE  Min({x, y}) = IF x <= y THEN x ELSE y
<1>1. CASE x <= y
  BY <1>1 DEF Min
<1>2. CASE y < x
  BY <1>2 DEF Min
<1> QED BY <1>1, <1>2

(* The loop b /= 10 stops in [10, 100), in the unit of its decade.         *)
LEMMA ShiftsFacts ==
  ASSUME NEW value \in Int, value < 1000 * Scale * Power10[Decades]
  PROVE  /\ Shifts(value) \in Nat
         /\ value < 100 * (Power10[Shifts(value)] * Scale)
         /\ value >= 10 * Scale => value >= 10 * (Power10[Shifts(value)] * Scale)
         /\ value < 100 * Scale => Shifts(value) = 0
<1> USE TableFacts
<1> DEFINE T == { n \in 0 .. Decades + 1 : value < 100 * (Power10[n] * Scale) }
<1>1. Decades + 1 \in T
  <2>1. Power10[Decades] \in Nat /\ Power10[Decades + 1] = 10 * Power10[Decades]
    BY Power10Def
  <2>2. 1000 * Scale * Power10[Decades] = 100 * (Power10[Decades + 1] * Scale)
    BY <2>1
  <2> QED BY <2>2
<1>2. T \in SUBSET Nat /\ T # {}
  BY <1>1
<1>3. Min(T) \in T /\ \A y \in T : Min(T) <= y
  <2> HIDE DEF T
  <2> QED BY <1>2, MinOfSet
<1>4. Shifts(value) = Min(T)
  BY DEF Shifts
<1> DEFINE n == Shifts(value)
<1>5. n \in Nat /\ n <= Decades + 1 /\ value < 100 * (Power10[n] * Scale)
  BY <1>3, <1>4
<1>6. ASSUME value >= 10 * Scale
      PROVE  value >= 10 * (Power10[n] * Scale)
  <2>1. CASE n = 0
    BY <1>6, <2>1, Power10Def
  <2>2. CASE n > 0
    <3>1. n - 1 \in 0 .. Decades + 1 /\ n - 1 \notin T
      BY <1>3, <1>4, <1>5, <2>2
    <3>2. ~ (value < 100 * (Power10[n - 1] * Scale))
      BY <3>1
    <3>3. Power10[n - 1] \in Nat /\ Power10[n] = 10 * Power10[n - 1]
      <4>1. n - 1 \in Nat /\ (n - 1) + 1 = n
        BY <1>5, <2>2
      <4> QED BY <4>1, Power10Def
    <3> HIDE DEF n
    <3> QED BY <3>2, <3>3
  <2> QED BY <1>5, <2>1, <2>2
<1>7. ASSUME value < 100 * Scale
      PROVE  n = 0
  <2>1. Power10[0] * Scale = Scale
    BY Power10Def
  <2>2. 0 \in T
    BY <1>7, <2>1
  <2> QED BY <1>3, <1>4, <1>5, <2>2
<1> QED BY <1>5, <1>6, <1>7

(* Truncating division, for a positive divisor.                            *)
LEMMA Division ==
  ASSUME NEW a \in Nat, NEW d \in Nat, d >= 1
  PROVE  /\ a \div d \in Nat
         /\ d * (a \div d) <= a /\ a < d * (a \div d) + d
OBVIOUS

(* The three parts of [10, 100) units are apart.                           *)
LEMMA Parts ==
  \A x \in Int, u \in Nat :
    /\ x < 20 * u =>
         ~ (x >= 20 * u /\ x < 50 * u) /\ ~ (x >= 50 * u /\ x < 100 * u)
    /\ x >= 20 * u /\ x < 50 * u =>
         ~ (x >= 10 * u /\ x < 20 * u) /\ ~ (x >= 50 * u /\ x < 100 * u)
    /\ x >= 50 * u =>
         ~ (x >= 10 * u /\ x < 20 * u) /\ ~ (x >= 20 * u /\ x < 50 * u)
OBVIOUS

(* A position in decade n, j limits into it, and the limits it is between. *)
DecadePos(n, j, value) ==
  /\ n \in Nat /\ j \in 0 .. 15
  /\ value < DecadeLimit[j + 1] * (Power10[n] * Scale)
  /\ value >= (IF j = 0 THEN 10 ELSE DecadeLimit[j]) * (Power10[n] * Scale)

(* AddFast computes the decade and the position in it.                     *)
LEMMA FastPosInDecade ==
  ASSUME NEW value \in Int, value < 1000 * Scale * Power10[Decades],
         value >= 10 * Scale
  PROVE  \E n \in Nat, j \in 0 .. 15 :
           /\ DecadePos(n, j, value)
           /\ AddFastPos(value) = Min({16 * n + 10 + j, kNumBuckets - 1})
<1> USE TableFacts
<1>n. PICK n, u : n = Shifts(value) /\ u = Power10[n] * Scale
  OBVIOUS
<1>1. /\ n \in Nat /\ u \in Nat /\ u >= 1
      /\ value < 100 * u /\ value >= 10 * u /\ ~ (value < 10 * Scale)
  BY <1>n, ShiftsFacts
<1>2. CASE value < 20 * u
  <2> DEFINE q == (value - 10 * u) \div (2 * u)
  <2>1. q \in Nat /\ (2 * u) * q <= value - 10 * u /\ value - 10 * u < (2 * u) * q + 2 * u
    <3>1. value - 10 * u \in Nat /\ 2 * u \in Nat /\ 2 * u >= 1
      BY <1>1
    <3> QED BY <3>1, Division
  <2>2. q \in 0 .. 4
    <3>1. (2 * u) * q < (2 * u) * 5
      BY <1>1, <1>2, <2>1
    <3> HIDE DEF q
    <3> QED BY <1>1, <2>1, <3>1, Scaling
  <2>3. AddFastPos(value) = Min({16 * n + 10 + q, kNumBuckets - 1})
    <3> HIDE TableFacts
    <3> HIDE DEF q
    <3>1. /\ ~ (value >= 0 /\ value < 10 * Scale)
          /\ value >= 10 * u /\ value < 20 * u
          /\ ~ (value >= 20 * u /\ value < 50 * u)
          /\ ~ (value >= 50 * u /\ value < 100 * u)
      BY <1>1, <1>2, Parts
    <3>2. ComputedPos(value, n, u) = 16 * n + 10 + q
      BY <3>1, ZenonT(90) DEF ComputedPos, q
    <3> QED BY <1>n, <3>2 DEF AddFastPos
  <2>4. /\ value < (12 + 2 * q) * u /\ value >= (10 + 2 * q) * u
    <3> HIDE DEF q
    <3> QED BY <1>1, <2>1, <2>2
  <2>5. DecadeLimit[q + 1] = 12 + 2 * q /\ (q # 0 => DecadeLimit[q] = 10 + 2 * q)
    <3>1. q # 0 => q - 1 \in 0 .. 4 /\ (q - 1) + 1 = q
      BY <2>2
    <3> HIDE DEF q
    <3> QED BY <2>2, <3>1, DecadeLimits
  <2>6. DecadePos(n, q, value)
    <3> HIDE DEF q
    <3> QED BY <1>n, <1>1, <2>2, <2>4, <2>5 DEF DecadePos
  <2>7. n \in Nat /\ q \in 0 .. 15
    BY <1>1, <2>2
  <2> QED BY <2>3, <2>6, <2>7, Zenon
<1>3. CASE value >= 20 * u /\ value < 50 * u
  <2> DEFINE q == (value - 20 * u) \div (5 * u)
  <2>1. q \in Nat /\ (5 * u) * q <= value - 20 * u /\ value - 20 * u < (5 * u) * q + 5 * u
    <3>1. value - 20 * u \in Nat /\ 5 * u \in Nat /\ 5 * u >= 1
      BY <1>1, <1>3
    <3> QED BY <3>1, Division
  <2>2. q \in 0 .. 5
    <3>1. (5 * u) * q < (5 * u) * 6
      BY <1>1, <1>3, <2>1
    <3> HIDE DEF q
    <3> QED BY <1>1, <2>1, <3>1, Scaling
  <2>3. AddFastPos(value) = Min({16 * n + 15 + q, kNumBuckets - 1})
    <3> HIDE TableFacts
    <3> HIDE DEF q
    <3>1. /\ ~ (value >= 0 /\ value < 10 * Scale)
          /\ ~ (value >= 10 * u /\ value < 20 * u)
          /\ value >= 20 * u /\ value < 50 * u
          /\ ~ (value >= 50 * u /\ value < 100 * u)
      BY <1>1, <1>3, Parts
    <3>2. ComputedPos(value, n, u) = 16 * n + 15 + q
      BY <3>1, ZenonT(90) DEF ComputedPos, q
    <3> QED BY <1>n, <3>2 DEF AddFastPos
  <2>4. /\ value < (25 + 5 * q) * u /\ value >= (20 + 5 * q) * u
    <3> HIDE DEF q
    <3> QED BY <1>1, <2>1, <2>2
  <2>5. DecadeLimit[q + 6] = 25 + 5 * q /\ DecadeLimit[q + 5] = 20 + 5 * q
    <3>1. q # 0 => q - 1 \in 0 .. 5 /\ (q - 1) + 6 = q + 5
      BY <2>2
    <3>2. q = 0 => q + 5 = 4 + 1 /\ 4 \in 0 .. 4
      BY <2>2
    <3> HIDE DEF q
    <3> QED BY <2>2, <3>1, <3>2, DecadeLimits
  <2>6. DecadePos(n, 5 + q, value) /\ 5 + q \in 0 .. 15
    <3>1. 5 + q \in 0 .. 15 /\ 5 + q # 0 /\ (5 + q) + 1 = q + 6 /\ 5 + q = q + 5
      BY <2>2
    <3> HIDE DEF q
    <3> QED BY <1>n, <1>1, <2>4, <2>5, <3>1 DEF DecadePos
  <2>7. 16 * n + 15 + q = 16 * n + 10 + (5 + q)
    BY <1>1, <2>2
  <2>8. n \in Nat
    BY <1>1
  <2> QED BY <2>3, <2>6, <2>7, <2>8, Zenon
<1>4. CASE value >= 50 * u
  <2> DEFINE q == (value - 50 * u) \div (10 * u)
  <2>1. /\ q \in Nat /\ (10 * u) * q <= value - 50 * u
        /\ value - 50 * u < (10 * u) * q + 10 * u
    <3>1. value - 50 * u \in Nat /\ 10 * u \in Nat /\ 10 * u >= 1
      BY <1>1, <1>4
    <3> QED BY <3>1, Division
  <2>2. q \in 0 .. 4
    <3>1. (10 * u) * q < (10 * u) * 5
      BY <1>1, <2>1
    <3> HIDE DEF q
    <3> QED BY <1>1, <2>1, <3>1, Scaling
  <2>3. AddFastPos(value) = Min({16 * n + 21 + q, kNumBuckets - 1})
    <3> HIDE TableFacts
    <3> HIDE DEF q
    <3>1. /\ ~ (value >= 0 /\ value < 10 * Scale)
          /\ ~ (value >= 10 * u /\ value < 20 * u)
          /\ ~ (value >= 20 * u /\ value < 50 * u)
          /\ value >= 50 * u /\ value < 100 * u
      BY <1>1, <1>4, Parts
    <3>2. ComputedPos(value, n, u) = 16 * n + 21 + q
      BY <3>1, ZenonT(90) DEF ComputedPos, q
    <3> QED BY <1>n, <3>2 DEF AddFastPos
  <2>4. /\ value < (60 + 10 * q) * u /\ value >= (50 + 10 * q) * u
    <3> HIDE DEF q
    <3> QED BY <1>1, <2>1, <2>2
  <2>5. DecadeLimit[q + 12] = 60 + 10 * q /\ DecadeLimit[q + 11] = 50 + 10 * q
    <3>1. q # 0 => q - 1 \in 0 .. 4 /\ (q - 1) + 12 = q + 11
      BY <2>2
    <3>2. q = 0 => q + 11 = 5 + 6 /\ 5 \in 0 .. 5
      BY <2>2
    <3> HIDE DEF q
    <3> QED BY <2>2, <3>1, <3>2, DecadeLimits
  <2>6. DecadePos(n, 11 + q, value) /\ 11 + q \in 0 .. 15
    <3>1. /\ 11 + q \in 0 .. 15 /\ 11 + q # 0
          /\ (11 + q) + 1 = q + 12 /\ 11 + q = q + 11
      BY <2>2
    <3> HIDE DEF q
    <3> QED BY <1>n, <1>1, <2>4, <2>5, <3>1 DEF DecadePos
  <2>7. 16 * n + 21 + q = 16 * n + 10 + (11 + q)
    BY <1>1, <2>2
  <2>8. n \in Nat
    BY <1>1
  <2> QED BY <2>3, <2>6, <2>7, <2>8, Zenon
<1>5. \/ value < 20 * u
      \/ value >= 20 * u /\ value < 50 * u
      \/ value >= 50 * u
  BY <1>1
<1> QED BY <1>2, <1>3, <1>4, <1>5, Zenon

(* A position in a decade, cut off at the last bucket, is within limits.   *)
LEMMA DecadeWithin ==
  ASSUME NEW value \in Int, NEW n \in Nat, NEW j \in 0 .. 15,
         DecadePos(n, j, value)
  PROVE  /\ Min({16 * n + 10 + j, kNumBuckets - 1}) \in Buckets \ {0}
         /\ Within(Min({16 * n + 10 + j, kNumBuckets - 1}), value)
<1> DEFINE b == 16 * n + 10 + j
<1>0. b \in Nat /\ b >= 10 /\ b = 16 * n + 10 + j
  OBVIOUS
<1> HIDE DEF b
<1>1. kNumBuckets \in Nat /\ kNumBuckets >= 26 /\ kNumBuckets = 10 + 16 * Decades
      /\ Decades \in Nat /\ Decades - 1 \in Nat
  BY TableFacts
<1>2. PICK u : u = Power10[n] * Scale
  OBVIOUS
<1>3. u \in Nat /\ u >= 1 /\ Power10[n] \in Nat /\ Scale \in Nat
  BY <1>2, TableFacts, Power10Def
<1>4. /\ value < DecadeLimit[j + 1] * u
      /\ value >= (IF j = 0 THEN 10 ELSE DecadeLimit[j]) * u
  BY <1>2 DEF DecadePos
<1>5. CASE b < kNumBuckets - 1
  <2>1. Min({b, kNumBuckets - 1}) = b
    BY <1>0, <1>1, <1>5, MinOfPair
  <2>2. b \in Buckets \ {0} /\ kBucketLimit[b] = DecadeLimit[j + 1] * u
    <3>1. 16 * n + 10 + j < kNumBuckets - 1 /\ b # 0
      BY <1>0, <1>5
    <3>2. /\ 16 * n + 10 + j \in Buckets
          /\ kBucketLimit[16 * n + 10 + j] = DecadeLimit[j + 1] * (Power10[n] * Scale)
      BY <3>1, HighLimit
    <3> QED BY <1>0, <1>2, <3>1, <3>2
  <2>3. kBucketLimit[b - 1] <= value
    <3>1. CASE j > 0
      <4>1. j - 1 \in 0 .. 15 /\ b - 1 = 16 * n + 10 + (j - 1) /\ (j - 1) + 1 = j
            /\ b - 1 < kNumBuckets - 1
        BY <1>0, <1>1, <1>5, <3>1
      <4>2. kBucketLimit[b - 1] = DecadeLimit[j] * u
        BY <1>2, <4>1, HighLimit
      <4>3. value >= DecadeLimit[j] * u
        BY <1>4, <3>1
      <4>4. DecadeLimit[j] \in 12 .. 100
        BY <3>1, DecadeIncreases
      <4>5. kBucketLimit[b - 1] \in Int
        BY <1>3, <4>2, <4>4
      <4> QED BY <4>2, <4>3, <4>5
    <3>2. CASE j = 0 /\ n = 0
      <4>1. b - 1 = 9 /\ kBucketLimit[9] = 10 * Scale /\ u = Scale
        <5>1. kBucketLimit[9] = (9 + 1) * Scale
          BY LowLimit
        <5>2. b - 1 = 9
          BY <1>0, <3>2
        <5>3. u = Scale
          BY <1>2, <1>3, <3>2, Power10Def
        <5> QED BY <1>3, <5>1, <5>2, <5>3
      <4> QED BY <1>3, <1>4, <3>2, <4>1
    <3>3. CASE j = 0 /\ n > 0
      <4>1. /\ n - 1 \in Nat /\ b - 1 = 16 * (n - 1) + 10 + 15
            /\ 16 * (n - 1) + 10 + 15 < kNumBuckets - 1 /\ (n - 1) + 1 = n
        BY <1>0, <1>1, <1>5, <3>3
      <4>2. kBucketLimit[b - 1] = DecadeLimit[15 + 1] * (Power10[n - 1] * Scale)
        BY <4>1, HighLimit
      <4>3. DecadeLimit[15 + 1] = 100
        BY DEF DecadeLimit
      <4>4. Power10[n - 1] \in Nat /\ Power10[n] = 10 * Power10[n - 1]
        BY <4>1, Power10Def
      <4>5. kBucketLimit[b - 1] = 10 * u
        BY <1>2, <1>3, <4>2, <4>3, <4>4
      <4> QED BY <1>3, <1>4, <3>3, <4>5
    <3> QED BY <3>1, <3>2, <3>3
  <2>4. b \in Buckets \ {0} /\ Within(b, value)
    BY <1>4, <2>2, <2>3 DEF Within
  <2> QED BY <1>0, <2>1, <2>4
<1>6. CASE b >= kNumBuckets - 1
  <2>1. Min({b, kNumBuckets - 1}) = kNumBuckets - 1
    <3>1. CASE b = kNumBuckets - 1
      BY <1>0, <1>1, <3>1, MinOfPair
    <3>2. CASE b > kNumBuckets - 1
      BY <1>0, <1>1, <3>2, MinOfPair
    <3> QED BY <1>0, <1>1, <1>6, <3>1, <3>2
  <2> DEFINE D == Decades - 1
  <2>2. kBucketLimit[kNumBuckets - 2] = 90 * (Power10[D] * Scale)
    <3>1. D \in Nat /\ kNumBuckets - 2 = 16 * D + 10 + 14
          /\ 16 * D + 10 + 14 < kNumBuckets - 1
      BY <1>1
    <3>2. kBucketLimit[kNumBuckets - 2] = DecadeLimit[14 + 1] * (Power10[D] * Scale)
      <4> HIDE DEF D
      <4> QED BY <3>1, HighLimit
    <3>3. DecadeLimit[14 + 1] = 90
      BY DEF DecadeLimit
    <3> QED BY <3>2, <3>3
  <2>3. 90 * (Power10[D] * Scale) <= value
    <3>0. D \in Nat /\ (n > D \/ (n = D /\ j = 15))
      <4>1. D \in Nat /\ kNumBuckets = 26 + 16 * D
        BY <1>1
      <4> HIDE DEF D
      <4>2. j \in Nat /\ j <= 15 /\ 16 * n + j >= 15 + 16 * D
        BY <1>0, <1>6, <4>1
      <4>3. n >= D
        BY <4>1, <4>2
      <4>4. n = D => j = 15
        BY <4>1, <4>2
      <4>5. n # D => n > D
        BY <4>1, <4>3
      <4> QED BY <4>1, <4>4, <4>5, Zenon
    <3> HIDE DEF D
    <3>1. CASE n = D /\ j = 15
      <4>1. DecadeLimit[15] = 90
        BY DEF DecadeLimit
      <4> QED BY <1>2, <1>4, <3>1, <4>1
    <3>2. CASE n > D
      <4>1. Power10[D] \in Nat /\ 10 * Power10[D] <= Power10[n]
        BY <3>0, <3>2, Power10Def, Power10Grows
      <4>2. (10 * Power10[D]) * Scale <= u
        BY <1>2, <1>3, <4>1, Scaling, TableFacts
      <4>3. value >= 10 * u
        <5>1. CASE j = 0
          BY <1>4, <5>1
        <5>2. CASE j > 0
          <6>1. DecadeLimit[j] \in 12 .. 100 /\ value >= DecadeLimit[j] * u
            BY <1>4, <5>2, DecadeIncreases
          <6>2. DecadeLimit[j] \in Int /\ 10 <= DecadeLimit[j]
            BY <6>1
          <6>3. 10 * u <= DecadeLimit[j] * u /\ DecadeLimit[j] * u \in Int
            BY <1>3, <6>2, Scaling
          <6> QED BY <1>3, <6>1, <6>3
        <5> QED BY <5>1, <5>2
      <4>4. PICK w : w = Power10[D] * Scale
        OBVIOUS
      <4>5. w \in Nat /\ (10 * Power10[D]) * Scale = 10 * w
        BY <1>3, <4>1, <4>4
      <4> QED BY <1>3, <4>2, <4>3, <4>4, <4>5
    <3> QED BY <3>0, <3>1, <3>2
  <2> HIDE DEF D
  <2>4. kBucketLimit[(kNumBuckets - 1) - 1] <= value
    <3>1. (kNumBuckets - 1) - 1 = kNumBuckets - 2
      BY <1>1
    <3> QED BY <2>2, <2>3, <3>1
  <2>5. kNumBuckets - 1 \in Buckets \ {0} /\ Within(kNumBuckets - 1, value)
    BY <1>1, <2>4, LastLimit DEF Within
  <2> QED BY <1>0, <2>1, <2>5
<1> QED BY <1>0, <1>1, <1>5, <1>6

(* The bucket AddFast chooses has its limits around the latency ...        *)
LEMMA FastPosWithin ==
  ASSUME NEW value \in Int, value < 1000 * Scale * Power10[Decades]
  PROVE  AddFastPos(value) \in Buckets /\ Within(AddFastPos(value), value)
<1> DEFINE n == Shifts(value)
           u == Power10[n] * Scale
<1>1. kNumBuckets \in Nat /\ kNumBuckets >= 26 /\ Scale \in Nat /\ Scale >= 1
  BY TableFacts
<1>2. CASE value >= 10 * Scale
  <2>1. PICK m \in Nat, j \in 0 .. 15 :
           /\ DecadePos(m, j, value)
           /\ AddFastPos(value) = Min({16 * m + 10 + j, kNumBuckets - 1})
    BY <1>2, FastPosInDecade
  <2> QED BY <2>1, DecadeWithin
<1>3. CASE value < 0
  <2>1. n = 0 /\ u = Scale
    <3>1. n = 0
      BY <1>1, <1>3, ShiftsFacts
    <3> QED BY <1>1, <3>1, Power10Def
  <2>2. ComputedPos(value, n, u) = 0
    <3>1. /\ ~ (value >= 0) /\ ~ (value >= 10 * Scale)
          /\ ~ (value >= 20 * Scale) /\ ~ (value >= 50 * Scale)
      BY <1>1, <1>3
    <3> HIDE DEF n, u
    <3> QED BY <2>1, <3>1, Zenon DEF ComputedPos
  <2>3. Min({0, kNumBuckets - 1}) = 0
    BY <1>1, MinOfPair
  <2>4. AddFastPos(value) = 0
    <3>1. AddFastPos(value) = Min({ComputedPos(value, n, u), kNumBuckets - 1})
      BY DEF AddFastPos
    <3> QED BY <2>2, <2>3, <3>1
  <2>5. 0 \in Buckets /\ kBucketLimit[0] = (0 + 1) * Scale
    BY LowLimit
  <2>6. value < kBucketLimit[0]
    BY <1>1, <1>3, <2>5
  <2> QED BY <2>4, <2>5, <2>6 DEF Within
<1>4. CASE value >= 0 /\ value < 10 * Scale
  <2> DEFINE q == value \div Scale
  <2>1. q \in Nat /\ Scale * q <= value /\ value < Scale * q + Scale
    BY <1>1, <1>4, Division
  <2>2. ComputedPos(value, n, u) = q
    <3>1. u >= Scale /\ u \in Int
      <4>1. n \in Nat
        BY ShiftsFacts
      <4> HIDE DEF n
      <4>2. Power10[n] \in Int /\ 1 <= Power10[n]
        BY <4>1, Power10Def, Power10Grows
      <4>3. 1 * Scale <= Power10[n] * Scale /\ Power10[n] * Scale \in Int
        BY <1>1, <4>2, Scaling
      <4> QED BY <1>1, <4>3
    <3> HIDE DEF n, u, q
    <3>2. ~ (value >= 10 * u) /\ ~ (value >= 20 * u) /\ ~ (value >= 50 * u)
      BY <1>1, <1>4, <3>1
    <3>3. ComputedPos(value, n, u) = value \div Scale
      BY <1>4, <3>2, Zenon DEF ComputedPos
    <3> QED BY <3>3 DEF q
  <2> HIDE DEF q
  <2>3. q \in 0 .. 9
    <3>1. q * Scale < 10 * Scale
      BY <1>1, <1>4, <2>1
    <3>2. ~ (10 <= q)
      BY <1>1, <2>1, <3>1, Scaling
    <3> QED BY <2>1, <3>2
  <2>4. AddFastPos(value) = q
    <3>1. AddFastPos(value) = Min({ComputedPos(value, n, u), kNumBuckets - 1})
      BY DEF AddFastPos
    <3>2. Min({q, kNumBuckets - 1}) = q
      BY <1>1, <2>3, MinOfPair
    <3> QED BY <2>2, <3>1, <3>2
  <2>5. q \in Buckets /\ value < kBucketLimit[q]
    BY <1>1, <2>1, <2>3, LowLimit
  <2>6. q # 0 => kBucketLimit[q - 1] <= value
    <3> HAVE q # 0
    <3>1. q - 1 \in 0 .. 9 /\ (q - 1) + 1 = q
      BY <2>3
    <3> QED BY <1>1, <2>1, <3>1, LowLimit
  <2> QED BY <2>4, <2>5, <2>6 DEF Within
<1> QED BY <1>1, <1>2, <1>3, <1>4

(* ... and it is the only one that has.                                    *)
LEMMA WithinIsUnique ==
  ASSUME NEW value \in Int, NEW b \in Buckets, NEW c \in Buckets,
         Within(b, value), Within(c, value)
  PROVE  b = c
<1>0. ASSUME NEW x \in Buckets, NEW y \in Buckets, x < y,
             Within(x, value), Within(y, value)
      PROVE  FALSE
  <2>1. /\ x \in Nat /\ y \in Nat /\ y - 1 \in Buckets
        /\ x # kNumBuckets - 1 /\ y # 0 /\ x <= y - 1
    BY <1>0, TableFacts DEF Buckets
  <2>2. value < kBucketLimit[x] /\ kBucketLimit[y - 1] <= value
    BY <1>0, <2>1 DEF Within
  <2>3. kBucketLimit[x] <= kBucketLimit[y - 1]
    <3>1. CASE x = y - 1
      BY <3>1, LimitsIncrease
    <3>2. CASE x < y - 1
      BY <2>1, <3>2, LimitsIncrease
    <3> QED BY <2>1, <3>1, <3>2
  <2>4. kBucketLimit[x] \in Int /\ kBucketLimit[y - 1] \in Int
    BY <2>1, LimitsIncrease
  <2> QED BY <2>2, <2>3, <2>4
<1> QED BY <1>0, TableFacts DEF Buckets

(* Add's search finds the bucket whose limits are around the latency.      *)
LEMMA AddPosWithin ==
  ASSUME NEW value \in Int
  PROVE  AddPos(value) \in Buckets /\ Within(AddPos(value), value)
<1> DEFINE T == { b \in Buckets : b = kNumBuckets - 1 \/ kBucketLimit[b] > value }
<1>1. T \in SUBSET Nat /\ kNumBuckets - 1 \in T
  BY TableFacts, LastLimit DEF Buckets
<1>2. Min(T) \in T /\ \A y \in T : Min(T) <= y
  <2> HIDE DEF T
  <2> QED BY <1>1, MinOfSet
<1>3. AddPos(value) = Min(T)
  BY DEF AddPos
<1>4. PICK b : b = Min(T)
  OBVIOUS
<1>5. /\ b \in Buckets /\ b \in Nat
      /\ b = kNumBuckets - 1 \/ kBucketLimit[b] > value
  BY <1>2, <1>4, TableFacts DEF Buckets
<1>6. ASSUME b # 0 PROVE kBucketLimit[b - 1] <= value
  <2>1. b - 1 \in Buckets /\ b - 1 # kNumBuckets - 1
    BY <1>5, <1>6, TableFacts DEF Buckets
  <2>2. b - 1 \notin T
    BY <1>2, <1>4, <1>5
  <2>3. ~ (kBucketLimit[b - 1] > value)
    BY <2>1, <2>2
  <2> QED BY <2>1, <2>3, LimitsIncrease
<1>7. b # kNumBuckets - 1 => value < kBucketLimit[b]
  BY <1>5, LimitsIncrease
<1> QED BY <1>3, <1>4, <1>5, <1>6, <1>7 DEF Within

(***************************************************************************)
(* The position AddFast() computes with divisions is the one Add() finds   *)
(* by its search through the limits, for every latency, negative and       *)
(* beyond the table ones included, and any number of decades.              *)
(***************************************************************************)
THEOREM AddFastIsAdd ==
  ASSUME NEW value \in Int, value < 1000 * Scale * Power10[Decades]
  PROVE  AddFastPos(value) = AddPos(value)
BY FastPosWithin, AddPosWithin, WithinIsUnique

-----------------------------------------------------------------------------
(* The histogram of a list of latencies *)

(* A set that has the empty list and with a list every longer one.         *)
LEMMA ListInduction ==
  ASSUME NEW S, NEW P, << >> \in P,
         \A s \in Seq(S), v \in S : s \in P => Append(s, v) \in P
  PROVE  \A s \in Seq(S) : s \in P
<1> DEFINE Q == { n \in Nat : \A s \in Seq(S) : Len(s) = n => s \in P }
<1>1. 0 \in Q
  <2>1. ASSUME NEW s \in Seq(S), Len(s) = 0 PROVE s = << >>
    BY <2>1, EmptySeq
  <2> QED BY <2>1
<1>2. ASSUME NEW n \in Nat, n \in Q PROVE n + 1 \in Q
  <2>1. ASSUME NEW s \in Seq(S), Len(s) = n + 1 PROVE s \in P
    <3>1. s # << >>
      BY <2>1, EmptySeq
    <3>2. PICK r \in Seq(S), v \in S : s = Append(r, v)
      BY <3>1, SequenceEmptyOrAppend
    <3>3. Len(r) = n
      BY <2>1, <3>2, AppendProperties, LenProperties
    <3> QED BY <1>2, <3>2, <3>3
  <2> QED BY <2>1
<1> HIDE DEF Q
<1>3. \A n \in Nat : n \in Q
  BY <1>1, <1>2, Induction
<1> QED BY <1>3, LenProperties DEF Q

(* The partial sums exist, and are what their definition says.             *)
LEMMA SumsDef ==
  ASSUME NEW s \in Seq(Int)
  PROVE  /\ Sums(s)[0] = 0
         /\ \A k \in 1 .. Len(s) : Sums(s)[k] = Sums(s)[k - 1] + s[k]
         /\ \A k \in 0 .. Len(s) : Sums(s)[k] \in Int
<1>0. Len(s) \in Nat /\ \A k \in 1 .. Len(s) : s[k] \in Int
  BY LenProperties, ElementOfSeq
<1> DEFINE step ==
      [p \in Nat \X Int |->
         p[2] + IF p[1] + 1 \in 1 .. Len(s) THEN s[p[1] + 1] ELSE 0]
<1>1. step \in [Nat \X Int -> Int]
  <2>1. ASSUME NEW p \in Nat \X Int
        PROVE  (IF p[1] + 1 \in 1 .. Len(s) THEN s[p[1] + 1] ELSE 0) \in Int
    BY <1>0
  <2> QED BY <2>1
<1>2. \A i \in 0 .. Len(s) - 1, x \in Int : step[<<i, x>>] = x + s[i + 1]
  BY <1>0
<1> HIDE DEF step
<1>3. Solutions(Int, 0, step, Len(s)) # {}
  <2>1. StepOf(step, Int)
    BY <1>1, Zenon DEF StepOf
  <2>2. 0 \in Int
    OBVIOUS
  <2> QED BY <1>0, <2>1, <2>2, SolutionExists, Zenon
<1>4. PICK f : f \in Solutions(Int, 0, step, Len(s))
  BY <1>3
<1>5. f \in [0 .. Len(s) -> Int] /\ f[0] = 0
  BY <1>4 DEF Solutions
<1>6. ASSUME NEW k \in 1 .. Len(s) PROVE f[k] = f[k - 1] + s[k]
  <2>1. k - 1 \in 0 .. Len(s) - 1 /\ (k - 1) + 1 = k /\ f[k - 1] \in Int
    BY <1>0, <1>5
  <2>2. f[(k - 1) + 1] = step[<<k - 1, f[k - 1]>>]
    BY <1>4, <2>1 DEF Solutions
  <2>3. step[<<k - 1, f[k - 1]>>] = f[k - 1] + s[(k - 1) + 1]
    BY <1>2, <2>1
  <2> QED BY <2>1, <2>2, <2>3
<1>7. f = [k \in 0 .. Len(s) |-> IF k = 0 THEN 0 ELSE f[k - 1] + s[k]]
  BY <1>0, <1>5, <1>6
<1>8. Sums(s) = [k \in 0 .. Len(s) |->
                   IF k = 0 THEN 0 ELSE Sums(s)[k - 1] + s[k]]
  BY <1>7, Zenon DEF Sums
<1>9. /\ Sums(s)[0] = 0
      /\ \A k \in 1 .. Len(s) : Sums(s)[k] = Sums(s)[k - 1] + s[k]
  BY <1>0, <1>8
<1> DEFINE P == { k \in Nat : k <= Len(s) => Sums(s)[k] \in Int }
<1>10. 0 \in P /\ \A k \in Nat : k \in P => k + 1 \in P
  <2>1. 0 \in P
    BY <1>9
  <2>2. ASSUME NEW k \in Nat, k \in P, k + 1 <= Len(s)
        PROVE  Sums(s)[k + 1] \in Int
    <3>1. /\ k + 1 \in 1 .. Len(s) /\ (k + 1) - 1 = k
          /\ Sums(s)[k] \in Int
      BY <1>0, <2>2
    <3> QED BY <1>0, <1>9, <3>1
  <2> QED BY <2>1, <2>2
<1>11. \A k \in Nat : k \in P
  <2> HIDE DEF P
  <2> QED BY <1>10, Induction
<1>12. \A k \in 0 .. Len(s) : Sums(s)[k] \in Int
  BY <1>0, <1>11
<1> QED BY <1>9, <1>12

(* A longer list has one more to its sum.                                  *)
LEMMA TotalOfAppend ==
  /\ Total(<< >>) = 0
  /\ \A s \in Seq(Int) : Total(s) \in Int
  /\ \A s \in Seq(Int), v \in Int : Total(Append(s, v)) = Total(s) + v
<1>1. Total(<< >>) = 0
  <2>1. << >> \in Seq(Int) /\ Len(<< >>) = 0
    BY EmptySeq
  <2> QED BY <2>1, SumsDef DEF Total
<1>2. ASSUME NEW s \in Seq(Int) PROVE Total(s) \in Int
  BY SumsDef, LenProperties DEF Total
<1>3. ASSUME NEW s \in Seq(Int), NEW v \in Int
      PROVE  Total(Append(s, v)) = Total(s) + v
  <2> DEFINE t == Append(s, v)
  <2>1. /\ t \in Seq(Int) /\ Len(s) \in Nat /\ Len(t) = Len(s) + 1
        /\ \A k \in 1 .. Len(s) : t[k] = s[k]
        /\ t[Len(s) + 1] = v
    BY AppendProperties, LenProperties
  <2> HIDE DEF t
  <2> DEFINE P == { k \in Nat : k <= Len(s) => Sums(t)[k] = Sums(s)[k] }
  <2>2. 0 \in P
    BY <2>1, SumsDef
  <2>3. ASSUME NEW k \in Nat, k \in P, k + 1 <= Len(s)
        PROVE  Sums(t)[k + 1] = Sums(s)[k + 1]
    <3>1. /\ k + 1 \in 1 .. Len(s) /\ k + 1 \in 1 .. Len(t)
          /\ (k + 1) - 1 = k /\ Sums(t)[k] = Sums(s)[k]
      BY <2>1, <2>3
    <3>2. /\ Sums(t)[k + 1] = Sums(t)[(k + 1) - 1] + t[k + 1]
          /\ Sums(s)[k + 1] = Sums(s)[(k + 1) - 1] + s[k + 1]
      BY <2>1, <3>1, SumsDef
    <3>3. t[k + 1] = s[k + 1]
      BY <2>1, <3>1
    <3> QED BY <3>1, <3>2, <3>3
  <2>4. \A k \in Nat : k \in P
    <3>1. \A k \in Nat : k \in P => k + 1 \in P
      BY <2>3
    <3> HIDE DEF P
    <3> QED BY <2>2, <3>1, Induction
  <2>5. Sums(t)[Len(s)] = Sums(s)[Len(s)]
    BY <2>1, <2>4
  <2>6. Len(t) \in 1 .. Len(t) /\ Len(t) - 1 = Len(s)
    BY <2>1
  <2>7. Sums(t)[Len(t)] = Sums(t)[Len(t) - 1] + t[Len(t)]
    BY <2>1, <2>6, SumsDef
  <2> QED BY <2>1, <2>5, <2>6, <2>7 DEF Total, t
<1> QED BY <1>1, <1>2, <1>3

(* What Min and Max are of a set that has a least and a greatest element.  *)
LEMMA Extremum ==
  ASSUME NEW T \in SUBSET Int, NEW m \in T
  PROVE  /\ (\A y \in T : m <= y) => Min(T) = m
         /\ (\A y \in T : m >= y) => Max(T) = m
<1>1. ASSUME \A y \in T : m <= y PROVE Min(T) = m
  <2>1. Min(T) \in T /\ \A y \in T : Min(T) <= y
    BY <1>1 DEF Min
  <2>2. Min(T) \in Int /\ m \in Int /\ m <= Min(T) /\ Min(T) <= m
    BY <1>1, <2>1
  <2> QED BY <2>2
<1>2. ASSUME \A y \in T : m >= y PROVE Max(T) = m
  <2>1. Max(T) \in T /\ \A y \in T : Max(T) >= y
    BY <1>2 DEF Max
  <2>2. Max(T) \in Int /\ m \in Int /\ m >= Max(T) /\ Max(T) >= m
    BY <1>2, <2>1
  <2> QED BY <2>2
<1> QED BY <1>1, <1>2

(* The greater of two.                                                     *)
LEMMA MaxOfPair ==
  ASSUME NEW x \in Int, NEW y \in Int
  PROVE  Max({x, y}) = IF x >= y THEN x ELSE y
<1>1. CASE x >= y
  BY <1>1 DEF Max
<1>2. CASE y > x
  BY <1>2 DEF Max
<1> QED BY <1>1, <1>2

(* A longer list has one more value.                                       *)
LEMMA RangeOfAppend ==
  ASSUME NEW s \in Seq(Int), NEW v \in Int
  PROVE  Range(Append(s, v)) = Range(s) \cup {v} /\ Range(s) \subseteq Int
<1> DEFINE t == Append(s, v)
<1>1. /\ t \in Seq(Int) /\ Len(s) \in Nat /\ Len(t) = Len(s) + 1
      /\ \A k \in 1 .. Len(s) : t[k] = s[k]
      /\ t[Len(s) + 1] = v
  BY AppendProperties, LenProperties
<1> HIDE DEF t
<1>2. DOMAIN s = 1 .. Len(s) /\ DOMAIN t = 1 .. Len(s) + 1
  BY <1>1, LenProperties
<1>3. Range(t) = Range(s) \cup {v}
  <2>1. ASSUME NEW x \in Range(t) PROVE x \in Range(s) \cup {v}
    <3>1. PICK k \in 1 .. Len(s) + 1 : x = t[k]
      BY <1>2 DEF Range
    <3>2. CASE k = Len(s) + 1
      BY <1>1, <3>1, <3>2
    <3>3. CASE k \in 1 .. Len(s)
      BY <1>1, <1>2, <3>1, <3>3 DEF Range
    <3> QED BY <1>1, <3>2, <3>3
  <2>2. ASSUME NEW x \in Range(s) PROVE x \in Range(t)
    <3>1. PICK k \in 1 .. Len(s) : x = s[k]
      BY <1>2 DEF Range
    <3>2. k \in 1 .. Len(s) + 1 /\ x = t[k]
      BY <1>1, <3>1
    <3> QED BY <1>2, <3>2 DEF Range
  <2>3. v \in Range(t)
    <3>1. Len(s) + 1 \in 1 .. Len(s) + 1
      BY <1>1
    <3> QED BY <1>1, <1>2, <3>1 DEF Range
  <2> QED BY <2>1, <2>2, <2>3
<1> QED BY <1>3, RangeOfSeq DEF t

(* The least and the greatest of c and the values of a list.               *)
Least(s, c) == Min(Range(s) \cup {c})
Greatest(s, c) == Max(Range(s) \cup {c})

(* A longer list takes one more comparison, as AddFast makes it.           *)
LEMMA ExtremesOfAppend ==
  ASSUME NEW c \in Int
  PROVE  /\ Least(<< >>, c) = c /\ Greatest(<< >>, c) = c
         /\ \A s \in Seq(Int) :
              /\ Least(s, c) \in Int /\ Least(s, c) <= c
              /\ Greatest(s, c) \in Int /\ Greatest(s, c) >= c
              /\ \A v \in Int :
                   /\ Least(Append(s, v), c) = Min({Least(s, c), v})
                   /\ Greatest(Append(s, v), c) = Max({Greatest(s, c), v})
<1> DEFINE T(s) == Range(s) \cup {c}
           Bounded(s) == /\ \E m \in T(s) : \A y \in T(s) : m <= y
                         /\ \E m \in T(s) : \A y \in T(s) : m >= y
           P == { s \in Seq(Int) : Bounded(s) }
<1>1. T(<< >>) = {c}
  <2>1. DOMAIN << >> = {}
    BY EmptySeq, LenProperties
  <2>2. Range(<< >>) = {}
    BY <2>1 DEF Range
  <2> QED BY <2>2
<1>2. ASSUME NEW s \in Seq(Int), NEW v \in Int
      PROVE  T(Append(s, v)) = T(s) \cup {v} /\ T(s) \in SUBSET Int /\ c \in T(s)
  BY RangeOfAppend
<1>3. ASSUME NEW s \in Seq(Int), NEW v \in Int, Bounded(s)
      PROVE  Bounded(Append(s, v))
  <2> HIDE DEF T
  <2>1. PICK m \in T(s) : \A y \in T(s) : m <= y
    BY <1>3
  <2>2. PICK n \in T(s) : \A y \in T(s) : n >= y
    BY <1>3
  <2>3. \E x \in T(s) \cup {v} : \A y \in T(s) \cup {v} : x <= y
    <3>1. CASE m <= v
      BY <1>2, <2>1, <3>1
    <3>2. CASE v < m
      BY <1>2, <2>1, <3>2
    <3> QED BY <1>2, <2>1, <3>1, <3>2
  <2>4. \E x \in T(s) \cup {v} : \A y \in T(s) \cup {v} : x >= y
    <3>1. CASE n >= v
      BY <1>2, <2>2, <3>1
    <3>2. CASE v > n
      BY <1>2, <2>2, <3>2
    <3> QED BY <1>2, <2>2, <3>1, <3>2
  <2> QED BY <1>2, <2>3, <2>4
<1>4. \A s \in Seq(Int) : Bounded(s)
  <2> HIDE DEF T
  <2>1. << >> \in P
    <3>1. << >> \in Seq(Int)
      BY EmptySeq
    <3> QED BY <1>1, <3>1
  <2>2. \A s \in Seq(Int), v \in Int : s \in P => Append(s, v) \in P
    <3> HIDE DEF Bounded
    <3> QED BY <1>3, AppendProperties
  <2>3. \A s \in Seq(Int) : s \in P
    <3> HIDE DEF P
    <3> QED BY <2>1, <2>2, ListInduction
  <2> QED BY <2>3
<1>5. Least(<< >>, c) = c /\ Greatest(<< >>, c) = c
  <2>1. Min({c}) = c /\ Max({c}) = c
    BY Extremum
  <2> QED BY <1>1, <2>1 DEF Least, Greatest
<1>6. ASSUME NEW s \in Seq(Int)
      PROVE  /\ Least(s, c) \in T(s) /\ \A y \in T(s) : Least(s, c) <= y
             /\ Greatest(s, c) \in T(s) /\ \A y \in T(s) : Greatest(s, c) >= y
             /\ Least(s, c) \in Int /\ Greatest(s, c) \in Int
  <2>1. T(s) \in SUBSET Int
    BY RangeOfSeq
  <2>2. Least(s, c) = Min(T(s)) /\ Greatest(s, c) = Max(T(s))
    BY DEF Least, Greatest
  <2> HIDE DEF T
  <2>3. Bounded(s)
    <3> HIDE DEF Bounded
    <3> QED BY <1>4
  <2> QED BY <2>1, <2>2, <2>3, Extremum
<1>7. ASSUME NEW s \in Seq(Int), NEW v \in Int
      PROVE  /\ Least(Append(s, v), c) = Min({Least(s, c), v})
             /\ Greatest(Append(s, v), c) = Max({Greatest(s, c), v})
  <2>1. /\ Least(Append(s, v), c) = Min(T(s) \cup {v})
        /\ Greatest(Append(s, v), c) = Max(T(s) \cup {v})
    BY <1>2 DEF Least, Greatest
  <2>2. T(s) \cup {v} \in SUBSET Int
    BY <1>2
  <2> HIDE DEF T
  <2>3. Min(T(s) \cup {v}) = Min({Least(s, c), v})
    <3>1. CASE Least(s, c) <= v
      <4>1. /\ Least(s, c) \in T(s) \cup {v}
            /\ \A y \in T(s) \cup {v} : Least(s, c) <= y
        BY <1>6, <2>2, <3>1
      <4>2. Min(T(s) \cup {v}) = Least(s, c)
        BY <2>2, <4>1, Extremum
      <4> QED BY <1>6, <3>1, <4>2, MinOfPair
    <3>2. CASE v < Least(s, c)
      <4>1. v \in T(s) \cup {v} /\ \A y \in T(s) \cup {v} : v <= y
        BY <1>6, <2>2, <3>2
      <4>2. Min(T(s) \cup {v}) = v
        BY <2>2, <4>1, Extremum
      <4>3. ~ (Least(s, c) <= v)
        BY <1>6, <3>2
      <4> QED BY <1>6, <4>2, <4>3, MinOfPair
    <3> QED BY <1>6, <3>1, <3>2
  <2>4. Max(T(s) \cup {v}) = Max({Greatest(s, c), v})
    <3>1. CASE Greatest(s, c) >= v
      <4>1. /\ Greatest(s, c) \in T(s) \cup {v}
            /\ \A y \in T(s) \cup {v} : Greatest(s, c) >= y
        BY <1>6, <2>2, <3>1
      <4>2. Max(T(s) \cup {v}) = Greatest(s, c)
        BY <2>2, <4>1, Extremum
      <4> QED BY <1>6, <3>1, <4>2, MaxOfPair
    <3>2. CASE v > Greatest(s, c)
      <4>1. v \in T(s) \cup {v} /\ \A y \in T(s) \cup {v} : v >= y
        BY <1>6, <2>2, <3>2
      <4>2. Max(T(s) \cup {v}) = v
        BY <2>2, <4>1, Extremum
      <4>3. ~ (Greatest(s, c) >= v)
        BY <1>6, <3>2
      <4> QED BY <1>6, <4>2, <4>3, MaxOfPair
    <3> QED BY <1>6, <3>1, <3>2
  <2> QED BY <2>1, <2>3, <2>4
<1>8. \A s \in Seq(Int) : c \in T(s)
  OBVIOUS
<1> HIDE DEF T
<1> QED BY <1>5, <1>6, <1>7, <1>8

(* The latencies of a list that bucket b counts.                           *)
Counted(b, s) == { i \in DOMAIN s : Within(b, s[i]) }

(* A longer list has one more in the bucket of its last value.             *)
LEMMA CountOfAppend ==
  ASSUME NEW b, NEW s \in Seq(Int), NEW v \in Int
  PROVE  /\ Cardinality(Counted(b, << >>)) = 0
         /\ Cardinality(Counted(b, s)) \in Nat
         /\ Cardinality(Counted(b, Append(s, v)))
              = Cardinality(Counted(b, s)) + IF Within(b, v) THEN 1 ELSE 0
<1>1. Counted(b, << >>) = {}
  <2>1. DOMAIN << >> = {}
    BY EmptySeq, LenProperties
  <2> QED BY <2>1 DEF Counted
<1> DEFINE t == Append(s, v)
           C == Counted(b, s)
<1>2. /\ t \in Seq(Int) /\ Len(s) \in Nat /\ Len(t) = Len(s) + 1
      /\ \A k \in 1 .. Len(s) : t[k] = s[k]
      /\ t[Len(s) + 1] = v
  BY AppendProperties, LenProperties
<1>3. DOMAIN s = 1 .. Len(s) /\ DOMAIN t = 1 .. Len(s) + 1
  BY <1>2, LenProperties
<1>4. IsFiniteSet(C) /\ Cardinality(C) \in Nat /\ Len(s) + 1 \notin C
  <2>1. IsFiniteSet(1 .. Len(s))
    BY <1>2, FS_Interval
  <2>2. C \in SUBSET (1 .. Len(s))
    BY <1>3 DEF Counted
  <2>3. IsFiniteSet(C)
    <3> HIDE DEF C
    <3> QED BY <2>1, <2>2, FS_Subset
  <2>4. Len(s) + 1 \notin C
    <3> HIDE DEF C
    <3> QED BY <1>2, <2>2
  <2> QED BY <2>3, <2>4, FS_CardinalityType
<1> HIDE DEF t
<1>5. CASE Within(b, v)
  <2>1. Counted(b, t) = C \cup {Len(s) + 1}
    BY <1>2, <1>3, <1>5 DEF Counted
  <2> HIDE DEF C
  <2>2. Cardinality(C \cup {Len(s) + 1}) = Cardinality(C) + 1
    BY <1>4, FS_AddElement
  <2> QED BY <1>1, <1>4, <1>5, <2>1, <2>2, FS_EmptySet DEF C, t
<1>6. CASE ~ Within(b, v)
  <2>1. Counted(b, t) = C
    BY <1>2, <1>3, <1>6 DEF Counted
  <2> HIDE DEF C
  <2>2. Cardinality(Counted(b, t)) = Cardinality(C) + 0
    BY <1>4, <2>1
  <2> QED BY <1>1, <1>4, <1>6, <2>2, FS_EmptySet DEF C, t
<1> QED BY <1>5, <1>6

(* The squares of a longer list.                                           *)
LEMMA SquaresOfAppend ==
  ASSUME NEW s \in Seq(Int), NEW v \in Int
  PROVE  /\ Squares(s) \in Seq(Int)
         /\ Squares(Append(s, v)) = Append(Squares(s), v * v)
<1>1. ASSUME NEW r \in Seq(Int)
      PROVE  /\ Squares(r) \in Seq(Int) /\ Len(Squares(r)) = Len(r)
             /\ \A k \in 1 .. Len(r) : Squares(r)[k] = r[k] * r[k]
  <2>1. /\ Len(r) \in Nat /\ DOMAIN r = 1 .. Len(r)
        /\ \A k \in 1 .. Len(r) : r[k] \in Int
    BY LenProperties, ElementOfSeq
  <2>2. \A k \in 1 .. Len(r) : r[k] * r[k] \in Int
    BY <2>1
  <2>3. Squares(r) = [k \in 1 .. Len(r) |-> r[k] * r[k]]
    BY <2>1 DEF Squares
  <2>4. Squares(r) \in [1 .. Len(r) -> Int]
    BY <2>2, <2>3
  <2>5. Squares(r) \in Seq(Int)
    <3> DEFINE n == Len(r)
    <3>1. n \in Nat /\ Squares(r) \in [1 .. n -> Int]
      BY <2>1, <2>4
    <3> HIDE DEF n
    <3> QED BY <3>1, SeqDef, Zenon
  <2>6. Len(Squares(r)) = Len(r)
    <3>1. /\ DOMAIN Squares(r) = 1 .. Len(r)
          /\ DOMAIN Squares(r) = 1 .. Len(Squares(r)) /\ Len(Squares(r)) \in Nat
      BY <2>3, <2>5, LenProperties
    <3> QED BY <2>1, <3>1
  <2> QED BY <2>3, <2>5, <2>6
<1> DEFINE t == Append(s, v)
           w == Append(Squares(s), v * v)
<1>2. /\ t \in Seq(Int) /\ Len(s) \in Nat /\ Len(t) = Len(s) + 1
      /\ \A k \in 1 .. Len(s) : t[k] = s[k]
      /\ t[Len(s) + 1] = v
  BY AppendProperties, LenProperties
<1>3. Squares(s) \in Seq(Int) /\ Len(Squares(s)) = Len(s) /\ v * v \in Int
  BY <1>1
<1>4. /\ w \in Seq(Int) /\ Len(w) = Len(s) + 1
      /\ \A k \in 1 .. Len(s) : w[k] = Squares(s)[k]
      /\ w[Len(s) + 1] = v * v
  <2> DEFINE q == v * v
  <2>1. q \in Int
    OBVIOUS
  <2> HIDE DEF q
  <2>2. /\ Append(Squares(s), q) \in Seq(Int)
        /\ Len(Append(Squares(s), q)) = Len(Squares(s)) + 1
        /\ \A k \in 1 .. Len(Squares(s)) : Append(Squares(s), q)[k] = Squares(s)[k]
        /\ Append(Squares(s), q)[Len(Squares(s)) + 1] = q
    BY <1>3, <2>1, AppendProperties
  <2> QED BY <1>3, <2>2 DEF q
<1> HIDE DEF t, w
<1>5. ASSUME NEW k \in 1 .. Len(s) + 1 PROVE Squares(t)[k] = w[k]
  <2>1. Squares(t)[k] = t[k] * t[k]
    BY <1>1, <1>2
  <2>2. CASE k = Len(s) + 1
    BY <1>2, <1>4, <2>1, <2>2
  <2>3. CASE k \in 1 .. Len(s)
    <3>1. t[k] = s[k] /\ w[k] = Squares(s)[k] /\ Squares(s)[k] = s[k] * s[k]
      BY <1>1, <1>2, <1>4, <2>3
    <3> QED BY <2>1, <3>1
  <2> QED BY <1>2, <2>2, <2>3
<1>6. Squares(t) \in Seq(Int) /\ Len(Squares(t)) = Len(s) + 1
  BY <1>1, <1>2
<1>7. Squares(t) = w
  BY <1>4, <1>5, <1>6, SeqEqual
<1> QED BY <1>3, <1>7 DEF t, w

(* The fields of the histogram of a list.                                  *)
LEMMA HistogramOfFields ==
  ASSUME NEW s
  PROVE  HistogramOf(s) =
           [min |-> Least(s, Huge), max |-> Greatest(s, 0), num |-> Len(s),
            sum |-> Total(s), sum_squares |-> Total(Squares(s)),
            buckets |-> [b \in Buckets |-> Cardinality(Counted(b, s))]]
BY DEF HistogramOf, Least, Greatest, Counted

(* It is a histogram object, and the empty list gives the cleared one.     *)
LEMMA HistogramOfType ==
  /\ HistogramOf(<< >>) = Clear
  /\ \A s \in Seq(Int) : HistogramOf(s) \in HistogramObject
<1>0. Huge \in Int /\ 0 \in Int
  BY HistogramAssumption
<1>1. HistogramOf(<< >>) = Clear
  <2>1. << >> \in Seq(Int) /\ Len(<< >>) = 0
    BY EmptySeq
  <2>2. Least(<< >>, Huge) = Huge /\ Greatest(<< >>, 0) = 0
    BY <1>0, ExtremesOfAppend
  <2>3. Total(<< >>) = 0 /\ Total(Squares(<< >>)) = 0
    <3>1. Squares(<< >>) = << >>
      <4>1. DOMAIN << >> = {}
        BY EmptySeq, LenProperties
      <4> QED BY <4>1 DEF Squares
    <3> QED BY <3>1, TotalOfAppend
  <2>4. [b \in Buckets |-> Cardinality(Counted(b, << >>))] = [b \in Buckets |-> 0]
    <3>1. \A b \in Buckets : Cardinality(Counted(b, << >>)) = 0
      BY <1>0, <2>1, CountOfAppend
    <3> QED BY <3>1
  <2> QED BY <2>1, <2>2, <2>3, <2>4, HistogramOfFields DEF Clear
<1>2. ASSUME NEW s \in Seq(Int) PROVE HistogramOf(s) \in HistogramObject
  <2>1. Least(s, Huge) \in Int /\ Greatest(s, 0) \in Int
    BY <1>0, ExtremesOfAppend
  <2>2. Total(s) \in Int /\ Total(Squares(s)) \in Int
    BY <1>0, SquaresOfAppend, TotalOfAppend
  <2>3. [b \in Buckets |-> Cardinality(Counted(b, s))] \in [Buckets -> Nat]
    BY <1>0, CountOfAppend
  <2>4. Len(s) \in Nat
    BY LenProperties
  <2> QED BY <2>1, <2>2, <2>3, <2>4, HistogramOfFields DEF HistogramObject
<1> QED BY <1>1, <1>2

(* AddFast adds one latency to the histogram of a list.                    *)
LEMMA AddFastExtends ==
  ASSUME NEW s \in Seq(Int), NEW v \in Values
  PROVE  HistogramOf(Append(s, v)) = AddFast(HistogramOf(s), v)
<1>0. v \in Int /\ v < 1000 * Scale * Power10[Decades] /\ Huge \in Int /\ 0 \in Int
  BY HistogramAssumption
<1> DEFINE t == Append(s, v)
           h == HistogramOf(s)
           g == HistogramOf(t)
<1>1. /\ h.min = Least(s, Huge) /\ h.max = Greatest(s, 0) /\ h.num = Len(s)
      /\ h.sum = Total(s) /\ h.sum_squares = Total(Squares(s))
      /\ h.buckets = [b \in Buckets |-> Cardinality(Counted(b, s))]
  BY HistogramOfFields
<1>2. g = [min |-> Least(t, Huge), max |-> Greatest(t, 0), num |-> Len(t),
           sum |-> Total(t), sum_squares |-> Total(Squares(t)),
           buckets |-> [b \in Buckets |-> Cardinality(Counted(b, t))]]
  BY HistogramOfFields
<1>3. Least(t, Huge) = Min({h.min, v}) /\ Greatest(t, 0) = Max({h.max, v})
  <2>1. Least(t, Huge) = Min({Least(s, Huge), v})
    BY <1>0, ExtremesOfAppend
  <2>2. Greatest(t, 0) = Max({Greatest(s, 0), v})
    BY <1>0, ExtremesOfAppend
  <2> HIDE DEF h, t
  <2> QED BY <1>1, <2>1, <2>2
<1>4. Len(t) = h.num + 1
  <2> HIDE DEF h
  <2> QED BY <1>0, <1>1, AppendProperties
<1>5. Total(t) = h.sum + v
  <2> HIDE DEF h
  <2> QED BY <1>0, <1>1, TotalOfAppend
<1>6. Total(Squares(t)) = h.sum_squares + v * v
  <2>1. /\ Squares(s) \in Seq(Int) /\ Squares(t) = Append(Squares(s), v * v)
        /\ v * v \in Int
    BY <1>0, SquaresOfAppend
  <2> HIDE DEF h, t
  <2> QED BY <1>1, <2>1, TotalOfAppend
<1>7. [b \in Buckets |-> Cardinality(Counted(b, t))]
        = [h.buckets EXCEPT ![AddFastPos(v)] = @ + 1]
  <2>1. AddFastPos(v) \in Buckets /\ Within(AddFastPos(v), v)
    BY <1>0, FastPosWithin
  <2>2. \A b \in Buckets : Within(b, v) <=> b = AddFastPos(v)
    BY <1>0, <2>1, WithinIsUnique
  <2>3. \A b \in Buckets :
          /\ Cardinality(Counted(b, s)) \in Nat
          /\ Cardinality(Counted(b, t))
               = Cardinality(Counted(b, s)) + IF b = AddFastPos(v) THEN 1 ELSE 0
    BY <1>0, <2>2, CountOfAppend
  <2> HIDE DEF h, t
  <2>4. ASSUME NEW b \in Buckets
        PROVE  Cardinality(Counted(b, t)) = [h.buckets EXCEPT ![AddFastPos(v)] = @ + 1][b]
    <3>1. CASE b = AddFastPos(v)
      BY <1>1, <2>1, <2>3, <3>1
    <3>2. CASE b # AddFastPos(v)
      BY <1>1, <2>1, <2>3, <3>2
    <3> QED BY <3>1, <3>2
  <2>5. DOMAIN [h.buckets EXCEPT ![AddFastPos(v)] = @ + 1] = Buckets
    BY <1>1
  <2> QED BY <1>1, <2>4, <2>5
<1> HIDE DEF h, g, t
<1>8. g = AddFast(h, v)
  BY <1>2, <1>3, <1>4, <1>5, <1>6, <1>7 DEF AddFast
<1> QED BY <1>8 DEF g, h, t

(* Three comparisons may be made in either order.                          *)
LEMMA Associative ==
  ASSUME NEW x \in Int, NEW y \in Int, NEW z \in Int
  PROVE  /\ Min({x, Min({y, z})}) = Min({Min({x, y}), z})
         /\ Max({x, Max({y, z})}) = Max({Max({x, y}), z})
<1>1. Min({x, Min({y, z})}) = Min({Min({x, y}), z})
  <2>1. PICK p, q : p = Min({y, z}) /\ q = Min({x, y})
    OBVIOUS
  <2>2. p = (IF y <= z THEN y ELSE z) /\ q = (IF x <= y THEN x ELSE y)
    BY <2>1, MinOfPair
  <2>3. p \in Int /\ q \in Int
    BY <2>2
  <2>4. /\ Min({x, p}) = IF x <= p THEN x ELSE p
        /\ Min({q, z}) = IF q <= z THEN q ELSE z
    BY <2>3, MinOfPair
  <2>5. Min({x, p}) = Min({q, z})
    BY <2>2, <2>4
  <2> QED BY <2>1, <2>5
<1>2. Max({x, Max({y, z})}) = Max({Max({x, y}), z})
  <2>1. PICK p, q : p = Max({y, z}) /\ q = Max({x, y})
    OBVIOUS
  <2>2. p = (IF y >= z THEN y ELSE z) /\ q = (IF x >= y THEN x ELSE y)
    BY <2>1, MaxOfPair
  <2>3. p \in Int /\ q \in Int
    BY <2>2
  <2>4. /\ Max({x, p}) = IF x >= p THEN x ELSE p
        /\ Max({q, z}) = IF q >= z THEN q ELSE z
    BY <2>3, MaxOfPair
  <2>5. Max({x, p}) = Max({q, z})
    BY <2>2, <2>4
  <2> QED BY <2>1, <2>5
<1> QED BY <1>1, <1>2

(* Adding to a histogram before or after merging it is the same.           *)
LEMMA MergeAddFast ==
  ASSUME NEW h \in HistogramObject, NEW g \in HistogramObject, NEW v \in Values
  PROVE  Merge(h, AddFast(g, v)) = AddFast(Merge(h, g), v)
<1>0. /\ v \in Int /\ v * v \in Int /\ AddFastPos(v) \in Buckets
  BY HistogramAssumption, FastPosWithin
<1>1. /\ h.min \in Int /\ g.min \in Int /\ h.max \in Int /\ g.max \in Int
      /\ h.num \in Nat /\ g.num \in Nat /\ h.sum \in Int /\ g.sum \in Int
      /\ h.sum_squares \in Int /\ g.sum_squares \in Int
      /\ h.buckets \in [Buckets -> Nat] /\ g.buckets \in [Buckets -> Nat]
  BY DEF HistogramObject
<1>2. Min({h.min, Min({g.min, v})}) = Min({Min({h.min, g.min}), v})
  <2>1. \A x, y, z \in Int : Min({x, Min({y, z})}) = Min({Min({x, y}), z})
    BY Associative
  <2>2. h.min \in Int /\ g.min \in Int /\ v \in Int
    BY <1>0, <1>1
  <2> QED BY <2>1, <2>2, ZenonT(60)
<1>3. Max({h.max, Max({g.max, v})}) = Max({Max({h.max, g.max}), v})
  <2>1. \A x, y, z \in Int : Max({x, Max({y, z})}) = Max({Max({x, y}), z})
    BY Associative
  <2>2. h.max \in Int /\ g.max \in Int /\ v \in Int
    BY <1>0, <1>1
  <2> QED BY <2>1, <2>2, ZenonT(60)
<1>4. /\ h.num + (g.num + 1) = (h.num + g.num) + 1
      /\ h.sum + (g.sum + v) = (h.sum + g.sum) + v
      /\ h.sum_squares + (g.sum_squares + v * v)
           = (h.sum_squares + g.sum_squares) + v * v
  <2>1. \A x, y, z \in Int : x + (y + z) = (x + y) + z
    OBVIOUS
  <2>2. h.num + (g.num + 1) = (h.num + g.num) + 1
    BY <1>1
  <2>3. h.sum + (g.sum + v) = (h.sum + g.sum) + v
    <3>1. h.sum \in Int /\ g.sum \in Int /\ v \in Int
      BY <1>0, <1>1
    <3> QED BY <2>1, <3>1, ZenonT(60)
  <2>4. h.sum_squares + (g.sum_squares + v * v)
          = (h.sum_squares + g.sum_squares) + v * v
    <3>1. h.sum_squares \in Int /\ g.sum_squares \in Int /\ v * v \in Int
      BY <1>0, <1>1, ZenonT(60)
    <3> QED BY <2>1, <3>1, ZenonT(60)
  <2> QED BY <2>2, <2>3, <2>4, ZenonT(60)
<1> DEFINE p == AddFastPos(v)
           left == [b \in Buckets |-> h.buckets[b] + [g.buckets EXCEPT ![p] = @ + 1][b]]
           right == [[b \in Buckets |-> h.buckets[b] + g.buckets[b]] EXCEPT ![p] = @ + 1]
<1>5. left = right
  <2>1. p \in Buckets
    BY <1>0
  <2> HIDE DEF p
  <2>2. ASSUME NEW b \in Buckets PROVE left[b] = right[b]
    <3>1. h.buckets[b] \in Nat /\ g.buckets[b] \in Nat
      BY <1>1
    <3>2. CASE b = p
      BY <1>1, <2>1, <3>1, <3>2
    <3>3. CASE b # p
      BY <1>1, <2>1, <3>1, <3>3
    <3> QED BY <3>2, <3>3
  <2> QED BY <2>2
<1> HIDE DEF p
<1>6. /\ Merge(h, AddFast(g, v)) =
          [min |-> Min({h.min, Min({g.min, v})}), max |-> Max({h.max, Max({g.max, v})}),
           num |-> h.num + (g.num + 1), sum |-> h.sum + (g.sum + v),
           sum_squares |-> h.sum_squares + (g.sum_squares + v * v), buckets |-> left]
      /\ AddFast(Merge(h, g), v) =
          [min |-> Min({Min({h.min, g.min}), v}), max |-> Max({Max({h.max, g.max}), v}),
           num |-> (h.num + g.num) + 1, sum |-> (h.sum + g.sum) + v,
           sum_squares |-> (h.sum_squares + g.sum_squares) + v * v, buckets |-> right]
  BY DEF Merge, AddFast, p
<1> HIDE DEF left, right
<1> QED BY <1>2, <1>3, <1>4, <1>5, <1>6

(* Merging with a cleared histogram changes nothing.                       *)
LEMMA MergeClear ==
  ASSUME NEW h \in HistogramObject, h.min <= Huge, h.max >= 0
  PROVE  Merge(h, Clear) = h
<1>1. /\ h.min \in Int /\ h.max \in Int /\ h.num \in Nat /\ h.sum \in Int
      /\ h.sum_squares \in Int /\ h.buckets \in [Buckets -> Nat]
      /\ Huge \in Int
      /\ h = [min |-> h.min, max |-> h.max, num |-> h.num, sum |-> h.sum,
              sum_squares |-> h.sum_squares, buckets |-> h.buckets]
  BY HistogramAssumption DEF HistogramObject
<1>2. Min({h.min, Huge}) = h.min /\ Max({h.max, 0}) = h.max
  BY <1>1, MinOfPair, MaxOfPair
<1>3. [b \in Buckets |-> h.buckets[b] + 0] = h.buckets
  BY <1>1
<1>4. Merge(h, Clear) =
        [min |-> Min({h.min, Huge}), max |-> Max({h.max, 0}), num |-> h.num + 0,
         sum |-> h.sum + 0, sum_squares |-> h.sum_squares + 0,
         buckets |-> [b \in Buckets |-> h.buckets[b] + 0]]
  BY DEF Merge, Clear
<1> QED BY <1>1, <1>2, <1>3, <1>4

(* Merging the histograms of two lists gives that of both together.        *)
LEMMA MergeOfLists ==
  ASSUME NEW s \in Seq(Values), NEW t \in Seq(Values)
  PROVE  HistogramOf(s \o t) = Merge(HistogramOf(s), HistogramOf(t))
<1>0. /\ Values \subseteq Int /\ \A r \in Seq(Values) : r \in Seq(Int)
  BY HistogramAssumption, SeqMonotonic
<1> DEFINE h == HistogramOf(s)
           P == { r \in Seq(Values) : HistogramOf(s \o r) = Merge(h, HistogramOf(r)) }
<1>1. h \in HistogramObject /\ h.min <= Huge /\ h.max >= 0
  <2>1. h \in HistogramObject
    BY <1>0, HistogramOfType
  <2>2. h.min = Least(s, Huge) /\ h.max = Greatest(s, 0)
    BY HistogramOfFields
  <2>3. Huge \in Int /\ 0 \in Int
    BY HistogramAssumption
  <2>4. s \in Seq(Int)
    BY <1>0
  <2>5. Least(s, Huge) <= Huge
    BY <2>3, <2>4, ExtremesOfAppend
  <2>6. Greatest(s, 0) >= 0
    BY <2>3, <2>4, ExtremesOfAppend
  <2> HIDE DEF h
  <2> QED BY <2>1, <2>2, <2>5, <2>6
<1>2. << >> \in P
  <2>1. << >> \in Seq(Values) /\ s \o << >> = s
    BY EmptySeq, ConcatEmptySeq
  <2>2. Merge(h, HistogramOf(<< >>)) = h
    <3> HIDE DEF h
    <3> QED BY <1>1, HistogramOfType, MergeClear
  <2> QED BY <2>1, <2>2
<1>3. ASSUME NEW r \in Seq(Values), NEW v \in Values, r \in P
      PROVE  Append(r, v) \in P
  <2>1. /\ s \o r \in Seq(Values) /\ Append(r, v) \in Seq(Values)
        /\ s \o Append(r, v) = Append(s \o r, v)
    <3>1. <<v>> \in Seq(Values)
      OBVIOUS
    <3>2. /\ s \o r \in Seq(Values) /\ Append(r, v) \in Seq(Values)
          /\ Append(r, v) = r \o <<v>> /\ (s \o r) \o <<v>> = s \o (r \o <<v>>)
      BY <3>1, ConcatProperties, AppendProperties, AppendIsConcat, ConcatAssociative
    <3>3. Append(s \o r, v) = (s \o r) \o <<v>>
      BY <3>2, AppendIsConcat
    <3> QED BY <3>2, <3>3
  <2>2. HistogramOf(s \o Append(r, v)) = AddFast(HistogramOf(s \o r), v)
    BY <1>0, <2>1, AddFastExtends
  <2>3. HistogramOf(s \o r) = Merge(h, HistogramOf(r))
    BY <1>3
  <2>4. HistogramOf(Append(r, v)) = AddFast(HistogramOf(r), v)
    BY <1>0, AddFastExtends
  <2>5. HistogramOf(r) \in HistogramObject
    BY <1>0, HistogramOfType
  <2> HIDE DEF h
  <2>6. Merge(h, AddFast(HistogramOf(r), v)) = AddFast(Merge(h, HistogramOf(r)), v)
    BY <1>1, <2>5, MergeAddFast
  <2> QED BY <2>1, <2>2, <2>3, <2>4, <2>6
<1> HIDE DEF P
<1>4. t \in P
  BY <1>2, <1>3, ListInduction
<1> QED BY <1>4 DEF P

(* The lists of the workers, one after the other.                          *)
LEMMA JoinedDef ==
  ASSUME NEW lists \in [Indices -> Seq(Values)]
  PROVE  /\ Joined(lists)[0] = lists[0]
         /\ \A i \in Indices \ {0} :
              Joined(lists)[i] = Joined(lists)[i - 1] \o lists[i]
         /\ \A i \in Indices : Joined(lists)[i] \in Seq(Values)
<1>0. NumHistograms \in Nat /\ NumHistograms >= 1
  BY HistogramAssumption
<1>1. 0 \in Indices /\ Indices = 0 .. NumHistograms - 1
  BY <1>0 DEF Indices
<1> DEFINE n == NumHistograms - 1
           V == Seq(Values)
           step == [p \in Nat \X V |->
                      p[2] \o (IF p[1] + 1 \in Indices THEN lists[p[1] + 1] ELSE << >>)]
<1>2. StepOf(step, V)
  <2>1. ASSUME NEW p \in Nat \X V
        PROVE  p[2] \o (IF p[1] + 1 \in Indices THEN lists[p[1] + 1] ELSE << >>) \in V
    <3>1. PICK e : e = IF p[1] + 1 \in Indices THEN lists[p[1] + 1] ELSE << >>
      OBVIOUS
    <3>2. e \in Seq(Values) /\ p[2] \in Seq(Values)
      BY <3>1, EmptySeq
    <3> QED BY <3>1, <3>2, ConcatProperties
  <2> HIDE DEF V
  <2> QED BY <2>1 DEF StepOf
<1>3. \A i \in 0 .. n - 1, x \in V : step[<<i, x>>] = x \o lists[i + 1]
  <2>1. ASSUME NEW i \in 0 .. n - 1, NEW x \in V
        PROVE  step[<<i, x>>] = x \o lists[i + 1]
    <3>1. i \in Nat /\ i + 1 \in Indices
      BY <1>0, <1>1
    <3> HIDE DEF V
    <3>2. step[<<i, x>>] =
            x \o (IF i + 1 \in Indices THEN lists[i + 1] ELSE << >>)
      BY <3>1
    <3> QED BY <3>1, <3>2
  <2> QED BY <2>1
<1> HIDE DEF step
<1>4. PICK f : f \in Solutions(V, lists[0], step, n)
  <2>1. lists[0] \in V /\ n \in Nat
    BY <1>0, <1>1
  <2> HIDE DEF V, n
  <2>2. Solutions(V, lists[0], step, n) # {}
    BY <1>2, <2>1, SolutionExists, Zenon
  <2> QED BY <2>2
<1>5. f \in [0 .. n -> V] /\ f[0] = lists[0]
  <2> HIDE DEF V, n
  <2> QED BY <1>4 DEF Solutions
<1>6. ASSUME NEW i \in Indices, i # 0 PROVE f[i] = f[i - 1] \o lists[i]
  <2>1. i - 1 \in 0 .. n - 1 /\ i - 1 \in 0 .. n /\ (i - 1) + 1 = i
    BY <1>0, <1>1, <1>6
  <2>2. f[i - 1] \in V
    BY <1>5, <2>1
  <2> HIDE DEF V, n
  <2>3. f[(i - 1) + 1] = step[<<i - 1, f[i - 1]>>]
    BY <1>4, <2>1 DEF Solutions
  <2>4. step[<<i - 1, f[i - 1]>>] = f[i - 1] \o lists[(i - 1) + 1]
    BY <1>3, <2>1, <2>2
  <2> QED BY <2>1, <2>3, <2>4
<1>7. f = [i \in Indices |-> IF i = 0 THEN lists[0] ELSE f[i - 1] \o lists[i]]
  BY <1>1, <1>5, <1>6
<1>8. Joined(lists) = [i \in Indices |->
         IF i = 0 THEN lists[0] ELSE Joined(lists)[i - 1] \o lists[i]]
  BY <1>7, Zenon DEF Joined
<1>9. /\ Joined(lists)[0] = lists[0]
      /\ \A i \in Indices \ {0} : Joined(lists)[i] = Joined(lists)[i - 1] \o lists[i]
  BY <1>1, <1>8
<1> DEFINE P == { i \in Nat : i \in Indices => Joined(lists)[i] \in Seq(Values) }
<1>10. 0 \in P
  BY <1>1, <1>9
<1>11. ASSUME NEW i \in Nat, i \in P, i + 1 \in Indices
       PROVE  Joined(lists)[i + 1] \in Seq(Values)
  <2>1. i \in Indices /\ i + 1 \in Indices \ {0} /\ (i + 1) - 1 = i
    BY <1>0, <1>1, <1>11
  <2>2. Joined(lists)[i] \in Seq(Values) /\ lists[i + 1] \in Seq(Values)
    BY <1>11, <2>1
  <2>3. Joined(lists)[i + 1] = Joined(lists)[i] \o lists[i + 1]
    BY <1>9, <2>1
  <2> QED BY <2>2, <2>3, ConcatProperties
<1>12. \A i \in Nat : i \in P
  <2>1. \A i \in Nat : i \in P => i + 1 \in P
    BY <1>11
  <2> HIDE DEF P
  <2> QED BY <1>10, <2>1, Induction
<1>13. \A i \in Indices : Joined(lists)[i] \in Seq(Values)
  BY <1>0, <1>1, <1>12
<1> QED BY <1>9, <1>13

(* A histogram AddFast has changed is an object still.                     *)
LEMMA AddFastType ==
  ASSUME NEW h \in HistogramObject, NEW v \in Values
  PROVE  AddFast(h, v) \in HistogramObject
<1>1. v \in Int /\ v * v \in Int /\ AddFastPos(v) \in Buckets
  BY HistogramAssumption, FastPosWithin
<1>2. /\ h.min \in Int /\ h.max \in Int /\ h.num \in Nat /\ h.sum \in Int
      /\ h.sum_squares \in Int /\ h.buckets \in [Buckets -> Nat]
  BY DEF HistogramObject
<1>3. Min({h.min, v}) \in Int /\ Max({h.max, v}) \in Int
  BY <1>1, <1>2, MinOfPair, MaxOfPair
<1>4. [h.buckets EXCEPT ![AddFastPos(v)] = @ + 1] \in [Buckets -> Nat]
  BY <1>1, <1>2
<1>5. h.num + 1 \in Nat /\ h.sum + v \in Int /\ h.sum_squares + v * v \in Int
  BY <1>1, <1>2
<1> QED BY <1>3, <1>4, <1>5 DEF AddFast, HistogramObject

(* So is one that another has been merged into.                            *)
LEMMA MergeType ==
  ASSUME NEW h \in HistogramObject, NEW g \in HistogramObject
  PROVE  Merge(h, g) \in HistogramObject
<1>1. /\ h.min \in Int /\ g.min \in Int /\ h.max \in Int /\ g.max \in Int
      /\ h.num \in Nat /\ g.num \in Nat /\ h.sum \in Int /\ g.sum \in Int
      /\ h.sum_squares \in Int /\ g.sum_squares \in Int
      /\ h.buckets \in [Buckets -> Nat] /\ g.buckets \in [Buckets -> Nat]
  BY DEF HistogramObject
<1>2. Min({h.min, g.min}) \in Int /\ Max({h.max, g.max}) \in Int
  BY <1>1, MinOfPair, MaxOfPair
<1>3. [b \in Buckets |-> h.buckets[b] + g.buckets[b]] \in [Buckets -> Nat]
  BY <1>1
<1>4. /\ h.num + g.num \in Nat /\ h.sum + g.sum \in Int
      /\ h.sum_squares + g.sum_squares \in Int
  BY <1>1
<1> QED BY <1>2, <1>3, <1>4 DEF Merge, HistogramObject

-----------------------------------------------------------------------------
(* Percentiles *)

Doubles == [nan : {FALSE}, n : Int, d : Nat \ {0}]

(* Comparing two fractions: the denominators are positive.                 *)
LEMMA Cancel ==
  ASSUME NEW a \in Int, NEW b \in Int, NEW k \in Nat, k >= 1, a * k <= b * k
  PROVE  a <= b
<1>1. b < a => b * k < a * k
  BY Scaling
<1>2. a * k \in Int /\ b * k \in Int
  BY Scaling
<1> QED BY <1>1, <1>2

(* The comparison of numbers is transitive.                                *)
LEMMA LeqTransitive ==
  ASSUME NEW x \in Doubles, NEW y \in Doubles, NEW z \in Doubles,
         Leq(x, y), Leq(y, z)
  PROVE  Leq(x, z)
<1>1. PICK a, b, c, p, q, r :
        a = x.n /\ b = y.n /\ c = z.n /\ p = x.d /\ q = y.d /\ r = z.d
  OBVIOUS
<1>2. /\ a \in Int /\ b \in Int /\ c \in Int
      /\ p \in Nat /\ q \in Nat /\ r \in Nat /\ p >= 1 /\ q >= 1 /\ r >= 1
      /\ ~ x.nan /\ ~ y.nan /\ ~ z.nan
  <2>1. \A w \in Doubles : w.n \in Int /\ w.d \in Nat /\ w.d >= 1
    BY DEF Doubles
  <2>2. \A w \in Doubles : w.nan \in {FALSE}
    BY DEF Doubles
  <2>3. ~ x.nan /\ ~ y.nan /\ ~ z.nan
    BY <2>2, Zenon
  <2> QED BY <1>1, <2>1, <2>3
<1>3. a * q <= b * p /\ b * r <= c * q
  BY <1>1 DEF Leq
<1>4. a * q \in Int /\ b * p \in Int /\ b * r \in Int /\ c * q \in Int
      /\ a * r \in Int /\ c * p \in Int
  BY <1>2
<1>5. (a * q) * r <= (b * p) * r /\ (b * r) * p <= (c * q) * p
  <2>1. \A i, j \in Int, k \in Nat : k >= 1 /\ i <= j => i * k <= j * k
    BY Scaling
  <2> QED BY <1>2, <1>3, <1>4, <2>1, Zenon
<1>6. /\ (a * q) * r = (a * r) * q /\ (b * p) * r = (b * r) * p
      /\ (c * q) * p = (c * p) * q
  BY <1>2
<1>7. (a * r) * q <= (c * p) * q
  <2>1. (a * r) * q \in Int /\ (c * p) * q \in Int /\ (b * r) * p \in Int
    BY <1>2, <1>4
  <2> QED BY <1>5, <1>6, <2>1
<1>8. a * r <= c * p
  BY <1>2, <1>4, <1>7, Cancel
<1> QED BY <1>1, <1>2, <1>8 DEF Leq

(* Clamping keeps a number, brings it between the bounds, and keeps the    *)
(* order of two numbers.                                                   *)
LEMMA ClampOrder ==
  ASSUME NEW h \in HistogramObject, h.min <= h.max,
         NEW x \in Doubles, NEW y \in Doubles
  PROVE  /\ Clamp(h, x) \in Doubles
         /\ Leq(Num(h.min, 1), Clamp(h, x)) /\ Leq(Clamp(h, x), Num(h.max, 1))
         /\ Leq(x, y) => Leq(Clamp(h, x), Clamp(h, y))
<1> DEFINE m == Num(h.min, 1)
           M == Num(h.max, 1)
<1>1. h.min \in Int /\ h.max \in Int
  BY DEF HistogramObject
<1>2. m \in Doubles /\ M \in Doubles /\ Leq(m, M) /\ Leq(m, m) /\ Leq(M, M)
  BY <1>1 DEF Num, Doubles, Leq
<1>3. ASSUME NEW r \in Doubles
      PROVE  /\ (~ r.nan /\ r.n < h.min * r.d) <=> ~ Leq(m, r)
             /\ (~ r.nan /\ r.n > h.max * r.d) <=> ~ Leq(r, M)
             /\ Leq(m, r) \/ Leq(r, m)
             /\ Leq(r, r)
  <2>1. r.n \in Int /\ r.d \in Nat /\ r.nan = FALSE
    BY DEF Doubles
  <2>2. /\ h.min * r.d \in Int /\ h.max * r.d \in Int /\ r.n * 1 = r.n
        /\ r.n * r.d \in Int
    BY <1>1, <2>1
  <2> QED BY <2>1, <2>2 DEF Leq, Num
<1>4. ASSUME NEW r \in Doubles
      PROVE  /\ ~ Leq(m, r) => Clamp(h, r) = m
             /\ Leq(m, r) /\ ~ Leq(r, M) => Clamp(h, r) = M
             /\ Leq(m, r) /\ Leq(r, M) => Clamp(h, r) = r
  <2>1. ~ Leq(m, r) => Leq(r, M)
    <3> HIDE DEF m, M
    <3> QED BY <1>2, <1>3, LeqTransitive
  <2>2. CASE ~ Leq(m, r)
    <3>1. ~ (~ r.nan /\ r.n > h.max * r.d)
      BY <1>3, <2>1, <2>2
    <3> QED BY <1>3, <2>2, <3>1, Zenon DEF Clamp
  <2>3. CASE Leq(m, r) /\ ~ Leq(r, M)
    BY <1>3, <2>3, Zenon DEF Clamp
  <2>4. CASE Leq(m, r) /\ Leq(r, M)
    BY <1>3, <2>4, Zenon DEF Clamp
  <2> QED BY <2>2, <2>3, <2>4
<1> HIDE DEF m, M
<1>5. /\ Clamp(h, x) \in Doubles /\ Leq(m, Clamp(h, x)) /\ Leq(Clamp(h, x), M)
      /\ Leq(m, Clamp(h, y)) /\ Leq(Clamp(h, y), M)
  BY <1>2, <1>3, <1>4
<1>6. ASSUME Leq(x, y) PROVE Leq(Clamp(h, x), Clamp(h, y))
  <2>1. CASE ~ Leq(m, x)
    BY <1>4, <1>5, <2>1
  <2>2. CASE Leq(m, x) /\ ~ Leq(x, M)
    <3>1. Leq(m, y) /\ ~ Leq(y, M)
      BY <1>2, <1>6, <2>2, LeqTransitive
    <3> QED BY <1>2, <1>4, <2>2, <3>1
  <2>3. CASE Leq(m, x) /\ Leq(x, M)
    <3>1. Leq(m, y)
      BY <1>2, <1>6, <2>3, LeqTransitive
    <3> QED BY <1>4, <1>6, <2>3, <3>1
  <2> QED BY <2>1, <2>2, <2>3
<1> QED BY <1>5, <1>6 DEF m, M

(* The counts of the loop of Percentile.                                   *)
LEMMA CountDef ==
  ASSUME NEW h \in HistogramObject
  PROVE  /\ CountUpTo(h)[0] = h.buckets[0]
         /\ \A b \in Buckets \ {0} :
              CountUpTo(h)[b] = h.buckets[b] + CountUpTo(h)[b - 1]
         /\ \A b \in Buckets : CountUpTo(h)[b] \in Nat
<1>0. kNumBuckets \in Nat /\ kNumBuckets >= 26
  BY TableFacts
<1>1. /\ 0 \in Buckets /\ Buckets = 0 .. kNumBuckets - 1
      /\ \A b \in Buckets : h.buckets[b] \in Nat
  BY <1>0 DEF Buckets, HistogramObject
<1> DEFINE n == kNumBuckets - 1
           step == [p \in Nat \X Nat |->
                      p[2] + IF p[1] + 1 \in Buckets THEN h.buckets[p[1] + 1] ELSE 0]
<1>2. StepOf(step, Nat)
  <2>1. ASSUME NEW p \in Nat \X Nat
        PROVE  p[2] + (IF p[1] + 1 \in Buckets THEN h.buckets[p[1] + 1] ELSE 0) \in Nat
    BY <1>1
  <2> QED BY <2>1 DEF StepOf
<1>3. \A i \in 0 .. n - 1, x \in Nat : step[<<i, x>>] = x + h.buckets[i + 1]
  <2>1. ASSUME NEW i \in 0 .. n - 1, NEW x \in Nat
        PROVE  step[<<i, x>>] = x + h.buckets[i + 1]
    <3>1. i \in Nat /\ i + 1 \in Buckets
      BY <1>0, <1>1
    <3>2. step[<<i, x>>] =
            x + (IF i + 1 \in Buckets THEN h.buckets[i + 1] ELSE 0)
      BY <3>1
    <3> QED BY <3>1, <3>2
  <2> QED BY <2>1
<1> HIDE DEF step
<1>4. PICK f : f \in Solutions(Nat, h.buckets[0], step, n)
  <2>1. h.buckets[0] \in Nat /\ n \in Nat
    BY <1>0, <1>1
  <2> HIDE DEF n
  <2>2. Solutions(Nat, h.buckets[0], step, n) # {}
    BY <1>2, <2>1, SolutionExists, Zenon
  <2> QED BY <2>2
<1>5. f \in [0 .. n -> Nat] /\ f[0] = h.buckets[0]
  <2> HIDE DEF n
  <2> QED BY <1>4 DEF Solutions
<1>6. ASSUME NEW b \in Buckets, b # 0 PROVE f[b] = h.buckets[b] + f[b - 1]
  <2>1. b - 1 \in 0 .. n - 1 /\ b - 1 \in 0 .. n /\ (b - 1) + 1 = b
    BY <1>0, <1>1, <1>6
  <2>2. f[b - 1] \in Nat /\ h.buckets[b] \in Nat
    BY <1>1, <1>5, <2>1
  <2> HIDE DEF n
  <2>3. f[(b - 1) + 1] = step[<<b - 1, f[b - 1]>>]
    BY <1>4, <2>1 DEF Solutions
  <2>4. step[<<b - 1, f[b - 1]>>] = f[b - 1] + h.buckets[(b - 1) + 1]
    BY <1>3, <2>1, <2>2
  <2> QED BY <2>1, <2>2, <2>3, <2>4
<1>7. f = [b \in Buckets |-> h.buckets[b] + IF b = 0 THEN 0 ELSE f[b - 1]]
  <2>1. \A b \in Buckets : f[b] = h.buckets[b] + IF b = 0 THEN 0 ELSE f[b - 1]
    BY <1>1, <1>5, <1>6
  <2>2. f \in [Buckets -> Nat]
    BY <1>1, <1>5
  <2> QED BY <2>1, <2>2
<1>8. CountUpTo(h) = [b \in Buckets |->
         h.buckets[b] + IF b = 0 THEN 0 ELSE CountUpTo(h)[b - 1]]
  BY <1>7, Zenon DEF CountUpTo
<1>9. /\ CountUpTo(h)[0] = h.buckets[0]
      /\ \A b \in Buckets \ {0} : CountUpTo(h)[b] = h.buckets[b] + CountUpTo(h)[b - 1]
  <2>1. \A b \in Buckets :
          CountUpTo(h)[b] = h.buckets[b] + IF b = 0 THEN 0 ELSE CountUpTo(h)[b - 1]
    BY <1>8, Zenon
  <2>2. CountUpTo(h)[0] = h.buckets[0] + 0
    BY <1>1, <2>1
  <2> QED BY <1>1, <2>1, <2>2
<1> DEFINE P == { b \in Nat : b \in Buckets => CountUpTo(h)[b] \in Nat }
<1>10. 0 \in P
  BY <1>1, <1>9
<1>11. ASSUME NEW b \in Nat, b \in P, b + 1 \in Buckets
       PROVE  CountUpTo(h)[b + 1] \in Nat
  <2>1. b \in Buckets /\ b + 1 \in Buckets \ {0} /\ (b + 1) - 1 = b
    BY <1>0, <1>1, <1>11
  <2>2. CountUpTo(h)[b] \in Nat /\ h.buckets[b + 1] \in Nat
    BY <1>1, <1>11, <2>1
  <2>3. CountUpTo(h)[b + 1] = h.buckets[b + 1] + CountUpTo(h)[b]
    BY <1>9, <2>1
  <2> QED BY <2>2, <2>3
<1>12. \A b \in Nat : b \in P
  <2>1. \A b \in Nat : b \in P => b + 1 \in P
    BY <1>11
  <2> HIDE DEF P
  <2> QED BY <1>10, <2>1, Induction
<1>13. \A b \in Buckets : CountUpTo(h)[b] \in Nat
  BY <1>0, <1>1, <1>12
<1> QED BY <1>9, <1>13

(* AddFast counts one more from the bucket of the latency on ...           *)
LEMMA CountOfAddFast ==
  ASSUME NEW h \in HistogramObject, NEW v \in Values
  PROVE  CountUpTo(AddFast(h, v))[kNumBuckets - 1] = CountUpTo(h)[kNumBuckets - 1] + 1
<1> DEFINE g == AddFast(h, v)
           p == AddFastPos(v)
<1>0. kNumBuckets \in Nat /\ kNumBuckets >= 26 /\ Buckets = 0 .. kNumBuckets - 1
  BY TableFacts DEF Buckets
<1>1. v \in Int /\ p \in Buckets /\ g \in HistogramObject
  BY HistogramAssumption, FastPosWithin, AddFastType
<1>2. g.buckets = [h.buckets EXCEPT ![p] = @ + 1]
  BY DEF AddFast
<1>3. h.buckets \in [Buckets -> Nat]
  BY DEF HistogramObject
<1> HIDE DEF g, p
<1>4. \A b \in Buckets : /\ h.buckets[b] \in Nat
                         /\ g.buckets[b] = h.buckets[b] + IF b = p THEN 1 ELSE 0
  BY <1>1, <1>2, <1>3
<1> DEFINE More(b) == CountUpTo(g)[b] = CountUpTo(h)[b] + IF b >= p THEN 1 ELSE 0
           P == { b \in Nat : b \in Buckets => More(b) }
<1>5. 0 \in P
  <2>1. 0 \in Buckets /\ p \in Nat
    BY <1>0, <1>1
  <2>2. CountUpTo(g)[0] = g.buckets[0] /\ CountUpTo(h)[0] = h.buckets[0]
    BY <1>1, CountDef
  <2>3. 0 >= p <=> 0 = p
    BY <2>1
  <2> QED BY <1>4, <2>1, <2>2, <2>3
<1>6. ASSUME NEW b \in Nat, b \in P, b + 1 \in Buckets PROVE More(b + 1)
  <2>1. /\ b \in Buckets /\ b + 1 \in Buckets \ {0} /\ (b + 1) - 1 = b /\ p \in Nat
    BY <1>0, <1>1, <1>6
  <2>2. /\ CountUpTo(g)[b + 1] = g.buckets[b + 1] + CountUpTo(g)[b]
        /\ CountUpTo(h)[b + 1] = h.buckets[b + 1] + CountUpTo(h)[b]
        /\ CountUpTo(h)[b] \in Nat
    BY <1>1, <2>1, CountDef
  <2>3. /\ CountUpTo(g)[b] = CountUpTo(h)[b] + IF b >= p THEN 1 ELSE 0
        /\ h.buckets[b + 1] \in Nat
        /\ g.buckets[b + 1] = h.buckets[b + 1] + IF b + 1 = p THEN 1 ELSE 0
    BY <1>4, <1>6, <2>1
  <2>4. \/ b >= p /\ b + 1 # p /\ b + 1 >= p
        \/ ~ (b >= p) /\ b + 1 = p /\ b + 1 >= p
        \/ ~ (b >= p) /\ b + 1 # p /\ ~ (b + 1 >= p)
    BY <2>1
  <2> QED BY <2>2, <2>3, <2>4
<1>7. \A b \in Nat : b \in P
  <2>1. \A b \in Nat : b \in P => b + 1 \in P
    <3> HIDE DEF More
    <3> QED BY <1>6
  <2> HIDE DEF P
  <2> QED BY <1>5, <2>1, Induction
<1>8. kNumBuckets - 1 \in Nat /\ kNumBuckets - 1 \in Buckets /\ kNumBuckets - 1 >= p
  BY <1>0, <1>1
<1>9. More(kNumBuckets - 1)
  <2> HIDE DEF More
  <2> QED BY <1>7, <1>8
<1> QED BY <1>8, <1>9 DEF g

(* ... so that the buckets count every latency, and the minimum of a       *)
(* report is at most its maximum.                                          *)
LEMMA CountOfList ==
  ASSUME NEW s \in Seq(Values)
  PROVE  /\ CountUpTo(HistogramOf(s))[kNumBuckets - 1] = Len(s)
         /\ Len(s) > 0 => HistogramOf(s).min <= HistogramOf(s).max
<1>0. /\ Values \subseteq Int /\ \A r \in Seq(Values) : r \in Seq(Int)
      /\ Huge \in Int /\ 0 \in Int
  <2>1. Values \subseteq Int /\ Huge \in Int /\ 0 \in Int
    BY HistogramAssumption
  <2> QED BY <2>1, SeqMonotonic
<1>1. /\ Clear \in HistogramObject /\ << >> \in Seq(Values) /\ << >> \in Seq(Int)
      /\ Clear = HistogramOf(<< >>) /\ Len(<< >>) = 0
  BY HistogramOfType, EmptySeq
<1>2. CountUpTo(Clear)[kNumBuckets - 1] = 0
  <2>0. kNumBuckets \in Nat /\ kNumBuckets >= 26 /\ Buckets = 0 .. kNumBuckets - 1
    BY TableFacts DEF Buckets
  <2>1. \A b \in Buckets : Clear.buckets[b] = 0
    BY DEF Clear
  <2> DEFINE P == { b \in Nat : b \in Buckets => CountUpTo(Clear)[b] = 0 }
  <2>2. 0 \in P
    BY <1>1, <2>1, CountDef
  <2>3. ASSUME NEW b \in Nat, b \in P, b + 1 \in Buckets
        PROVE  CountUpTo(Clear)[b + 1] = 0
    <3>1. b \in Buckets /\ b + 1 \in Buckets \ {0} /\ (b + 1) - 1 = b
      BY <2>0, <2>3
    <3>2. CountUpTo(Clear)[b + 1] = Clear.buckets[b + 1] + CountUpTo(Clear)[b]
      BY <1>1, <3>1, CountDef
    <3> QED BY <2>1, <2>3, <3>1, <3>2
  <2>4. \A b \in Nat : b \in P
    <3>1. \A b \in Nat : b \in P => b + 1 \in P
      BY <2>3
    <3> HIDE DEF P
    <3> QED BY <2>2, <3>1, Induction
  <2> QED BY <2>0, <2>4
<1> DEFINE P == { r \in Seq(Values) :
                    CountUpTo(HistogramOf(r))[kNumBuckets - 1] = Len(r) }
<1>3. << >> \in P
  BY <1>1, <1>2
<1>4. ASSUME NEW r \in Seq(Values), NEW v \in Values, r \in P
      PROVE  Append(r, v) \in P
  <2>1. HistogramOf(r) \in HistogramObject /\ r \in Seq(Int)
    BY <1>0, HistogramOfType
  <2>2. HistogramOf(Append(r, v)) = AddFast(HistogramOf(r), v)
    BY <2>1, AddFastExtends
  <2>3. CountUpTo(AddFast(HistogramOf(r), v))[kNumBuckets - 1]
          = CountUpTo(HistogramOf(r))[kNumBuckets - 1] + 1
    BY <2>1, CountOfAddFast
  <2>4. Append(r, v) \in Seq(Values) /\ Len(Append(r, v)) = Len(r) + 1
    BY AppendProperties
  <2> QED BY <1>4, <2>2, <2>3, <2>4
<1>5. s \in P
  <2> HIDE DEF P
  <2> QED BY <1>3, <1>4, ListInduction
<1>6. ASSUME Len(s) > 0 PROVE HistogramOf(s).min <= HistogramOf(s).max
  <2>1. s # << >>
    BY <1>1, <1>6
  <2>2. PICK r \in Seq(Values), v \in Values : s = Append(r, v)
    BY <2>1, SequenceEmptyOrAppend
  <2>3. r \in Seq(Int) /\ v \in Int
    BY <1>0
  <2>4. /\ Least(s, Huge) = Min({Least(r, Huge), v}) /\ Least(r, Huge) \in Int
    BY <1>0, <2>2, <2>3, ExtremesOfAppend
  <2>5. /\ Greatest(s, 0) = Max({Greatest(r, 0), v}) /\ Greatest(r, 0) \in Int
    BY <1>0, <2>2, <2>3, ExtremesOfAppend
  <2>6. Least(s, Huge) <= v /\ Least(s, Huge) \in Int
    BY <2>3, <2>4, MinOfPair
  <2>7. v <= Greatest(s, 0) /\ Greatest(s, 0) \in Int
    BY <2>3, <2>5, MaxOfPair
  <2>8. HistogramOf(s).min = Least(s, Huge) /\ HistogramOf(s).max = Greatest(s, 0)
    BY HistogramOfFields
  <2> QED BY <2>3, <2>6, <2>7, <2>8
<1> QED BY <1>5, <1>6

(* A histogram with something to report.                                   *)
Filled(h) ==
  /\ h \in HistogramObject /\ h.num >= 1 /\ h.min <= h.max
  /\ CountUpTo(h)[kNumBuckets - 1] = h.num

LeftPoint(b) == IF b = 0 THEN 0 ELSE kBucketLimit[b - 1]

(* The operations below bucket b.                                          *)
LeftSum(h, b) == CountUpTo(h)[b] - h.buckets[b]

(* The value that Percentile finds in bucket b, before it is clamped.      *)
Scaled(h, n, d, b) ==
  Num(LeftPoint(b) * d * h.buckets[b]
        + (kBucketLimit[b] - LeftPoint(b)) * (h.num * n - d * LeftSum(h, b)),
      d * h.buckets[b])

(* Bucket b is where the count reaches the threshold; it is not empty.     *)
Reached(h, n, d, b) ==
  /\ b \in Buckets /\ h.buckets[b] \in Nat /\ h.buckets[b] >= 1
  /\ d * CountUpTo(h)[b] >= h.num * n
  /\ d * LeftSum(h, b) <= h.num * n
  /\ \A x \in Buckets : d * CountUpTo(h)[x] >= h.num * n => b <= x

(* The threshold is reached, in a bucket that holds operations: no         *)
(* percentile is 0/0.                                                      *)
LEMMA PercentileReached ==
  ASSUME NEW h, Filled(h), NEW n \in Nat, NEW d \in Nat, n >= 1, n <= d
  PROVE  \E b \in Buckets : /\ Reached(h, n, d, b)
                            /\ Percentile(h, n, d) = Clamp(h, Scaled(h, n, d, b))
<1>0. kNumBuckets \in Nat /\ kNumBuckets >= 26 /\ Buckets = 0 .. kNumBuckets - 1
  BY TableFacts DEF Buckets
<1>1. /\ h \in HistogramObject /\ h.num \in Nat /\ h.num >= 1
      /\ \A b \in Buckets : h.buckets[b] \in Nat
  BY DEF Filled, HistogramObject
<1> DEFINE sum == CountUpTo(h)
           hits == { b \in Buckets : d * sum[b] >= h.num * n }
<1>2. /\ sum[0] = h.buckets[0]
      /\ \A b \in Buckets \ {0} : sum[b] = h.buckets[b] + sum[b - 1]
      /\ \A b \in Buckets : sum[b] \in Nat
  BY <1>1, CountDef
<1>3. kNumBuckets - 1 \in hits
  <2>1. sum[kNumBuckets - 1] = h.num /\ kNumBuckets - 1 \in Buckets
    BY <1>0 DEF Filled
  <2>2. n * h.num <= d * h.num
    BY <1>1, Scaling
  <2>3. d * h.num >= h.num * n
    BY <1>1, <2>2
  <2> QED BY <2>1, <2>3
<1>4. hits \in SUBSET Nat
  BY <1>0
<1>5. PICK b : b = Min(hits)
  OBVIOUS
<1>6. b \in hits /\ \A x \in hits : b <= x
  <2> HIDE DEF hits
  <2> QED BY <1>3, <1>4, <1>5, MinOfSet
<1>7. /\ b \in Buckets /\ b \in Nat /\ d * sum[b] >= h.num * n
      /\ \A x \in Buckets : d * sum[x] >= h.num * n => b <= x
  BY <1>0, <1>6
<1> DEFINE c == h.buckets[b]
           l == sum[b] - c
<1>8. c \in Nat /\ sum[b] \in Nat /\ l \in Int /\ sum[b] = c + l
  BY <1>1, <1>2, <1>7
<1>9. l >= 0 /\ d * l <= h.num * n /\ ~ (d * l >= h.num * n)
  <2>1. CASE b = 0
    <3>1. l = 0
      BY <1>2, <1>8, <2>1
    <3>2. 1 * n <= h.num * n
      BY <1>1, Scaling
    <3>3. h.num * n \in Int /\ h.num * n >= 1 /\ d * 0 = 0
      BY <1>1, <3>2
    <3> HIDE DEF l
    <3> QED BY <3>1, <3>3
  <2>2. CASE b # 0
    <3>1. b \in Buckets \ {0} /\ b - 1 \in Buckets /\ ~ (b <= b - 1)
      BY <1>0, <1>7, <2>2
    <3>2. sum[b] = h.buckets[b] + sum[b - 1] /\ sum[b - 1] \in Nat
      BY <1>2, <3>1
    <3>3. l = sum[b - 1]
      BY <1>8, <3>2
    <3>4. ~ (d * sum[b - 1] >= h.num * n)
      BY <1>7, <3>1
    <3>5. d * sum[b - 1] \in Int /\ h.num * n \in Int
      BY <1>1, <3>2
    <3> HIDE DEF l, sum
    <3> QED BY <3>2, <3>3, <3>4, <3>5
  <2> QED BY <2>1, <2>2
<1>10. c >= 1
  <2> SUFFICES ASSUME c = 0 PROVE FALSE
    BY <1>8
  <2>1. sum[b] = l
    BY <1>8
  <2> HIDE DEF l, c, sum
  <2> QED BY <1>7, <1>9, <2>1
<1>11. Reached(h, n, d, b)
  <2>1. LeftSum(h, b) = l
    BY DEF LeftSum
  <2> HIDE DEF l
  <2> QED BY <1>7, <1>8, <1>9, <1>10, <2>1 DEF Reached
<1>12. Percentile(h, n, d) = Clamp(h, Scaled(h, n, d, b))
  <2>1. hits # {} /\ ~ (hits = {}) /\ h.buckets[b] # 0
    BY <1>3, <1>8, <1>10
  <2> QED BY <1>5, <2>1, Zenon DEF Percentile, Scaled, LeftSum, LeftPoint
<1> QED BY <1>7, <1>11, <1>12

(* The value lies between the limits of its bucket.                        *)
LEMMA ScaledWithin ==
  ASSUME NEW h, Filled(h), NEW n \in Nat, NEW d \in Nat, d >= 1, NEW b,
         Reached(h, n, d, b)
  PROVE  /\ Scaled(h, n, d, b) \in Doubles
         /\ LeftPoint(b) \in Int /\ kBucketLimit[b] \in Int
         /\ LeftPoint(b) <= kBucketLimit[b]
         /\ Leq(Num(LeftPoint(b), 1), Scaled(h, n, d, b))
         /\ Leq(Scaled(h, n, d, b), Num(kBucketLimit[b], 1))
<1>0. /\ b \in Buckets /\ b \in Nat /\ h.num \in Nat
      /\ CountUpTo(h)[b] \in Nat
      /\ 0 \in Buckets /\ (b # 0 => b - 1 \in Buckets)
  <2>1. b \in Buckets /\ h \in HistogramObject /\ h.num \in Nat
    BY DEF Reached, Filled, HistogramObject
  <2>2. CountUpTo(h)[b] \in Nat
    BY <2>1, CountDef
  <2> QED BY <2>1, <2>2, TableFacts DEF Buckets
<1>1. PICK L, R, c, T :
        /\ L = LeftPoint(b) /\ R = kBucketLimit[b] /\ c = h.buckets[b]
        /\ T = h.num * n - d * LeftSum(h, b)
  OBVIOUS
<1>2. L \in Int /\ R \in Int /\ L <= R
  <2>1. CASE b = 0
    <3>1. kBucketLimit[0] = (0 + 1) * Scale
      BY LowLimit
    <3>2. kBucketLimit[0] \in Int /\ 0 <= kBucketLimit[0]
      BY <3>1, TableFacts
    <3> QED BY <1>1, <2>1, <3>2 DEF LeftPoint
  <2>2. CASE b # 0
    <3>1. /\ kBucketLimit[b] \in Int /\ kBucketLimit[b - 1] \in Int
          /\ kBucketLimit[b - 1] < kBucketLimit[b]
      BY <1>0, <2>2, LimitsIncrease
    <3> QED BY <1>1, <2>2, <3>1 DEF LeftPoint
  <2> QED BY <2>1, <2>2
<1>3. c \in Nat /\ c >= 1
  BY <1>1 DEF Reached
<1>4. T \in Int /\ T >= 0 /\ T <= d * c
  <2>1. PICK l, S, N : l = LeftSum(h, b) /\ S = CountUpTo(h)[b] /\ N = h.num * n
    OBVIOUS
  <2>2. l \in Int /\ S \in Nat /\ N \in Int /\ l = S - c
    BY <1>0, <1>1, <1>3, <2>1 DEF LeftSum
  <2>3. d * S >= N /\ d * l <= N /\ T = N - d * l
    BY <1>1, <2>1 DEF Reached
  <2>4. d * l = d * S - d * c /\ d * S \in Int /\ d * c \in Int /\ d * l \in Int
    BY <1>3, <2>2
  <2> QED BY <2>2, <2>3, <2>4
<1>5. Scaled(h, n, d, b) = Num(L * d * c + (R - L) * T, d * c)
  BY <1>1 DEF Scaled
<1>6. PICK k, W : k = d * c /\ W = R - L
  OBVIOUS
<1>7. k \in Nat /\ k >= 1 /\ W \in Nat /\ L * d * c = L * k
  BY <1>2, <1>3, <1>6
<1>8. /\ L * k \in Int /\ W * T \in Int /\ W * T >= 0
      /\ W * T <= W * k /\ W * k = R * k - L * k /\ R * k \in Int
  <2>1. W * T \in Int /\ W * k \in Int /\ L * k \in Int /\ R * k \in Int
    BY <1>2, <1>4, <1>7
  <2>2. W * k = R * k - L * k
    BY <1>2, <1>6, <1>7
  <2>3. CASE W = 0
    BY <1>4, <1>7, <2>1, <2>2, <2>3
  <2>4. CASE W >= 1
    <3>1. 0 * W <= T * W /\ T * W <= k * W
      BY <1>4, <1>6, <1>7, <2>4, Scaling
    <3>2. T * W = W * T /\ k * W = W * k /\ 0 * W = 0
      BY <1>4, <1>7
    <3> QED BY <2>1, <2>2, <3>1, <3>2
  <2> QED BY <1>7, <2>3, <2>4
<1>9. Scaled(h, n, d, b) = Num(L * k + W * T, k)
  BY <1>5, <1>6, <1>7
<1>10. PICK r : r = L * k + W * T
  OBVIOUS
<1>11. r \in Int /\ L * k <= r /\ r <= R * k
  BY <1>8, <1>10
<1>12. Num(r, k) \in Doubles /\ Leq(Num(L, 1), Num(r, k)) /\ Leq(Num(r, k), Num(R, 1))
  BY <1>7, <1>8, <1>11 DEF Num, Doubles, Leq
<1> QED BY <1>1, <1>2, <1>9, <1>10, <1>12

(* In one bucket, a larger fraction gives a larger value.                  *)
LEMMA ScaledMonotone ==
  ASSUME NEW h, Filled(h), NEW b,
         NEW n1 \in Nat, NEW d1 \in Nat, d1 >= 1, Reached(h, n1, d1, b),
         NEW n2 \in Nat, NEW d2 \in Nat, d2 >= 1, Reached(h, n2, d2, b),
         n1 * d2 <= n2 * d1
  PROVE  Leq(Scaled(h, n1, d1, b), Scaled(h, n2, d2, b))
<1>1. PICK L, W, c, l, N :
        /\ L = LeftPoint(b) /\ W = kBucketLimit[b] - LeftPoint(b)
        /\ c = h.buckets[b] /\ l = LeftSum(h, b) /\ N = h.num
  OBVIOUS
<1>2. L \in Int /\ W \in Int /\ W >= 0
  <2>1. /\ LeftPoint(b) \in Int /\ kBucketLimit[b] \in Int
        /\ LeftPoint(b) <= kBucketLimit[b]
    BY ScaledWithin
  <2> QED BY <1>1, <2>1
<1>3. c \in Nat /\ l \in Int /\ N \in Nat
  <2>1. h \in HistogramObject /\ b \in Buckets /\ h.buckets[b] \in Nat
    BY DEF Filled, Reached
  <2>2. CountUpTo(h)[b] \in Nat /\ h.num \in Nat
    BY <2>1, CountDef DEF HistogramObject
  <2> QED BY <1>1, <2>1, <2>2 DEF LeftSum
<1>4. PICK k1, k2, T1, T2 :
        /\ k1 = d1 * c /\ k2 = d2 * c
        /\ T1 = N * n1 - d1 * l /\ T2 = N * n2 - d2 * l
  OBVIOUS
<1>5. /\ Scaled(h, n1, d1, b) = Num(L * d1 * c + W * T1, k1)
      /\ Scaled(h, n2, d2, b) = Num(L * d2 * c + W * T2, k2)
  BY <1>1, <1>4 DEF Scaled
<1>6. PICK e : e = n2 * d1 - n1 * d2
  OBVIOUS
<1>7. e \in Nat
  BY <1>6
<1>8. T2 * d1 - T1 * d2 = N * e
  BY <1>3, <1>4, <1>6
<1>9. PICK r1, r2 : r1 = L * d1 * c + W * T1 /\ r2 = L * d2 * c + W * T2
  OBVIOUS
<1>10. r2 * k1 - r1 * k2 = (W * c) * (N * e)
  <2>1. T1 \in Int /\ T2 \in Int
    BY <1>3, <1>4
  <2>2. r2 * k1 - r1 * k2 = (W * c) * (T2 * d1 - T1 * d2)
    <3>1. r2 * k1 = (L * d2 * c + W * T2) * (d1 * c)
      BY <1>4, <1>9
    <3>2. r1 * k2 = (L * d1 * c + W * T1) * (d2 * c)
      BY <1>4, <1>9
    <3>3. (L * d2 * c + W * T2) * (d1 * c) - (L * d1 * c + W * T1) * (d2 * c)
            = (W * c) * (T2 * d1 - T1 * d2)
      BY <1>2, <1>3, <2>1
    <3> QED BY <3>1, <3>2, <3>3
  <2> QED BY <1>8, <2>2
<1>11. ASSUME NEW x \in Nat, NEW y \in Nat PROVE x * y \in Nat
  OBVIOUS
<1>12. (W * c) * (N * e) \in Nat
  <2>1. W \in Nat
    BY <1>2
  <2>2. W * c \in Nat /\ N * e \in Nat
    BY <1>3, <1>7, <1>11, <2>1
  <2> QED BY <1>11, <2>2
<1>13. r1 \in Int /\ r2 \in Int /\ k1 \in Int /\ k2 \in Int
  BY <1>2, <1>3, <1>4, <1>9
<1>14. r1 * k2 \in Int /\ r2 * k1 \in Int
  BY <1>13
<1>15. r1 * k2 <= r2 * k1
  BY <1>10, <1>12, <1>14
<1> QED BY <1>5, <1>9, <1>15 DEF Num, Leq

(* A larger percentile is at least as large a number.                      *)
LEMMA PercentileMonotone ==
  ASSUME NEW h, Filled(h),
         NEW n1 \in Nat, NEW d1 \in Nat, n1 >= 1, n1 <= d1,
         NEW n2 \in Nat, NEW d2 \in Nat, n2 >= 1, n2 <= d2,
         n1 * d2 <= n2 * d1
  PROVE  Leq(Percentile(h, n1, d1), Percentile(h, n2, d2))
<1>0. d1 >= 1 /\ d2 >= 1 /\ h \in HistogramObject /\ h.min <= h.max
  BY DEF Filled
<1>1. PICK b \in Buckets : /\ Reached(h, n1, d1, b)
                           /\ Percentile(h, n1, d1) = Clamp(h, Scaled(h, n1, d1, b))
  BY PercentileReached
<1>2. PICK c \in Buckets : /\ Reached(h, n2, d2, c)
                           /\ Percentile(h, n2, d2) = Clamp(h, Scaled(h, n2, d2, c))
  BY PercentileReached
<1>3. /\ Scaled(h, n1, d1, b) \in Doubles /\ kBucketLimit[b] \in Int
      /\ Leq(Scaled(h, n1, d1, b), Num(kBucketLimit[b], 1))
  BY <1>0, <1>1, ScaledWithin
<1>4. /\ Scaled(h, n2, d2, c) \in Doubles /\ LeftPoint(c) \in Int
      /\ Leq(Num(LeftPoint(c), 1), Scaled(h, n2, d2, c))
  BY <1>0, <1>2, ScaledWithin
<1>5. b <= c
  <2>1. PICK S, N : S = CountUpTo(h)[c] /\ N = h.num
    OBVIOUS
  <2>2. S \in Nat /\ N \in Nat
    BY <1>0, <2>1, CountDef DEF HistogramObject
  <2>3. d2 * S >= N * n2
    BY <1>2, <2>1 DEF Reached
  <2>4. (N * n2) * d1 <= (d2 * S) * d1
    <3>1. \A i, j \in Int, k \in Nat : k >= 1 /\ i <= j => i * k <= j * k
      BY Scaling
    <3>2. N * n2 \in Int /\ d2 * S \in Int /\ N * n2 <= d2 * S
      BY <2>2, <2>3
    <3> QED BY <1>0, <3>1, <3>2, Zenon
  <2>5. N * (n1 * d2) <= N * (n2 * d1)
    <3>1. PICK x, y : x = n1 * d2 /\ y = n2 * d1
      OBVIOUS
    <3>2. x \in Int /\ y \in Int /\ x <= y
      BY <3>1
    <3>3. CASE N = 0
      BY <3>1, <3>2, <3>3
    <3>4. CASE N >= 1
      <4>1. x * N <= y * N
        BY <2>2, <3>2, <3>4, Scaling
      <4>2. x * N = N * x /\ y * N = N * y
        BY <2>2, <3>2
      <4> QED BY <3>1, <4>1, <4>2
    <3> QED BY <2>2, <3>3, <3>4
  <2>6. (N * n1) * d2 <= (d1 * S) * d2
    <3>1. /\ N * (n1 * d2) = (N * n1) * d2 /\ N * (n2 * d1) = (N * n2) * d1
          /\ (d2 * S) * d1 = (d1 * S) * d2
      BY <2>2
    <3>2. (N * n1) * d2 \in Int /\ (N * n2) * d1 \in Int /\ (d1 * S) * d2 \in Int
      BY <2>2
    <3> QED BY <2>4, <2>5, <3>1, <3>2
  <2>7. N * n1 <= d1 * S
    <3>1. PICK x, y : x = N * n1 /\ y = d1 * S
      OBVIOUS
    <3>2. x \in Int /\ y \in Int
      BY <2>2, <3>1
    <3> QED BY <1>0, <2>6, <3>1, <3>2, Cancel
  <2>8. d1 * CountUpTo(h)[c] >= h.num * n1
    BY <2>1, <2>2, <2>7
  <2> QED BY <1>1, <2>8 DEF Reached
<1>6. Leq(Scaled(h, n1, d1, b), Scaled(h, n2, d2, c))
  <2>1. CASE b = c
    BY <1>0, <1>1, <1>2, <2>1, ScaledMonotone
  <2>2. CASE b # c
    <3>1. b \in Nat /\ c \in Nat /\ c # 0 /\ c - 1 \in Buckets /\ b <= c - 1
      BY <1>5, <2>2, TableFacts DEF Buckets
    <3>2. kBucketLimit[b] <= LeftPoint(c)
      <4>1. LeftPoint(c) = kBucketLimit[c - 1]
        BY <3>1 DEF LeftPoint
      <4>2. CASE b = c - 1
        BY <1>3, <4>1, <4>2
      <4>3. CASE b < c - 1
        BY <1>3, <1>4, <3>1, <4>1, <4>3, LimitsIncrease
      <4> QED BY <3>1, <4>2, <4>3
    <3>3. /\ Num(kBucketLimit[b], 1) \in Doubles /\ Num(LeftPoint(c), 1) \in Doubles
          /\ Leq(Num(kBucketLimit[b], 1), Num(LeftPoint(c), 1))
      BY <1>3, <1>4, <3>2 DEF Num, Doubles, Leq
    <3>4. Leq(Scaled(h, n1, d1, b), Num(LeftPoint(c), 1))
      BY <1>3, <3>3, LeqTransitive
    <3> QED BY <1>3, <1>4, <3>3, <3>4, LeqTransitive
  <2> QED BY <2>1, <2>2
<1> QED BY <1>0, <1>1, <1>2, <1>3, <1>4, <1>6, ClampOrder

(* Every percentile is between the minimum and the maximum.                *)
LEMMA PercentileBounds ==
  ASSUME NEW h, Filled(h), NEW n \in Nat, NEW d \in Nat, n >= 1, n <= d
  PROVE  /\ Leq(Num(h.min, 1), Percentile(h, n, d))
         /\ Leq(Percentile(h, n, d), Num(h.max, 1))
<1>1. PICK b \in Buckets : /\ Reached(h, n, d, b)
                           /\ Percentile(h, n, d) = Clamp(h, Scaled(h, n, d, b))
  BY PercentileReached
<1>2. Scaled(h, n, d, b) \in Doubles
  BY <1>1, ScaledWithin
<1> QED BY <1>1, <1>2, ClampOrder DEF Filled

-----------------------------------------------------------------------------
(* The specification *)

Inv == TypeOK /\ MergedIsHistogramOfAll

(* New histograms are those of empty lists.                                *)
LEMMA FreshState ==
  /\ [i \in Indices |-> Clear] \in [Indices -> HistogramObject]
  /\ [i \in Indices |-> << >>] \in [Indices -> Seq(Values)]
  /\ 0 \in Indices /\ Clear = HistogramOf(<< >>)
<1>1. << >> \in Seq(Int) /\ << >> \in Seq(Values)
  BY EmptySeq
<1>2. Clear = HistogramOf(<< >>) /\ Clear \in HistogramObject
  BY <1>1, HistogramOfType
<1>3. 0 \in Indices
  BY HistogramAssumption DEF Indices
<1> QED BY <1>1, <1>2, <1>3

(* The first list alone, while nothing is merged.                          *)
LEMMA NothingMergedYet ==
  ASSUME added \in [Indices -> Seq(Values)], merged = 0 \/ merged = 1
  PROVE  MergedValues = added[0]
<1>1. Joined(added)[0] = added[0]
  BY JoinedDef
<1> QED BY <1>1 DEF MergedValues

(***************************************************************************)
(* Recording, joining, merging and starting the next phase keep every      *)
(* histogram the histogram of its latencies.  A recorded latency is added  *)
(* as AddFastExtends says, a merged histogram as MergeOfLists says.        *)
(***************************************************************************)
THEOREM Invariance == Spec => []Inv
<1> USE DEF Inv
<1>1. Init => Inv
  <2> SUFFICES ASSUME Init PROVE Inv
    OBVIOUS
  <2>1. TypeOK
    <3>1. \A i \in Indices : Len(added[i]) <= MaxAdds
      BY HistogramAssumption, EmptySeq DEF Init
    <3> QED BY <3>1, FreshState, HistogramAssumption DEF Init, TypeOK
  <2>2. MergedValues = << >>
    <3>1. added[0] = << >> /\ merged = 0
      BY FreshState DEF Init
    <3> QED BY <2>1, <3>1, NothingMergedYet DEF TypeOK
  <2>3. MergedIsHistogramOfAll
    BY <2>2, FreshState DEF Init, MergedIsHistogramOfAll
  <2> QED BY <2>1, <2>3
<1>2. Inv /\ [Next]_vars => Inv'
  <2> SUFFICES ASSUME Inv, [Next]_vars PROVE Inv'
    OBVIOUS
  <2>0. /\ merged \in 0 .. NumHistograms /\ histograms \in [Indices -> HistogramObject]
        /\ added \in [Indices -> Seq(Values)]
        /\ \A i \in Indices : Len(added[i]) <= MaxAdds
        /\ NumHistograms \in Nat /\ NumHistograms >= 1 /\ MaxAdds \in Nat
        /\ Indices = 0 .. NumHistograms - 1 /\ 0 \in Indices
        /\ Values \subseteq Int
    BY HistogramAssumption, FreshState DEF TypeOK, Indices
  <2>1. ASSUME NEW i \in Indices, NEW v \in Values, Record(i, v)
        PROVE  Inv'
    <3>1. /\ merged = 0 /\ merged' = 0 /\ Len(added[i]) < MaxAdds
          /\ histograms' = [histograms EXCEPT ![i] = AddFast(histograms[i], v)]
          /\ added' = [added EXCEPT ![i] = Append(added[i], v)]
      BY <2>1 DEF Record
    <3>2. /\ AddFast(histograms[i], v) \in HistogramObject
          /\ Append(added[i], v) \in Seq(Values)
          /\ Len(Append(added[i], v)) = Len(added[i]) + 1
          /\ Len(added[i]) \in Nat
      BY <2>0, AddFastType, AppendProperties, LenProperties
    <3>3. TypeOK'
      <4>1. added' \in [Indices -> Seq(Values)]
        BY <2>0, <3>1, <3>2
      <4>2. histograms' \in [Indices -> HistogramObject]
        BY <2>0, <3>1, <3>2
      <4>3. \A j \in Indices : Len(added'[j]) <= MaxAdds
        BY <2>0, <3>1, <3>2
      <4> QED BY <2>0, <3>1, <4>1, <4>2, <4>3 DEF TypeOK
    <3>4. \A j \in Indices : histograms[j] = HistogramOf(added[j])
      BY <2>0, <3>1, NothingMergedYet DEF MergedIsHistogramOfAll
    <3>5. HistogramOf(Append(added[i], v)) = AddFast(HistogramOf(added[i]), v)
      <4>1. added[i] \in Seq(Int)
        BY <2>0, SeqMonotonic
      <4> QED BY <4>1, AddFastExtends
    <3>6. \A j \in Indices : histograms'[j] = HistogramOf(added'[j])
      BY <2>0, <3>1, <3>4, <3>5
    <3>7. MergedValues' = added'[0]
      <4>1. added' \in [Indices -> Seq(Values)]
        BY <3>3 DEF TypeOK
      <4>2. Joined(added')[0] = added'[0]
        BY <4>1, JoinedDef
      <4> QED BY <3>1, <4>2 DEF MergedValues
    <3> QED BY <2>0, <3>3, <3>6, <3>7 DEF MergedIsHistogramOfAll
  <2>2. CASE JoinAll
    <3>1. merged = 0 /\ merged' = 1 /\ histograms' = histograms /\ added' = added
      BY <2>2 DEF JoinAll
    <3>2. TypeOK'
      BY <2>0, <3>1 DEF TypeOK
    <3>3. MergedValues' = MergedValues
      BY <3>1 DEF MergedValues
    <3> QED BY <3>1, <3>2, <3>3 DEF MergedIsHistogramOfAll
  <2>3. CASE MergeNext
    <3>1. /\ merged \in 1 .. NumHistograms - 1 /\ merged' = merged + 1
          /\ histograms' = [histograms EXCEPT
                              ![0] = Merge(histograms[0], histograms[merged])]
          /\ added' = added
      BY <2>3 DEF MergeNext
    <3>2. merged \in Indices \ {0} /\ merged - 1 \in Indices
      BY <2>0, <3>1
    <3>3. TypeOK'
      <4>1. Merge(histograms[0], histograms[merged]) \in HistogramObject
        BY <2>0, <3>2, MergeType
      <4>2. histograms' \in [Indices -> HistogramObject]
        BY <2>0, <3>1, <4>1
      <4>3. merged' \in 0 .. NumHistograms
        BY <2>0, <3>1
      <4> QED BY <2>0, <3>1, <4>2, <4>3 DEF TypeOK
    <3>4. /\ Joined(added)[merged] = Joined(added)[merged - 1] \o added[merged]
          /\ Joined(added)[merged - 1] \in Seq(Values)
      BY <2>0, <3>2, JoinedDef
    <3>5. MergedValues = Joined(added)[merged - 1] /\ MergedValues' = Joined(added)[merged]
      <4>1. merged # 0 /\ merged' # 0 /\ merged' - 1 = merged
        BY <2>0, <3>1
      <4> QED BY <3>1, <4>1 DEF MergedValues
    <3>6. /\ histograms[0] = HistogramOf(MergedValues)
          /\ histograms[merged] = HistogramOf(added[merged])
      BY <3>2 DEF MergedIsHistogramOfAll
    <3>7. HistogramOf(Joined(added)[merged])
            = Merge(histograms[0], histograms[merged])
      BY <2>0, <3>2, <3>4, <3>5, <3>6, MergeOfLists
    <3>8. histograms'[0] = HistogramOf(MergedValues')
      BY <2>0, <3>1, <3>5, <3>7
    <3>9. \A j \in Indices \ {0} : histograms'[j] = HistogramOf(added'[j])
      BY <2>0, <3>1 DEF MergedIsHistogramOfAll
    <3> QED BY <3>3, <3>8, <3>9 DEF MergedIsHistogramOfAll
  <2>4. CASE NextPhase
    <3>1. /\ merged' = 0 /\ histograms' = [i \in Indices |-> Clear]
          /\ added' = [i \in Indices |-> << >>]
      BY <2>4 DEF NextPhase
    <3>2. TypeOK'
      <4>1. \A i \in Indices : Len(added'[i]) <= MaxAdds
        BY <2>0, <3>1, EmptySeq
      <4> QED BY <2>0, <3>1, <4>1, FreshState DEF TypeOK
    <3>3. MergedValues' = << >>
      <4>1. added' \in [Indices -> Seq(Values)] /\ added'[0] = << >>
        BY <2>0, <3>1, FreshState
      <4>2. Joined(added')[0] = added'[0]
        BY <4>1, JoinedDef
      <4> QED BY <3>1, <4>1, <4>2 DEF MergedValues
    <3> QED BY <2>0, <3>1, <3>2, <3>3, FreshState DEF MergedIsHistogramOfAll
  <2>5. CASE UNCHANGED vars
    <3>1. TypeOK' /\ MergedValues' = MergedValues
      BY <2>0, <2>5 DEF vars, TypeOK, MergedValues
    <3> QED BY <2>5, <3>1 DEF vars, MergedIsHistogramOfAll
  <2> QED BY <2>1, <2>2, <2>3, <2>4, <2>5 DEF Next
<1> QED BY <1>1, <1>2, PTL DEF Spec

(* Every histogram holds numbers of its kind, in every phase.              *)
THEOREM TypeCorrect == Spec => []TypeOK
BY Invariance, PTL DEF Inv

(***************************************************************************)
(* Merging loses and invents nothing: however the workers' latencies are   *)
(* ordered, histograms[0] is the histogram of those merged so far, for     *)
(* any number of workers, decades and latencies.                           *)
(***************************************************************************)
THEOREM MergingIsExact == Spec => []MergedIsHistogramOfAll
BY Invariance, PTL DEF Inv

(* The latencies merged so far are a list.                                 *)
LEMMA MergedIsList ==
  ASSUME TypeOK
  PROVE  MergedValues \in Seq(Values)
<1>1. added \in [Indices -> Seq(Values)] /\ merged \in 0 .. NumHistograms
      /\ NumHistograms \in Nat /\ NumHistograms >= 1
  BY HistogramAssumption DEF TypeOK
<1>2. (IF merged = 0 THEN 0 ELSE merged - 1) \in Indices
  BY <1>1 DEF Indices
<1> QED BY <1>1, <1>2, JoinedDef DEF MergedValues

(***************************************************************************)
(* The line "Min Median Max P95 P99 P99.9" holds numbers, in order, for    *)
(* every merged histogram with at least one operation: the buckets count   *)
(* num_ operations, so the threshold is reached in a bucket that is not    *)
(* empty; a larger percentile is found in the same bucket or a later one,  *)
(* and clamping keeps the order.                                           *)
(***************************************************************************)
THEOREM ReportIsOrdered == Spec => []PercentilesAreOrdered
<1>1. Inv => PercentilesAreOrdered
  <2> SUFFICES ASSUME Inv, histograms[0].num > 0
               PROVE  LET h == histograms[0]
                      IN  /\ Leq(Num(h.min, 1), Percentile(h, 1, 2))
                          /\ Leq(Percentile(h, 1, 2), Percentile(h, 19, 20))
                          /\ Leq(Percentile(h, 19, 20), Percentile(h, 99, 100))
                          /\ Leq(Percentile(h, 99, 100), Percentile(h, 999, 1000))
                          /\ Leq(Percentile(h, 999, 1000), Num(h.max, 1))
    BY DEF PercentilesAreOrdered
  <2> DEFINE h == histograms[0]
  <2>1. MergedValues \in Seq(Values) /\ h = HistogramOf(MergedValues)
    BY MergedIsList DEF Inv, MergedIsHistogramOfAll
  <2>2. h.num = Len(MergedValues)
    BY <2>1, HistogramOfFields
  <2> HIDE DEF h
  <2>3. Len(MergedValues) \in Nat /\ h.num >= 1
    BY <2>1, <2>2, LenProperties DEF h
  <2>4. h \in HistogramObject
    <3>1. MergedValues \in Seq(Int)
      BY <2>1, HistogramAssumption, SeqMonotonic
    <3> QED BY <2>1, <3>1, HistogramOfType
  <2>5. Filled(h)
    BY <2>1, <2>2, <2>3, <2>4, CountOfList DEF Filled
  <2>6. /\ Leq(Num(h.min, 1), Percentile(h, 1, 2))
        /\ Leq(Percentile(h, 999, 1000), Num(h.max, 1))
    BY <2>5, PercentileBounds
  <2>7. /\ Leq(Percentile(h, 1, 2), Percentile(h, 19, 20))
        /\ Leq(Percentile(h, 19, 20), Percentile(h, 99, 100))
        /\ Leq(Percentile(h, 99, 100), Percentile(h, 999, 1000))
    BY <2>5, PercentileMonotone
  <2> QED BY <2>6, <2>7 DEF h
<1> QED BY <1>1, Invariance, PTL
=============================================================================
