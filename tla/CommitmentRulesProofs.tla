------------------------ MODULE CommitmentRulesProofs ------------------------
(***************************************************************************)
(* Lemmas about the share commitment rules, for every blob size up to      *)
(* LargestPowerOfTwo shares and every subtree root threshold.              *)
(***************************************************************************)
EXTENDS CommitmentRules, WellFoundedInduction, Arithmetic

\* A nonempty set of naturals has a least member.
LEMMA LeastNatural ==
  ASSUME NEW S \in SUBSET Nat, S # {}
  PROVE  \E x \in S : \A y \in S : x <= y
<1> DEFINE Less == {ss \in Nat \X Nat : ss[1] < ss[2]}
<1>1. IsWellFoundedOn(Less, Nat)
  BY NatLessThanWellFounded DEF OpToRel
<1>2. PICK x \in S : \A y \in S : ~(<<y, x>> \in Less)
  <2> HIDE DEF Less
  <2> QED
    BY <1>1, WFMin
<1>3. \A y \in S : x <= y
  <2> TAKE y \in S
  <2>1. x \in Nat /\ y \in Nat /\ ~(<<y, x>> \in Less)
    BY <1>2
  <2>2. y < x => <<y, x>> \in Less
    BY <2>1
  <2> HIDE DEF Less
  <2> QED
    BY <2>1, <2>2
<1> QED
  BY <1>3

\* RoundUpPowerOfTwo returns the least power of two that reaches its input.
LEMMA RoundUpPowerOfTwoCorrect ==
  ASSUME NEW n \in Nat, n <= LargestPowerOfTwo
  PROVE  /\ RoundUpPowerOfTwo(n) \in PowersOfTwo
         /\ RoundUpPowerOfTwo(n) >= n
         /\ \A q \in PowersOfTwo : q >= n => RoundUpPowerOfTwo(n) <= q
<1> DEFINE S == {p \in PowersOfTwo : p >= n}
<1>1. S \in SUBSET Nat
  BY DEF PowersOfTwo, LargestPowerOfTwo
<1>2. LargestPowerOfTwo \in S
  BY DEF PowersOfTwo
<1>3. PICK p \in S : \A q \in S : p <= q
  BY <1>1, <1>2, LeastNatural
<1>4. p \in PowersOfTwo /\ p >= n /\ \A q \in PowersOfTwo : q >= n => p <= q
  BY <1>3
<1> QED
  BY <1>4 DEF RoundUpPowerOfTwo

\* A power of two is a positive natural.
LEMMA PowersPositive == PowersOfTwo \subseteq Nat \ {0}
BY DEF PowersOfTwo, LargestPowerOfTwo

\* CeilSqrt returns the least number whose square reaches n.
LEMMA CeilSqrtCorrect ==
  ASSUME NEW n \in Nat
  PROVE  /\ CeilSqrt(n) \in 0..n
         /\ CeilSqrt(n) * CeilSqrt(n) >= n
         /\ \A j \in 0..n : j * j >= n => CeilSqrt(n) <= j
<1> DEFINE S == {k \in 0..n : k * k >= n}
<1>1. S \in SUBSET Nat
  OBVIOUS
<1>2. n \in S
  OBVIOUS
<1>3. PICK k \in S : \A j \in S : k <= j
  BY <1>1, <1>2, LeastNatural
<1>4. k \in 0..n /\ k * k >= n /\ \A j \in 0..n : j * j >= n => k <= j
  BY <1>3
<1> QED
  BY <1>4 DEF CeilSqrt

\* The square BlobMinSquareSize asks for is large enough, and no larger than
\* any power of two that is large enough.
LEMMA BlobMinSquareSizeCorrect ==
  ASSUME NEW n \in Nat, NEW m \in PowersOfTwo, n <= m * m
  PROVE  /\ BlobMinSquareSize(n) \in PowersOfTwo
         /\ n <= BlobMinSquareSize(n) * BlobMinSquareSize(n)
         /\ BlobMinSquareSize(n) <= m
<1> DEFINE r == CeilSqrt(n)
           b == RoundUpPowerOfTwo(r)
<1>1. m \in Nat \ {0} /\ m <= LargestPowerOfTwo
  BY DEF PowersOfTwo, LargestPowerOfTwo
<1>2. /\ r \in 0..n /\ r * r >= n
      /\ \A j \in 0..n : j * j >= n => r <= j
  BY CeilSqrtCorrect
<1> HIDE DEF r
<1>3. r <= m
  <2>1. CASE m <= n
    BY <1>1, <1>2, <2>1
  <2>2. CASE n < m
    BY <1>1, <1>2, <2>2
  <2> QED
    BY <1>1, <2>1, <2>2
<1>4. r \in Nat /\ r <= LargestPowerOfTwo
  BY <1>1, <1>2, <1>3 DEF LargestPowerOfTwo
<1>5. b \in PowersOfTwo /\ b >= r /\ \A q \in PowersOfTwo : q >= r => b <= q
  BY <1>4, RoundUpPowerOfTwoCorrect
<1> HIDE DEF b
<1>6. b <= m
  BY <1>1, <1>3, <1>4, <1>5
<1>7. b \in Nat
  BY <1>5, PowersPositive
<1>8. r * r <= b * b
  BY <1>4, <1>5, <1>7
<1>9. n <= b * b
  BY <1>2, <1>4, <1>7, <1>8
<1> QED
  BY <1>5, <1>6, <1>9 DEF BlobMinSquareSize, b, r

\* The width of a blob's subtrees is a power of two.
LEMMA SubTreeWidthType ==
  ASSUME NEW n \in Nat, n <= LargestPowerOfTwo, NEW t \in Nat \ {0}
  PROVE  SubTreeWidth(n, t) \in PowersOfTwo
<1> DEFINE s == n \div t + (IF n % t # 0 THEN 1 ELSE 0)
<1>1. n \div t \in Nat /\ n % t \in 0..(t - 1) /\ n = (n \div t) * t + (n % t)
  BY DivMod
<1>2. n \div t <= (n \div t) * t
  BY <1>1
<1>3. s \in Nat /\ s <= n
  BY <1>1, <1>2
<1>4. RoundUpPowerOfTwo(s) \in PowersOfTwo
  BY <1>3, RoundUpPowerOfTwoCorrect DEF LargestPowerOfTwo
<1>5. BlobMinSquareSize(n) \in PowersOfTwo
  <2>1. CeilSqrt(n) \in Nat /\ CeilSqrt(n) <= LargestPowerOfTwo
    BY CeilSqrtCorrect DEF LargestPowerOfTwo
  <2> QED
    BY <2>1, RoundUpPowerOfTwoCorrect DEF BlobMinSquareSize
<1> QED
  BY <1>4, <1>5 DEF SubTreeWidth

\* RoundUpByMultipleOf never moves back, and moves forward by less than v.
LEMMA RoundUpByMultipleOfCorrect ==
  ASSUME NEW c \in Nat, NEW v \in Nat \ {0}
  PROVE  /\ RoundUpByMultipleOf(c, v) \in Nat
         /\ c <= RoundUpByMultipleOf(c, v)
         /\ RoundUpByMultipleOf(c, v) <= c + (v - 1)
<1>1. c \div v \in Nat /\ c % v \in 0..(v - 1) /\ c = (c \div v) * v + (c % v)
  BY DivMod
<1> DEFINE d == c \div v
           m == c % v
<1>2. (d + 1) * v = d * v + v /\ d * v \in Nat
  BY <1>1
<1> HIDE DEF d, m
<1>3. d \in Nat /\ m \in 0..(v - 1) /\ c = d * v + m
  BY <1>1 DEF d, m
<1>4. CASE m = 0
  <2>1. RoundUpByMultipleOf(c, v) = c
    BY <1>4 DEF RoundUpByMultipleOf, m
  <2> QED
    BY <2>1
<1>5. CASE m # 0
  <2>1. RoundUpByMultipleOf(c, v) = (d + 1) * v
    BY <1>5 DEF RoundUpByMultipleOf, m, d
  <2> QED
    BY <1>2, <1>3, <1>5, <2>1
<1> QED
  BY <1>4, <1>5
==============================================================================
