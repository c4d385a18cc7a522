----------------------------- MODULE Arithmetic -----------------------------
(***************************************************************************)
(* Facts about division, and about the sums of sequences of naturals.  A   *)
(* sum is stated by the function of its prefix sums, so that a loop that   *)
(* adds up a sequence can be related to the total without induction over   *)
(* the sequence.                                                           *)
(***************************************************************************)
EXTENDS Integers, Sequences, TLAPS

\* Integer division splits a number into whole multiples and a remainder.
LEMMA DivMod ==
  ASSUME NEW a \in Nat, NEW b \in Nat \ {0}
  PROVE  /\ a \div b \in Nat
         /\ a % b \in 0..(b - 1)
         /\ a = (a \div b) * b + (a % b)
BY Z3T(30)

\* The quotient is determined by the bounds it satisfies.
LEMMA DivUnique ==
  ASSUME NEW a \in Nat, NEW b \in Nat \ {0}, NEW q \in Nat, NEW r \in 0..(b - 1),
         a = q * b + r
  PROVE  a \div b = q
<1>1. a \div b \in Nat /\ a % b \in 0..(b - 1) /\ a = (a \div b) * b + (a % b)
  BY DivMod
<1> DEFINE d == a \div b
<1>2. ASSUME d < q PROVE FALSE
  <2>1. (d + 1) * b <= q * b
    BY <1>1, <1>2
  <2> QED
    BY <1>1, <2>1
<1>3. ASSUME q < d PROVE FALSE
  <2>1. (q + 1) * b <= d * b
    BY <1>1, <1>3
  <2> QED
    BY <1>1, <2>1
<1> QED
  BY <1>1, <1>2, <1>3

\* A number below the modulus is its own remainder.
LEMMA SmallMod ==
  ASSUME NEW a \in Nat, NEW b \in Nat \ {0}, a < b
  PROVE  a % b = a
<1>1. a = 0 * b + a /\ a \in 0..(b - 1)
  OBVIOUS
<1>2. a \div b = 0
  BY <1>1, DivUnique
<1>3. a = (a \div b) * b + (a % b) /\ a % b \in 0..(b - 1)
  BY DivMod
<1> QED
  BY <1>2, <1>3

\* Division is monotone.
LEMMA DivMonotone ==
  ASSUME NEW a \in Nat, NEW b \in Nat, a <= b, NEW c \in Nat \ {0}
  PROVE  a \div c <= b \div c
<1>1. a \div c \in Nat /\ a % c \in 0..(c - 1) /\ a = (a \div c) * c + (a % c)
  BY DivMod
<1>2. b \div c \in Nat /\ b % c \in 0..(c - 1) /\ b = (b \div c) * c + (b % c)
  BY DivMod
<1> DEFINE d == a \div c
           e == b \div c
<1>3. ASSUME e < d PROVE FALSE
  <2>1. (e + 1) * c <= d * c
    BY <1>1, <1>2, <1>3
  <2> QED
    BY <1>1, <1>2, <2>1
<1> QED
  BY <1>1, <1>2, <1>3

\* A function on 1..n is a sequence of length n.
LEMMA SeqOfFunction ==
  ASSUME NEW n \in Nat, NEW S, NEW f \in [1..n -> S]
  PROVE  f \in Seq(S) /\ Len(f) = n
OBVIOUS

\* Replacing a member of a sequence keeps its type and length.
LEMMA SeqExcept ==
  ASSUME NEW S, NEW s \in Seq(S), NEW k, NEW x \in S
  PROVE  [s EXCEPT ![k] = x] \in Seq(S) /\ Len([s EXCEPT ![k] = x]) = Len(s)
<1> DEFINE n == Len(s)
           t == [s EXCEPT ![k] = x]
<1>1. n \in Nat /\ \A i \in 1..n : s[i] \in S
  OBVIOUS
<1>2. t = [i \in 1..n |-> IF i = k THEN x ELSE s[i]]
  OBVIOUS
<1> HIDE DEF n, t
<1>3. t \in [1..n -> S]
  BY <1>1, <1>2
<1>4. t \in Seq(S) /\ Len(t) = n
  BY <1>1, <1>3, SeqOfFunction
<1> QED
  BY <1>4 DEF n, t

------------------------------------------------------------------------------
IsPrefixSum(w, p) ==
  /\ p \in [0..Len(w) -> Nat]
  /\ p[0] = 0
  /\ \A i \in 1..Len(w) : p[i] = p[i - 1] + w[i]
  /\ \A i, j \in 0..Len(w) : i <= j => p[i] <= p[j]

\* The first k members of w add up to part, and all of them to total.
PartialSum(w, k, part, total) ==
  \E p : IsPrefixSum(w, p) /\ p[k] = part /\ p[Len(w)] = total

HasSum(w, total) == PartialSum(w, 0, 0, total)

\* What a function of prefix sums is, on the indexes 0..n.
LEMMA PrefixFacts ==
  ASSUME NEW w \in Seq(Nat), NEW p, IsPrefixSum(w, p), NEW n, n = Len(w)
  PROVE  /\ n \in Nat
         /\ p[0] = 0
         /\ \A i \in 0..n : p[i] \in Nat
         /\ \A i \in 0..n : p[i] <= p[n]
         /\ \A i \in 1..n : w[i] \in Nat /\ p[i] = p[i - 1] + w[i]
         /\ \A i, j \in 0..n : i <= j => p[i] <= p[j]
<1>1. n \in Nat /\ n \in 0..n /\ \A i \in 1..n : w[i] \in Nat
  OBVIOUS
<1>2. /\ p \in [0..n -> Nat] /\ p[0] = 0
      /\ \A i \in 1..n : p[i] = p[i - 1] + w[i]
      /\ \A i, j \in 0..n : i <= j => p[i] <= p[j]
  BY DEF IsPrefixSum
<1>3. \A i \in 0..n : p[i] \in Nat /\ p[i] <= p[n]
  <2> TAKE i \in 0..n
  <2>1. i <= n /\ i \in 0..n
    BY <1>1
  <2> QED
    BY SMTT(30), <1>1, <1>2, <2>1
<1> QED
  BY <1>1, <1>2, <1>3

\* A sum of naturals is a natural.
LEMMA SumType ==
  ASSUME NEW w \in Seq(Nat), NEW total, HasSum(w, total)
  PROVE  total \in Nat
BY DEF HasSum, PartialSum, IsPrefixSum

\* The empty sequence adds up to 0.
LEMMA SumEmpty == HasSum(<<>>, 0)
<1>1. IsPrefixSum(<<>>, [i \in 0..0 |-> 0])
  BY DEF IsPrefixSum
<1> QED
  BY <1>1 DEF HasSum, PartialSum

\* A partial sum is at most the total, is the total at the end, and grows by
\* the next member before that.
LEMMA SumStep ==
  ASSUME NEW w \in Seq(Nat), NEW k \in 0..Len(w), NEW part, NEW total,
         PartialSum(w, k, part, total)
  PROVE  /\ part \in Nat /\ total \in Nat /\ part <= total
         /\ k = Len(w) => part = total
         /\ k < Len(w) => PartialSum(w, k + 1, part + w[k + 1], total)
<1> PICK p : IsPrefixSum(w, p) /\ p[k] = part /\ p[Len(w)] = total
  BY DEF PartialSum
<1>1. part \in Nat /\ total \in Nat /\ part <= total
  BY DEF IsPrefixSum
<1>2. ASSUME k < Len(w) PROVE PartialSum(w, k + 1, part + w[k + 1], total)
  <2>1. k + 1 \in 1..Len(w) /\ (k + 1) - 1 = k
    BY <1>2
  <2>2. p[k + 1] = part + w[k + 1]
    BY <2>1 DEF IsPrefixSum
  <2> QED
    BY <2>2 DEF PartialSum
<1> QED
  BY <1>1, <1>2

\* One more member adds itself to the sum.
LEMMA SumAppend ==
  ASSUME NEW w \in Seq(Nat), NEW total, HasSum(w, total), NEW x \in Nat
  PROVE  HasSum(Append(w, x), total + x)
<1> PICK p : IsPrefixSum(w, p) /\ p[0] = 0 /\ p[Len(w)] = total
  BY DEF HasSum, PartialSum
<1> DEFINE n == Len(w)
           v == Append(w, x)
           q == [i \in 0..(n + 1) |-> IF i = n + 1 THEN total + x ELSE p[i]]
<1>1. n \in Nat /\ Len(v) = n + 1 /\ v[n + 1] = x /\ \A i \in 1..n : v[i] = w[i]
  OBVIOUS
<1> HIDE DEF v, n
<1>2. total \in Nat /\ \A i \in 0..n : p[i] \in Nat /\ p[i] <= total
  BY PrefixFacts DEF n
<1>3. q \in [0..Len(v) -> Nat] /\ q[0] = 0 /\ q[Len(v)] = total + x
  BY <1>1, <1>2 DEF IsPrefixSum
<1>4. \A i \in 1..Len(v) : q[i] = q[i - 1] + v[i]
  <2> TAKE i \in 1..Len(v)
  <2>1. CASE i = n + 1
    BY <1>1, <1>2, <2>1 DEF n
  <2>2. CASE i \in 1..n
    BY <1>1, <2>2 DEF IsPrefixSum, n
  <2> QED
    BY <1>1, <2>1, <2>2
<1>5. \A i, j \in 0..Len(v) : i <= j => q[i] <= q[j]
  BY <1>1, <1>2 DEF IsPrefixSum, n
<1>6. IsPrefixSum(v, q)
  BY <1>3, <1>4, <1>5 DEF IsPrefixSum
<1> QED
  BY <1>3, <1>6 DEF HasSum, PartialSum, v

\* The sum of a concatenation is the sum of the sums.
LEMMA SumConcat ==
  ASSUME NEW w \in Seq(Nat), NEW t, HasSum(w, t),
         NEW v \in Seq(Nat), NEW u, HasSum(v, u)
  PROVE  HasSum(w \o v, t + u)
<1> PICK p : IsPrefixSum(w, p) /\ p[0] = 0 /\ p[Len(w)] = t
  BY DEF HasSum, PartialSum
<1> PICK r : IsPrefixSum(v, r) /\ r[0] = 0 /\ r[Len(v)] = u
  BY DEF HasSum, PartialSum
<1> DEFINE n == Len(w)
           m == Len(v)
           c == w \o v
           q == [i \in 0..(n + m) |-> IF i <= n THEN p[i] ELSE t + r[i - n]]
<1>1. /\ n \in Nat /\ m \in Nat /\ Len(c) = n + m
      /\ \A i \in 1..n : c[i] = w[i]
      /\ \A i \in (n + 1)..(n + m) : c[i] = v[i - n]
  OBVIOUS
<1> HIDE DEF c, n, m
<1>2. /\ p[0] = 0 /\ p[n] = t /\ t \in Nat
      /\ \A i \in 0..n : p[i] \in Nat
      /\ \A i \in 0..n : p[i] <= p[n]
      /\ \A i, j \in 0..n : i <= j => p[i] <= p[j]
  <2>1. n = Len(w) /\ n \in 0..n
    BY <1>1 DEF n
  <2>2. /\ \A i \in 0..n : p[i] \in Nat
        /\ \A i \in 0..n : p[i] <= p[n]
        /\ \A i, j \in 0..n : i <= j => p[i] <= p[j]
    BY <2>1, PrefixFacts
  <2> QED
    BY <2>1, <2>2
<1>7. /\ r[0] = 0 /\ r[m] = u /\ u \in Nat
      /\ \A i \in 0..m : r[i] \in Nat
      /\ \A i \in 1..m : v[i] \in Nat /\ r[i] = r[i - 1] + v[i]
      /\ \A i, j \in 0..m : i <= j => r[i] <= r[j]
  <2>1. m = Len(v) /\ m \in 0..m
    BY <1>1 DEF m
  <2>2. /\ \A i \in 0..m : r[i] \in Nat
        /\ \A i \in 1..m : v[i] \in Nat /\ r[i] = r[i - 1] + v[i]
        /\ \A i, j \in 0..m : i <= j => r[i] <= r[j]
    BY <2>1, PrefixFacts
  <2> QED
    BY <2>1, <2>2
<1>8. \A i \in (n + 1)..(n + m) : i - n \in 1..m /\ i - n \in 0..m
  BY <1>1
<1>3. q \in [0..Len(c) -> Nat] /\ q[0] = 0 /\ q[Len(c)] = t + u
  <2>1. \A i \in 0..(n + m) : q[i] \in Nat
    <3> TAKE i \in 0..(n + m)
    <3>1. CASE i <= n
      BY <1>1, <1>2, <3>1
    <3>2. CASE i > n
      <4>1. i - n \in 0..m
        BY <1>1, <3>2
      <4>2. r[i - n] \in Nat
        BY <1>7, <4>1
      <4> QED
        BY <1>1, <1>2, <3>2, <4>2
    <3> QED
      BY <1>1, <3>1, <3>2
  <2>2. q[0] = 0
    BY <1>1, <1>2
  <2>3. q[n + m] = t + u
    <3>1. CASE m = 0
      <4>1. n + m = n /\ n \in 0..(n + m) /\ n <= n /\ u = 0
        BY <1>1, <1>7, <3>1
      <4> QED
        BY <1>2, <4>1
    <3>2. CASE m > 0
      <4>1. (n + m) - n = m /\ ~(n + m <= n) /\ n + m \in 0..(n + m)
        BY <1>1, <3>2
      <4> QED
        BY <1>7, <4>1
    <3> QED
      BY <1>1, <3>1, <3>2
  <2> QED
    BY <1>1, <2>1, <2>2, <2>3
<1>4. \A i \in 1..Len(c) : q[i] = q[i - 1] + c[i]
  <2> TAKE i \in 1..Len(c)
  <2>1. CASE i \in 1..n
    BY <1>1, <2>1 DEF IsPrefixSum, n
  <2>2. CASE i \in (n + 1)..(n + m)
    <3> DEFINE j == i - n
    <3>1. j \in 1..m /\ j - 1 \in 0..m /\ i = n + j
      BY <1>1, <2>2
    <3>2. c[i] = v[j] /\ q[i] = t + r[j]
      BY <1>1, <2>2, <3>1
    <3>3. q[i - 1] = t + r[j - 1]
      <4>1. CASE j = 1
        BY <1>1, <1>2, <1>7, <3>1, <4>1
      <4>2. CASE j > 1
        <5>1. i - 1 \in 0..(n + m) /\ ~(i - 1 <= n) /\ (i - 1) - n = j - 1
          BY <1>1, <3>1, <4>2
        <5> QED
          BY <5>1
      <4> QED
        BY <3>1, <4>1, <4>2
    <3>4. r[j] = r[j - 1] + v[j] /\ v[j] \in Nat /\ r[j - 1] \in Nat
      BY <1>7, <3>1
    <3> HIDE DEF j, q
    <3> QED
      BY <1>2, <3>2, <3>3, <3>4
  <2> QED
    BY <1>1, <2>1, <2>2
<1>5. \A i, j \in 0..Len(c) : i <= j => q[i] <= q[j]
  <2> TAKE i \in 0..Len(c), j \in 0..Len(c)
  <2> HAVE i <= j
  <2>1. CASE j <= n
    BY <1>1, <1>2, <2>1
  <2>2. CASE i > n
    <3>1. /\ i - n \in 0..m /\ j - n \in 0..m /\ i - n <= j - n
          /\ q[i] = t + r[i - n] /\ q[j] = t + r[j - n]
      BY <1>1, <2>2
    <3>2. r[i - n] <= r[j - n] /\ r[i - n] \in Nat /\ r[j - n] \in Nat
      BY <1>7, <3>1
    <3> HIDE DEF q
    <3> QED
      BY <1>2, <3>1, <3>2
  <2>3. CASE i <= n /\ j > n
    <3>1. q[i] = p[i] /\ q[j] = t + r[j - n] /\ j - n \in 0..m /\ i \in 0..n
      BY <1>1, <2>3
    <3>2. p[i] <= t /\ p[i] \in Nat /\ r[j - n] \in Nat
      BY <1>2, <1>7, <3>1
    <3> HIDE DEF q
    <3> QED
      BY <1>2, <3>1, <3>2
  <2> QED
    BY <1>1, <2>1, <2>2, <2>3
<1>6. IsPrefixSum(c, q)
  BY <1>3, <1>4, <1>5 DEF IsPrefixSum
<1> QED
  BY <1>3, <1>6 DEF HasSum, PartialSum, c

\* Exchanging two neighbours keeps the sum.
LEMMA SumSwap ==
  ASSUME NEW w \in Seq(Nat), NEW t, HasSum(w, t), NEW k \in 1..(Len(w) - 1)
  PROVE  HasSum([w EXCEPT ![k] = w[k + 1], ![k + 1] = w[k]], t)
<1> PICK p : IsPrefixSum(w, p) /\ p[0] = 0 /\ p[Len(w)] = t
  BY DEF HasSum, PartialSum
<1> DEFINE n == Len(w)
           v == [w EXCEPT ![k] = w[k + 1], ![k + 1] = w[k]]
           q == [i \in 0..n |-> IF i = k THEN p[k - 1] + w[k + 1] ELSE p[i]]
<1>1. /\ n \in Nat /\ k \in 1..(n - 1) /\ Len(v) = n
      /\ v[k] = w[k + 1] /\ v[k + 1] = w[k]
      /\ \A i \in 1..n : i # k /\ i # k + 1 => v[i] = w[i]
      /\ \A i \in 1..n : w[i] \in Nat
  OBVIOUS
<1> HIDE DEF v, n
<1>2. /\ p[0] = 0 /\ p[n] = t /\ t \in Nat
      /\ \A i \in 0..n : p[i] \in Nat
      /\ \A i \in 1..n : p[i] = p[i - 1] + w[i]
      /\ \A i, j \in 0..n : i <= j => p[i] <= p[j]
  BY SMTT(30), PrefixFacts DEF n
<1>7. /\ k \in 1..n /\ k + 1 \in 1..n /\ k - 1 \in 0..n /\ k \in 0..n /\ k + 1 \in 0..n
      /\ k # 0 /\ k # n /\ (k + 1) - 1 = k /\ k + 1 # k /\ k - 1 # k
  BY <1>1
<1>8. PICK a \in Nat, b \in Nat, c \in Nat : a = p[k - 1] /\ b = w[k] /\ c = w[k + 1]
  BY <1>1, <1>2, <1>7
<1>9. p[k] = a + b /\ p[k + 1] = a + b + c
  BY <1>2, <1>7, <1>8
<1>10. q = [i \in 0..n |-> IF i = k THEN a + c ELSE p[i]]
  BY <1>8
<1> HIDE DEF q
<1>3. q \in [0..Len(v) -> Nat] /\ q[0] = 0 /\ q[Len(v)] = t
  BY <1>1, <1>2, <1>7, <1>10
<1>4. \A i \in 1..Len(v) : q[i] = q[i - 1] + v[i]
  <2> TAKE i \in 1..Len(v)
  <2>1. CASE i = k
    <3>1. q[i] = a + c /\ q[i - 1] = a /\ v[i] = c
      BY <1>1, <1>7, <1>8, <1>10, <2>1
    <3> QED
      BY <3>1
  <2>2. CASE i = k + 1
    <3>1. q[i] = a + b + c /\ q[i - 1] = a + c /\ v[i] = b
      BY <1>1, <1>7, <1>8, <1>9, <1>10, <2>2
    <3> QED
      BY <3>1
  <2>3. CASE i # k /\ i # k + 1
    <3>1. i \in 1..n /\ i \in 0..n /\ i - 1 \in 0..n /\ i - 1 # k
      BY <1>1, <1>7, <2>3
    <3>2. q[i] = p[i] /\ q[i - 1] = p[i - 1] /\ v[i] = w[i]
      BY <1>1, <1>10, <2>3, <3>1
    <3> QED
      BY <1>2, <3>1, <3>2
  <2> QED
    BY <2>1, <2>2, <2>3
<1>5. \A i, j \in 0..Len(v) : i <= j => q[i] <= q[j]
  <2> TAKE i \in 0..Len(v), j \in 0..Len(v)
  <2> HAVE i <= j
  <2>1. i \in 0..n /\ j \in 0..n /\ q[i] \in Nat /\ q[j] \in Nat
    BY SMTT(30), <1>1, <1>3
  <2>2. CASE i = j
    BY <2>1, <2>2
  <2>3. CASE i = k /\ j # k
    <3>1. k + 1 <= j
      BY <1>7, <2>1, <2>3
    <3>2. q[i] = a + c /\ q[j] = p[j]
      BY <1>10, <2>1, <2>3
    <3>3. a + b + c <= p[j] /\ p[j] \in Nat
      BY <1>2, <1>7, <1>9, <2>1, <3>1
    <3> QED
      BY <3>2, <3>3
  <2>4. CASE i # k /\ j = k
    <3>1. i <= k - 1
      BY <1>7, <2>1, <2>4
    <3>2. q[j] = a + c /\ q[i] = p[i]
      BY <1>10, <2>1, <2>4
    <3>3. p[i] <= a /\ p[i] \in Nat
      BY <1>2, <1>7, <1>8, <2>1, <3>1
    <3> QED
      BY <3>2, <3>3
  <2>5. CASE i # k /\ j # k
    BY <1>2, <1>10, <2>1, <2>5
  <2> QED
    BY <2>2, <2>3, <2>4, <2>5
<1>6. IsPrefixSum(v, q)
  BY <1>3, <1>4, <1>5 DEF IsPrefixSum
<1> QED
  BY <1>3, <1>6 DEF HasSum, PartialSum, v
==============================================================================
