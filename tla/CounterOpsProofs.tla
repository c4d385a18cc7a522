-------------------------- MODULE CounterOpsProofs --------------------------
(***************************************************************************)
(* Lemmas about the operations on compact share counters and the share     *)
(* arithmetic they rest on, for every share layout.                        *)
(***************************************************************************)
EXTENDS CounterOps, FiniteSetTheorems, Arithmetic

\* Both content sizes are positive, and the first share holds no more than a
\* continuation share (it also carries the sequence length).
LEMMA ContentSizes ==
  /\ FirstCompactShareContentSize \in Nat \ {0}
  /\ ContinuationCompactShareContentSize \in Nat \ {0}
  /\ FirstCompactShareContentSize <= ContinuationCompactShareContentSize
BY ShareFormatAssumption
   DEF FirstCompactShareContentSize, ContinuationCompactShareContentSize

\* A delimiter takes at least one byte.
LEMMA DelimLenType == \A n \in Nat : DelimLen(n) \in Nat \ {0}
<1> TAKE n \in Nat
<1> DEFINE K == {k \in 1..4 : n >= VarintPower(k)}
<1>1. IsFiniteSet(1..4)
  <2>1. 1 \in Int /\ 4 \in Int
    OBVIOUS
  <2> QED
    BY <2>1, FS_Interval, Zenon
<1>2. IsFiniteSet(K)
  BY <1>1, FS_Subset
<1>3. Cardinality(K) \in Nat
  BY <1>2, FS_CardinalityType
<1> QED
  BY <1>3 DEF DelimLen

\* The powers a varint's length is counted by are naturals.
LEMMA VarintPowerType == \A k : VarintPower(k) \in Nat
<1>1. VarintBase \in Nat
  BY ShareFormatAssumption
<1>2. VarintBase * VarintBase \in Nat
  BY <1>1
<1>3. VarintBase * VarintBase * VarintBase \in Nat
  BY <1>1, <1>2
<1>4. VarintBase * VarintBase * VarintBase * VarintBase \in Nat
  BY <1>1, <1>3
<1> QED
  BY <1>1, <1>2, <1>3, <1>4 DEF VarintPower

\* A longer unit has no shorter delimiter.
LEMMA DelimLenMonotone ==
  ASSUME NEW m \in Nat, NEW n \in Nat, m <= n
  PROVE  DelimLen(m) <= DelimLen(n)
<1> DEFINE K(x) == {k \in 1..4 : x >= VarintPower(k)}
<1>1. IsFiniteSet(1..4)
  <2>1. 1 \in Int /\ 4 \in Int
    OBVIOUS
  <2> QED
    BY <2>1, FS_Interval, Zenon
<1>2. K(m) \subseteq K(n)
  BY VarintPowerType
<1>3. IsFiniteSet(K(m)) /\ IsFiniteSet(K(n)) /\ Cardinality(K(m)) <= Cardinality(K(n))
  BY <1>1, <1>2, FS_Subset
<1>4. Cardinality(K(m)) \in Nat /\ Cardinality(K(n)) \in Nat
  BY <1>3, FS_CardinalityType
<1> QED
  BY <1>3, <1>4 DEF DelimLen

\* More bytes need no fewer compact shares.
LEMMA CompactSharesNeededMonotone ==
  ASSUME NEW a \in Nat, NEW b \in Nat, a <= b
  PROVE  /\ CompactSharesNeeded(a) \in Nat
         /\ CompactSharesNeeded(b) \in Nat
         /\ CompactSharesNeeded(a) <= CompactSharesNeeded(b)
<1> DEFINE F == FirstCompactShareContentSize
           C == ContinuationCompactShareContentSize
           q(n) == (n - F + C - 1) \div C
<1>1. F \in Nat /\ C \in Nat \ {0}
  BY ContentSizes
<1>2. \A n \in Nat : CompactSharesNeeded(n) =
        IF n = 0 THEN 0 ELSE IF n <= F THEN 1 ELSE 1 + q(n)
  BY DEF CompactSharesNeeded, SharesFor
<1> HIDE DEF F, C
<1>3. ASSUME NEW n \in Nat, n > F PROVE q(n) \in Nat
  <2>1. n - F + C - 1 \in Nat
    BY <1>1, <1>3
  <2> QED
    BY <1>1, <2>1, DivMod
<1>4. ASSUME a > F, b > F PROVE q(a) <= q(b)
  <2>1. a - F + C - 1 \in Nat /\ b - F + C - 1 \in Nat
        /\ a - F + C - 1 <= b - F + C - 1
    BY <1>1, <1>4
  <2> QED
    BY <1>1, <2>1, DivMonotone
<1> HIDE DEF q
<1> QED
  BY <1>1, <1>2, <1>3, <1>4

------------------------------------------------------------------------------
(* One lemma per stage of Add, on the place p reached so far.              *)

Place == [shares : Nat, remainder : Nat, left : Nat]

\* The bytes a place stands for: what is counted and what is still to be put.
PlaceBytes(p) == BytesOf(p.shares, p.remainder) + p.left

\* Filling the first share loses no byte and leaves bytes to put only when the
\* first share is full.
LEMMA FillFirstShareCorrect ==
  ASSUME NEW p \in Place, Normalised(p.shares, p.remainder)
  PROVE  /\ FillFirstShare(p) \in Place
         /\ Normalised(FillFirstShare(p).shares, FillFirstShare(p).remainder)
         /\ PlaceBytes(FillFirstShare(p)) = PlaceBytes(p)
         /\ FillFirstShare(p).shares = 0 => FillFirstShare(p).left = 0
BY ContentSizes DEF FillFirstShare, Place, Normalised, PlaceBytes, BytesOf

\* Filling one continuation share leaves either nothing to put, or a place at
\* a share boundary.
LEMMA FillContinuationShareCorrect ==
  ASSUME NEW p \in Place, Normalised(p.shares, p.remainder),
         p.shares = 0 => p.left = 0
  PROVE  LET q == FillContinuationShare(p)
         IN  /\ q \in Place
             /\ Normalised(q.shares, q.remainder)
             /\ PlaceBytes(q) = PlaceBytes(p)
             /\ q.left > 0 => q.shares > 0 /\ q.remainder = 0
<1> DEFINE C == ContinuationCompactShareContentSize
           room == C - p.remainder
<1>1. CASE p.left >= room
  <2>1. p.shares > 0
    BY <1>1, ContentSizes DEF Place, Normalised
  <2>2. FillContinuationShare(p) =
          [shares |-> p.shares + 1, remainder |-> 0, left |-> p.left - room]
    BY <1>1 DEF FillContinuationShare
  <2> DEFINE q == [shares |-> p.shares + 1, remainder |-> 0, left |-> p.left - room]
  <2>3. q \in Place /\ Normalised(q.shares, q.remainder) /\ q.shares > 0
    BY <1>1, ContentSizes DEF Place, Normalised
  <2>4. p.shares * C = (p.shares - 1) * C + C
    BY ContentSizes DEF Place
  <2>5. PlaceBytes(q) = FirstCompactShareContentSize + p.shares * C + p.left - room
    BY ContentSizes DEF Place, PlaceBytes, BytesOf
  <2>6. PlaceBytes(p) = FirstCompactShareContentSize + (p.shares - 1) * C
                          + p.remainder + p.left
    BY <2>1 DEF PlaceBytes, BytesOf
  <2>7. PlaceBytes(q) = PlaceBytes(p)
    BY <2>4, <2>5, <2>6, ContentSizes DEF Place
  <2> QED
    BY <2>2, <2>3, <2>7
<1>2. CASE p.left < room
  <2>1. FillContinuationShare(p) =
          [shares |-> p.shares, remainder |-> p.remainder + p.left, left |-> 0]
    BY <1>2, ContentSizes DEF FillContinuationShare, Place
  <2> QED
    BY <1>2, <2>1, ContentSizes DEF Place, Normalised, PlaceBytes, BytesOf
<1> QED
  BY <1>1, <1>2, ContentSizes DEF Place

\* Dividing what is left over continuation shares loses no byte either.
LEMMA DivideTheRestCorrect ==
  ASSUME NEW p \in Place, Normalised(p.shares, p.remainder),
         p.left > 0 => p.shares > 0 /\ p.remainder = 0
  PROVE  LET q == DivideTheRest(p)
         IN  /\ q \in Place
             /\ Normalised(q.shares, q.remainder)
             /\ BytesOf(q.shares, q.remainder) = PlaceBytes(p)
<1> DEFINE C == ContinuationCompactShareContentSize
<1>1. CASE p.left = 0
  BY <1>1, ContentSizes DEF DivideTheRest, Place, Normalised, PlaceBytes, BytesOf
<1>2. CASE p.left > 0
  <2> DEFINE d == p.left \div C
             m == p.left % C
  <2>1. d \in Nat /\ m \in 0..(C - 1) /\ p.left = d * C + m
    BY ContentSizes, DivMod DEF Place
  <2>2. DivideTheRest(p) = [shares |-> p.shares + d, remainder |-> m, left |-> 0]
    BY <1>2 DEF DivideTheRest
  <2>3. (p.shares + d - 1) * C = (p.shares - 1) * C + d * C
    BY <2>1, ContentSizes DEF Place
  <2> HIDE DEF d, m
  <2> QED
    BY <1>2, <2>1, <2>2, <2>3, ContentSizes
       DEF Place, Normalised, PlaceBytes, BytesOf
<1> QED
  BY <1>1, <1>2 DEF Place

------------------------------------------------------------------------------
\* Add counts exactly the delimited bytes of the unit, leaves a normalised
\* counter, and saves the state it started from.
LEMMA AddCorrect ==
  ASSUME NEW c \in Counter, NEW n \in Nat, Normalised(c.shares, c.remainder)
  PROVE  /\ Add(c, n) \in Counter
         /\ Normalised(Add(c, n).shares, Add(c, n).remainder)
         /\ BytesOf(Add(c, n).shares, Add(c, n).remainder)
              = BytesOf(c.shares, c.remainder) + DelimitedLen(n)
         /\ Add(c, n).lastShares = c.shares
         /\ Add(c, n).lastRemainder = c.remainder
<1> DEFINE p0 == [shares |-> c.shares, remainder |-> c.remainder,
                  left |-> DelimitedLen(n)]
           p1 == FillFirstShare(p0)
           p2 == FillContinuationShare(p1)
           p3 == DivideTheRest(p2)
<1>1. /\ p0 \in Place
      /\ Normalised(p0.shares, p0.remainder)
      /\ PlaceBytes(p0) = BytesOf(c.shares, c.remainder) + DelimitedLen(n)
  BY DelimLenType DEF Place, Counter, PlaceBytes, DelimitedLen
<1> HIDE DEF p0
<1>2. /\ p1 \in Place
      /\ Normalised(p1.shares, p1.remainder)
      /\ PlaceBytes(p1) = PlaceBytes(p0)
      /\ p1.shares = 0 => p1.left = 0
  BY <1>1, FillFirstShareCorrect
<1> HIDE DEF p1
<1>3. /\ p2 \in Place
      /\ Normalised(p2.shares, p2.remainder)
      /\ PlaceBytes(p2) = PlaceBytes(p1)
      /\ p2.left > 0 => p2.shares > 0 /\ p2.remainder = 0
  BY <1>2, FillContinuationShareCorrect
<1> HIDE DEF p2
<1>4. /\ p3 \in Place
      /\ Normalised(p3.shares, p3.remainder)
      /\ BytesOf(p3.shares, p3.remainder) = PlaceBytes(p2)
  BY <1>3, DivideTheRestCorrect
<1>5. Add(c, n) = [lastShares |-> c.shares, lastRemainder |-> c.remainder,
                   shares |-> p3.shares, remainder |-> p3.remainder]
  BY DEF Add, p0, p1, p2
<1> HIDE DEF p3
<1> QED
  BY <1>1, <1>2, <1>3, <1>4, <1>5 DEF Counter, Place

\* The share count of a normalised counter is the one CompactSharesNeeded
\* computes from the bytes.
LEMMA SizeCorrect ==
  ASSUME NEW s \in Nat, NEW r \in Nat, Normalised(s, r)
  PROVE  CompactSharesNeeded(BytesOf(s, r)) = IF r = 0 THEN s ELSE s + 1
<1> DEFINE F == FirstCompactShareContentSize
           C == ContinuationCompactShareContentSize
<1>1. CASE s = 0
  BY <1>1, ContentSizes DEF CompactSharesNeeded, SharesFor, BytesOf, Normalised
<1>2. CASE s > 0
  <2>1. (s - 1) * C \in Nat /\ (s > 1 => (s - 1) * C >= C)
    BY <1>2, ContentSizes
  <2>2. BytesOf(s, r) = F + (s - 1) * C + r
    BY <1>2 DEF BytesOf
  <2>3. CASE s = 1 /\ r = 0
    BY <2>2, <2>3, ContentSizes DEF CompactSharesNeeded, SharesFor
  <2>4. CASE ~(s = 1 /\ r = 0)
    <3> DEFINE a == (s - 1) * C + r + C - 1
    <3>1. a \in Nat /\ BytesOf(s, r) > F /\ BytesOf(s, r) - F + C - 1 = a
      BY <1>2, <2>1, <2>2, <2>4, ContentSizes
    <3>2. CompactSharesNeeded(BytesOf(s, r)) = 1 + a \div C
      BY <3>1, <2>1, <2>2, ContentSizes DEF CompactSharesNeeded, SharesFor
    <3>3. CASE r = 0
      <4>1. a = (s - 1) * C + (C - 1)
        BY <3>3, <2>1, ContentSizes
      <4>2. s - 1 \in Nat /\ C - 1 \in 0..(C - 1) /\ C \in Nat \ {0}
        BY <1>2, ContentSizes
      <4> HIDE DEF a, C
      <4>3. a \div C = s - 1
        BY <3>1, <4>1, <4>2, DivUnique
      <4> QED
        BY <3>2, <3>3, <4>3
    <3>4. CASE r > 0
      <4>1. a = s * C + (r - 1) /\ r - 1 \in 0..(C - 1)
        BY <1>2, <3>4, <2>1, ContentSizes DEF Normalised
      <4>2. a \div C = s
        BY <3>1, <4>1, ContentSizes, DivUnique
      <4> QED
        BY <3>2, <3>4, <4>2
    <3> QED
      BY <3>3, <3>4
  <2> QED
    BY <2>3, <2>4
<1> QED
  BY <1>1, <1>2
==============================================================================
