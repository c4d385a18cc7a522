--------------------------- MODULE MerkleTreeProofs ---------------------------
(***************************************************************************)
(* The iterative Merkle tree joins leaves exactly where the recursive one  *)
(* splits them, for lists of any length up to 2^24.                        *)
(*                                                                         *)
(* The argument is the invariant LevelsIntact: while a level is read, item *)
(* i of those written covers the i-th block of twice the width, and item i *)
(* of those to be read still covers the i-th block of the width itself,    *)
(* because the write position never passes the read position.              *)
(***************************************************************************)
EXTENDS MerkleTree, TLAPS

\* What is needed of the powers of two.
LEMMA TopBitFacts ==
  /\ MaxTreeSize \in Nat
  /\ TopBits \subseteq Nat \ {0}
  /\ \A w \in TopBits : w < MaxTreeSize => 2 * w \in TopBits
  /\ 1 \in TopBits
BY SMT DEF TopBits, MaxTreeSize

\* The highest bit of a number between a power of two and its double.
LEMMA TopBitUnique ==
  ASSUME NEW p \in TopBits, NEW n \in Nat, p <= n, n < 2 * p
  PROVE  topBit(n) = p
<1>1. \A q \in TopBits : (q <= n /\ n < 2 * q) => q = p
  BY SMTT(60) DEF TopBits, MaxTreeSize
<1> QED
  BY <1>1 DEF topBit

\* getSplitPoint of a number above a power of two and not above its double is
\* that power: a full left subtree and anything up to a full right one.
LEMMA SplitPoint ==
  ASSUME NEW w \in TopBits, NEW n \in Nat, w < n, n <= 2 * w, n <= MaxTreeSize
  PROVE  getSplitPoint(n) = w
<1>1. w \in Nat \ {0} /\ MaxTreeSize \in Nat
  BY TopBitFacts
<1>2. CASE n < 2 * w
  <2>1. topBit(n) = w
    BY <1>1, <1>2, TopBitUnique
  <2> QED
    BY <1>1, <2>1 DEF getSplitPoint
<1>3. CASE n = 2 * w
  <2>1. 2 * w \in TopBits
    BY <1>1, <1>3, TopBitFacts
  <2>2. topBit(n) = 2 * w
    BY <1>1, <1>3, <2>1, TopBitUnique
  <2>3. (2 * w) \div 2 = w
    BY <1>1
  <2> QED
    BY <1>3, <2>2, <2>3 DEF getSplitPoint
<1> QED
  BY <1>1, <1>2, <1>3

\* Multiples of a width.
LEMMA Multiples ==
  ASSUME NEW w \in Nat \ {0}, NEW a \in Nat, NEW b \in Nat
  PROVE  /\ a * w \in Nat
         /\ (a + 1) * w = a * w + w
         /\ (a + 2) * w = a * w + 2 * w
         /\ (2 * a) * w = a * (2 * w)
         /\ a <= b => a * w <= b * w
         /\ a * w < b * w => a < b
BY Z3T(30)

\* What a list may have as its length is a natural number.
LEMMA SizesAreNaturals == 0..MaxTreeSize \subseteq Nat
BY TopBitFacts

\* The block that follows i others.
LEMMA BlockAfter ==
  ASSUME NEW w \in Nat, NEW i \in Nat, NEW k \in Nat, k = i + 1
  PROVE  Block(w, k) = Span(i * w, MinOf(k * w, Len(input)))
<1>1. k - 1 = i
  OBVIOUS
<1> QED
  BY <1>1 DEF Block

------------------------------------------------------------------------------
\* The items of a list are leaves that nothing was done to yet.
LEMMA InitLevels == TreeInit => LevelsIntact /\ JoinsAreSplits
<1> SUFFICES ASSUME TreeInit PROVE LevelsIntact /\ JoinsAreSplits
  OBVIOUS
<1>1. input \in Inputs /\ Len(input) \in 0..MaxTreeSize
  BY InputsAssumption DEF TreeInit
<1>2. Len(input) \in Nat
  BY <1>1, SizesAreNaturals
<1>3. size = Len(input) /\ width = 1 /\ pc = "switch" /\ joins = {}
      /\ spans = [i \in 1..Len(input) |-> Span(i - 1, i)]
  BY DEF TreeInit
<1>4. \A i \in 1..size : spans[i] = Block(width, i)
  BY <1>2, <1>3 DEF Block, MinOf, Span
<1>5. LevelsIntact
  BY <1>1, <1>2, <1>3, <1>4, TopBitFacts DEF LevelsIntact
<1>6. JoinsAreSplits
  BY <1>3 DEF JoinsAreSplits
<1> QED
  BY <1>5, <1>6

\* A step that pairs two items of a level.
LEMMA PairStep ==
  ASSUME LevelsIntact, JoinsAreSplits, Pair
  PROVE  LevelsIntact' /\ JoinsAreSplits'
<1> DEFINE n == Len(input)
           w == width
           new == Span(spans[rp + 1].lo, spans[rp + 2].hi)
           join == [lo |-> spans[rp + 1].lo, mid |-> spans[rp + 2].lo,
                    hi |-> spans[rp + 2].hi]
<1>1. n \in Nat /\ n <= MaxTreeSize
  BY InputsAssumption, SizesAreNaturals DEF LevelsIntact
<1>2. w \in Nat \ {0} /\ w \in TopBits
  BY TopBitFacts DEF LevelsIntact
<1>3. /\ size \in Nat /\ size <= n /\ rp \in Nat /\ wp \in Nat /\ rp = 2 * wp
      /\ rp + 1 < size
      /\ (size - 1) * w < n /\ n <= size * w
  BY <1>1 DEF LevelsIntact, Pair, MinOf
<1>4. /\ pc = "pass" /\ pc' = "pass" /\ input' = input /\ size' = size
      /\ width' = width /\ rp' = rp + 2 /\ wp' = wp + 1
      /\ spans' = [spans EXCEPT ![wp + 1] = new]
      /\ joins' = joins \cup {join}
  BY DEF Pair
<1>5. /\ rp * w \in Nat /\ (rp + 1) * w = rp * w + w /\ (rp + 2) * w = rp * w + 2 * w
      /\ rp * w = wp * (2 * w) /\ (wp + 1) * (2 * w) = wp * (2 * w) + 2 * w
      /\ (rp + 1) * w <= (size - 1) * w
  <2>1. rp + 1 \in Nat /\ size - 1 \in Nat /\ rp + 1 <= size - 1 /\ 2 * w \in Nat \ {0}
    BY <1>2, <1>3
  <2> QED
    BY <1>2, <1>3, <2>1, Multiples
<1>6. /\ spans[rp + 1] = Block(w, rp + 1) /\ spans[rp + 2] = Block(w, rp + 2)
      /\ \A i \in 1..wp : spans[i] = Block(2 * w, i)
      /\ \A i \in (rp + 1)..size : spans[i] = Block(w, i)
      /\ DOMAIN spans = 1..n
  BY <1>1, <1>3, <1>4 DEF LevelsIntact
<1> HIDE DEF n, w
<1>7. /\ spans[rp + 1].lo = rp * w
      /\ spans[rp + 2].lo = (rp + 1) * w
      /\ spans[rp + 2].hi = MinOf((rp + 2) * w, n)
  <2>1. rp + 1 \in Nat /\ rp + 2 \in Nat /\ rp + 2 = (rp + 1) + 1 /\ w \in Nat
    BY <1>2, <1>3
  <2>2. Block(w, rp + 1) = Span(rp * w, MinOf((rp + 1) * w, n))
    BY <1>3, <2>1, BlockAfter DEF n
  <2>3. Block(w, rp + 2) = Span((rp + 1) * w, MinOf((rp + 2) * w, n))
    BY <2>1, BlockAfter DEF n
  <2> QED
    BY <1>6, <2>2, <2>3 DEF Span
<1>8. new = Block(2 * w, wp + 1)
  <2>1. wp * (2 * w) = rp * w /\ (wp + 1) * (2 * w) = (rp + 2) * w
    BY <1>3, <1>5
  <2>2. new = Span(rp * w, MinOf((rp + 2) * w, n))
    BY <1>7
  <2>3. Block(2 * w, wp + 1) = Span(wp * (2 * w), MinOf((wp + 1) * (2 * w), n))
    <3>1. wp + 1 \in Nat /\ 2 * w \in Nat
      BY <1>2, <1>3
    <3> QED
      BY <1>3, <3>1, BlockAfter DEF n
  <2> QED
    BY <2>1, <2>2, <2>3
<1>9. join.lo < join.mid /\ join.mid < join.hi
        /\ join.mid - join.lo = getSplitPoint(join.hi - join.lo)
  <2> DEFINE lo == rp * w
             hi == MinOf((rp + 2) * w, n)
  <2>1. lo \in Nat /\ (rp + 1) * w = lo + w /\ (rp + 2) * w = lo + 2 * w /\ lo + w < n
    BY <1>1, <1>2, <1>3, <1>5
  <2>2. join.lo = lo /\ join.mid = lo + w /\ join.hi = hi
    BY <1>7, <2>1
  <2>3. hi \in Nat /\ lo + w < hi /\ hi <= lo + 2 * w /\ hi <= n
    BY <1>1, <1>2, <2>1 DEF MinOf
  <2> HIDE DEF lo, hi, join
  <2>4. hi - lo \in Nat /\ w < hi - lo /\ hi - lo <= 2 * w /\ hi - lo <= MaxTreeSize
    BY <1>1, <1>2, <2>1, <2>3, TopBitFacts
  <2>5. getSplitPoint(hi - lo) = w
    BY <1>2, <2>4, SplitPoint
  <2> QED
    BY <1>2, <2>1, <2>2, <2>3, <2>5
<1> HIDE DEF new, join
<1>10. /\ \A i \in 1..(wp + 1) : spans'[i] = Block(2 * w, i)
       /\ \A i \in (rp + 3)..size : spans'[i] = Block(w, i)
       /\ DOMAIN spans' = 1..n
  <2>1. wp + 1 \in 1..n /\ wp + 1 <= rp + 1
    BY <1>1, <1>3
  <2> QED
    BY <1>1, <1>3, <1>4, <1>6, <1>8, <2>1
<1>11. JoinsAreSplits'
  BY <1>4, <1>9 DEF JoinsAreSplits
<1>12. LevelsIntact'
  <2>1. \A u, i : Block(u, i)' = Block(u', i')
    BY <1>4 DEF Block, Span, MinOf
  <2>2. rp + 2 \in 0..size /\ wp + 1 \in Nat /\ rp + 2 = MinOf(2 * (wp + 1), size)
        /\ 2 * (wp + 1) <= size + 1 /\ size > 1
    BY <1>3 DEF MinOf
  <2>3. input \in Inputs /\ size \in 0..n
    BY DEF LevelsIntact, n
  <2> QED
    BY <1>2, <1>3, <1>4, <1>10, <2>2, <2>3 DEF LevelsIntact, Block, Span, MinOf, n, w
<1> QED
  BY <1>11, <1>12

\* A step that moves the last item of an odd level up.
LEMMA CarryStep ==
  ASSUME LevelsIntact, JoinsAreSplits, Carry
  PROVE  LevelsIntact' /\ JoinsAreSplits'
<1> DEFINE n == Len(input)
           w == width
           new == spans[rp + 1]
<1>1. n \in Nat
  BY InputsAssumption, SizesAreNaturals DEF LevelsIntact
<1>2. w \in Nat \ {0} /\ w \in TopBits
  BY TopBitFacts DEF LevelsIntact
<1>3. /\ size \in Nat /\ size <= n /\ rp \in Nat /\ wp \in Nat /\ rp = 2 * wp
      /\ rp + 1 = size /\ size > 1
      /\ (size - 1) * w < n /\ n <= size * w
  BY <1>1 DEF LevelsIntact, Carry, MinOf
<1>4. /\ pc = "pass" /\ pc' = "pass" /\ input' = input /\ size' = size
      /\ width' = width /\ rp' = rp + 1 /\ wp' = wp + 1 /\ joins' = joins
      /\ spans' = [spans EXCEPT ![wp + 1] = new]
  BY DEF Carry
<1>5. /\ new = Block(w, size)
      /\ \A i \in 1..wp : spans[i] = Block(2 * w, i)
      /\ DOMAIN spans = 1..n
  BY <1>1, <1>3, <1>4 DEF LevelsIntact
<1> HIDE DEF n, w, new
<1>6. new = Block(2 * w, wp + 1)
  <2>1. /\ rp * w \in Nat /\ (rp + 1) * w = rp * w + w
        /\ rp * w = wp * (2 * w) /\ (wp + 1) * (2 * w) = wp * (2 * w) + 2 * w
    <3>1. 2 * w \in Nat \ {0}
      BY <1>2
    <3> QED
      BY <1>2, <1>3, <3>1, Multiples
  <2>2. MinOf(size * w, n) = n /\ MinOf((wp + 1) * (2 * w), n) = n
    BY <1>1, <1>2, <1>3, <2>1 DEF MinOf
  <2>3. wp + 1 \in Nat /\ 2 * w \in Nat /\ w \in Nat
    BY <1>2, <1>3
  <2>4. Block(w, size) = Span(rp * w, MinOf(size * w, n))
    BY ZenonT(40), <1>3, <2>3, BlockAfter DEF n
  <2>5. Block(2 * w, wp + 1) = Span(wp * (2 * w), MinOf((wp + 1) * (2 * w), n))
    BY <1>3, <2>3, BlockAfter DEF n
  <2> QED
    BY <1>5, <2>1, <2>2, <2>4, <2>5
<1>7. /\ \A i \in 1..(wp + 1) : spans'[i] = Block(2 * w, i)
      /\ DOMAIN spans' = 1..n
  <2>1. wp + 1 \in 1..n
    BY <1>1, <1>3
  <2> QED
    BY <1>1, <1>3, <1>4, <1>5, <1>6, <2>1
<1>8. JoinsAreSplits'
  BY <1>4 DEF JoinsAreSplits
<1>9. LevelsIntact'
  <2>1. rp + 1 \in 0..size /\ wp + 1 \in Nat /\ rp + 1 = MinOf(2 * (wp + 1), size)
        /\ 2 * (wp + 1) <= size + 1 /\ (rp + 2)..size = {}
    BY <1>3 DEF MinOf
  <2>2. input \in Inputs /\ size \in 0..n
    BY DEF LevelsIntact, n
  <2> QED
    BY <1>2, <1>3, <1>4, <1>7, <2>1, <2>2 DEF LevelsIntact, Block, Span, MinOf, n, w
<1> QED
  BY <1>8, <1>9

\* The end of a pass: what was written is the next level.
LEMMA EndPassStep ==
  ASSUME LevelsIntact, JoinsAreSplits, EndPass
  PROVE  LevelsIntact' /\ JoinsAreSplits'
<1> DEFINE n == Len(input)
           w == width
<1>1. n \in Nat /\ n <= MaxTreeSize
  BY InputsAssumption, SizesAreNaturals DEF LevelsIntact
<1>2. w \in Nat \ {0} /\ w \in TopBits
  BY TopBitFacts DEF LevelsIntact
<1>3. /\ size \in Nat /\ size <= n /\ wp \in Nat /\ size <= 2 * wp /\ 2 * wp <= size + 1
      /\ size > 1 /\ (size - 1) * w < n /\ n <= size * w
  BY <1>1 DEF LevelsIntact, EndPass, MinOf
<1>4. /\ pc = "pass" /\ pc' = "switch" /\ input' = input /\ size' = wp
      /\ width' = 2 * w /\ joins' = joins /\ spans' = spans
  BY DEF EndPass
<1>5. /\ \A i \in 1..wp : spans[i] = Block(2 * w, i)
      /\ DOMAIN spans = 1..n
  BY <1>4 DEF LevelsIntact
<1>6. wp \in 1..n
  BY <1>1, <1>3
<1> HIDE DEF n, w
<1>7. (wp - 1) * (2 * w) < n /\ n <= wp * (2 * w)
  <2>1. wp - 1 \in Nat /\ 2 * (wp - 1) <= size - 1 /\ size - 1 \in Nat
    BY <1>3, <1>6
  <2>2. /\ (2 * (wp - 1)) * w = (wp - 1) * (2 * w) /\ (2 * (wp - 1)) * w <= (size - 1) * w
        /\ (2 * wp) * w = wp * (2 * w) /\ size * w <= (2 * wp) * w
        /\ (2 * (wp - 1)) * w \in Nat /\ (size - 1) * w \in Nat
        /\ (2 * wp) * w \in Nat /\ size * w \in Nat
    BY <1>2, <1>3, <2>1, Multiples
  <2> QED
    BY <1>1, <1>3, <2>2
<1>8. 2 * w \in TopBits
  <2>1. w <= (size - 1) * w
    <3>1. size - 1 \in Nat /\ 1 <= size - 1 /\ 1 * w = w
      BY <1>2, <1>3
    <3> QED
      BY <1>2, <3>1, Multiples
  <2>2. w < MaxTreeSize
    <3>1. (size - 1) * w \in Nat
      BY <1>2, <1>3, Multiples
    <3> QED
      BY <1>1, <1>2, <1>3, <2>1, <3>1, TopBitFacts
  <2> QED
    BY <1>2, <2>2, TopBitFacts
<1>9. JoinsAreSplits'
  BY <1>4 DEF JoinsAreSplits
<1>10. LevelsIntact'
  <2>1. input \in Inputs /\ wp \in 0..n
    BY <1>6, <1>1 DEF LevelsIntact, n
  <2> QED
    BY <1>4, <1>5, <1>7, <1>8, <2>1 DEF LevelsIntact, Block, Span, MinOf, n
<1> QED
  BY <1>9, <1>10

\* The call returns when one item is left, and that item covers all leaves.
LEMMA ReturnStep ==
  ASSUME LevelsIntact, JoinsAreSplits, Return
  PROVE  LevelsIntact' /\ JoinsAreSplits'
<1> DEFINE n == Len(input)
<1>1. n \in Nat
  BY InputsAssumption, SizesAreNaturals DEF LevelsIntact
<1>2. width \in Nat \ {0}
  BY TopBitFacts DEF LevelsIntact
<1>3. /\ pc = "switch" /\ pc' = "returned" /\ size <= 1
      /\ UNCHANGED <<input, size, spans, joins, width>>
  BY DEF Return
<1>4. size \in Nat /\ n <= size * width
  BY <1>1 DEF LevelsIntact
<1>5. LevelsIntact'
  BY <1>3 DEF LevelsIntact, Block, Span, MinOf
<1>6. n # 0 => spans[1] = Span(0, n)
  <2> SUFFICES ASSUME n # 0 PROVE spans[1] = Span(0, n)
    OBVIOUS
  <2> HIDE DEF n
  <2>1. size = 1
    BY <1>1, <1>2, <1>3, <1>4
  <2>2. spans[1] = Span((1 - 1) * width, MinOf(1 * width, n))
    BY <1>3, <2>1 DEF LevelsIntact, Block, n
  <2>3. (1 - 1) * width = 0 /\ MinOf(1 * width, n) = n
    BY <1>1, <1>2, <1>4, <2>1 DEF MinOf
  <2> QED
    BY <2>2, <2>3
<1>7. n = 0 => input = <<>>
  OBVIOUS
<1>8. JoinsAreSplits'
  BY <1>3, <1>6, <1>7 DEF JoinsAreSplits, Span
<1> QED
  BY <1>5, <1>8

------------------------------------------------------------------------------
\* Every step of the call keeps the levels intact and joins only at splits.
LEMMA LevelsInductive ==
  LevelsIntact /\ JoinsAreSplits /\ [TreeNext]_treeVars => LevelsIntact' /\ JoinsAreSplits'
<1> SUFFICES ASSUME LevelsIntact, JoinsAreSplits, [TreeNext]_treeVars
             PROVE  LevelsIntact' /\ JoinsAreSplits'
  OBVIOUS
<1>1. CASE Return
  BY <1>1, ReturnStep
<1>2. CASE StartPass
  <2>1. /\ pc = "switch" /\ pc' = "pass" /\ size > 1 /\ rp' = 0 /\ wp' = 0
        /\ UNCHANGED <<input, size, spans, joins, width>>
    BY <1>2 DEF StartPass
  <2>2. Len(input) \in Nat
    BY InputsAssumption, SizesAreNaturals DEF LevelsIntact
  <2>3. size \in Nat /\ \A i \in 1..size : spans[i] = Block(width, i)
    BY <2>1, <2>2 DEF LevelsIntact
  <2>4. LevelsIntact'
    BY <2>1, <2>2, <2>3 DEF LevelsIntact, Block, Span, MinOf
  <2>5. JoinsAreSplits'
    BY <2>1 DEF JoinsAreSplits
  <2> QED
    BY <2>4, <2>5
<1>3. CASE Pair
  BY <1>3, PairStep
<1>4. CASE Carry
  BY <1>4, CarryStep
<1>5. CASE EndPass
  BY <1>5, EndPassStep
<1>6. CASE UNCHANGED treeVars
  BY <1>6 DEF treeVars, code, LevelsIntact, JoinsAreSplits, Block, Span, MinOf
<1> QED
  BY <1>1, <1>2, <1>3, <1>4, <1>5, <1>6 DEF TreeNext

\* HashFromByteSlicesIterative keeps the items of a level intact until they are
\* read, whatever the length of the list.
THEOREM LevelsAlwaysIntact == TreeSpec => []LevelsIntact
BY InitLevels, LevelsInductive, PTL DEF TreeSpec

\* HashFromByteSlicesIterative joins two items only where HashFromByteSlices
\* would split the leaves below them, and ends with one item above all leaves,
\* for lists of any length up to 2^24.
THEOREM JoinsAlwaysSplits == TreeSpec => []JoinsAreSplits
BY InitLevels, LevelsInductive, PTL DEF TreeSpec
==============================================================================
