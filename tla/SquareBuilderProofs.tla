------------------------- MODULE SquareBuilderProofs -------------------------
(***************************************************************************)
(* Proofs about SquareBuilder, for every share layout, square size,        *)
(* threshold and set of transactions: the builder's state is well typed,   *)
(* none of Export's defensive checks can fail, and every exported square   *)
(* is within maxSquareSize.                                                *)
(***************************************************************************)
EXTENDS SquareBuilder, CounterOpsProofs, CommitmentRulesProofs

MaxIndex == maxSquareSize * maxSquareSize

\* The largest share index is a natural that a uint32 can hold.
LEMMA MaxIndexType ==
  /\ maxSquareSize \in PowersOfTwo /\ MaxIndex \in Nat
  /\ \A n \in Nat : n <= MaxIndex => n % UintSize = n
<1>1. maxSquareSize \in PowersOfTwo
  BY BuilderAssumption DEF IsPowerOfTwo
<1>2. maxSquareSize \in Nat
  BY <1>1, PowersPositive
<1>3. MaxIndex \in Nat /\ MaxIndex < UintSize /\ UintSize \in Nat \ {0}
  BY <1>2, BuilderAssumption, ShareFormatAssumption DEF MaxIndex
<1>4. ASSUME NEW n \in Nat, n <= MaxIndex PROVE n % UintSize = n
  <2>1. n < UintSize
    BY <1>3, <1>4
  <2> QED
    BY <1>3, <2>1, SmallMod
<1> QED
  BY <1>1, <1>3, <1>4

------------------------------------------------------------------------------
(* The size of an index wrapper.                                           *)

\* A field is no shorter than a field with less in it.
LEMMA FieldSizeMonotone ==
  ASSUME NEW m \in Nat, NEW n \in Nat, m <= n
  PROVE  FieldSize(m) \in Nat /\ FieldSize(n) \in Nat /\ FieldSize(m) <= FieldSize(n)
<1>1. DelimLen(m) \in Nat /\ DelimLen(n) \in Nat /\ DelimLen(m) <= DelimLen(n)
  BY DelimLenType, DelimLenMonotone
<1> QED
  BY <1>1 DEF FieldSize

\* Indexes that are no larger take no more bytes.
LEMMA PackedSizeMonotone ==
  ASSUME NEW s \in Seq(Nat), NEW t \in Seq(Nat), Len(s) = Len(t),
         \A i \in 1..Len(s) : s[i] <= t[i]
  PROVE  PackedSize(s) \in Nat /\ PackedSize(t) \in Nat /\ PackedSize(s) <= PackedSize(t)
<1> DEFINE D == (1..Len(s)) \X (0..4)
           P(u) == {b \in D : b[2] = 0 \/ u[b[1]] >= VarintPower(b[2])}
<1>1. IsFiniteSet(D)
  <2>1. Len(s) \in Int /\ 1 \in Int /\ 0 \in Int /\ 4 \in Int
    OBVIOUS
  <2>2. IsFiniteSet(1..Len(s)) /\ IsFiniteSet(0..4)
    BY <2>1, FS_Interval, Zenon
  <2> QED
    BY <2>2, FS_Product
<1>2. P(s) \subseteq P(t)
  <2> SUFFICES ASSUME NEW b \in D, s[b[1]] >= VarintPower(b[2])
               PROVE  t[b[1]] >= VarintPower(b[2])
    OBVIOUS
  <2>1. b[1] \in 1..Len(s)
    OBVIOUS
  <2>2. s[b[1]] \in Nat /\ t[b[1]] \in Nat /\ s[b[1]] <= t[b[1]]
    BY <2>1
  <2>3. VarintPower(b[2]) \in Nat
    BY VarintPowerType
  <2> QED
    BY <2>2, <2>3
<1>3. IsFiniteSet(P(s)) /\ IsFiniteSet(P(t))
  BY <1>1, FS_Subset
<1>4. Cardinality(P(s)) <= Cardinality(P(t))
  BY <1>2, <1>3, FS_Subset
<1>5. Cardinality(P(s)) \in Nat /\ Cardinality(P(t)) \in Nat
  BY <1>3, FS_CardinalityType
<1> QED
  BY <1>4, <1>5 DEF PackedSize

WorstCase(iw) ==
  [tx |-> iw.tx, ShareIndexes |-> worstCaseShareIndexes(Len(iw.ShareIndexes))]

Bounded(indexes) == \A j \in 1..Len(indexes) : indexes[j] <= MaxIndex

\* The indexes a wrapper is counted with: as many as it has blobs, all the
\* largest index.
LEMMA WorstCaseType ==
  ASSUME NEW n \in Nat
  PROVE  /\ worstCaseShareIndexes(n) \in Seq(Nat)
         /\ Len(worstCaseShareIndexes(n)) = n
         /\ \A j \in 1..n : worstCaseShareIndexes(n)[j] = MaxIndex
         /\ Bounded(worstCaseShareIndexes(n))
<1>1. /\ worstCaseShareIndexes(n) \in Seq(Nat)
      /\ Len(worstCaseShareIndexes(n)) = n
      /\ \A j \in 1..n : worstCaseShareIndexes(n)[j] = MaxIndex
  <2>1. MaxIndex \in Nat /\ MaxIndex % UintSize = MaxIndex
    BY MaxIndexType
  <2>2. worstCaseShareIndexes(n) = [i \in 1..n |-> MaxIndex]
    BY <2>1 DEF worstCaseShareIndexes, MaxIndex
  <2> QED
    BY <2>1, <2>2
<1> QED
  BY <1>1, MaxIndexType DEF Bounded

\* A wrapper whose indexes lie in the largest square takes, in the compact
\* shares, no more than the wrapper it was counted as.
LEMMA WorstCaseIsWorst ==
  ASSUME NEW iw \in IndexWrapper, Bounded(iw.ShareIndexes)
  PROVE  /\ ProtoSize(iw) \in Nat
         /\ DelimitedLen(ProtoSize(iw)) \in Nat
         /\ DelimitedLen(ProtoSize(WorstCase(iw))) \in Nat
         /\ DelimitedLen(ProtoSize(iw)) <= DelimitedLen(ProtoSize(WorstCase(iw)))
<1> DEFINE s == iw.ShareIndexes
           t == worstCaseShareIndexes(Len(s))
<1>1. s \in Seq(Nat) /\ iw.tx \in Nat /\ Len(s) \in Nat
  BY DEF IndexWrapper
<1>2. t \in Seq(Nat) /\ Len(t) = Len(s) /\ \A i \in 1..Len(s) : s[i] <= t[i]
  BY <1>1, WorstCaseType DEF Bounded
<1>3. PackedSize(s) \in Nat /\ PackedSize(t) \in Nat /\ PackedSize(s) <= PackedSize(t)
  BY <1>1, <1>2, PackedSizeMonotone
<1>4. /\ FieldSize(PackedSize(s)) \in Nat /\ FieldSize(PackedSize(t)) \in Nat
      /\ FieldSize(PackedSize(s)) <= FieldSize(PackedSize(t))
  BY <1>3, FieldSizeMonotone
<1>5. FieldSize(iw.tx) \in Nat /\ FieldSize(4) \in Nat
  BY <1>1, FieldSizeMonotone
<1>6. /\ ProtoSize(iw) = FieldSize(iw.tx) + FieldSize(PackedSize(s)) + FieldSize(4)
      /\ ProtoSize(WorstCase(iw))
           = FieldSize(iw.tx) + FieldSize(PackedSize(t)) + FieldSize(4)
  BY DEF ProtoSize, WorstCase
<1>7. /\ ProtoSize(iw) \in Nat /\ ProtoSize(WorstCase(iw)) \in Nat
      /\ ProtoSize(iw) <= ProtoSize(WorstCase(iw))
  BY <1>4, <1>5, <1>6
<1>8. /\ DelimLen(ProtoSize(iw)) \in Nat /\ DelimLen(ProtoSize(WorstCase(iw))) \in Nat
      /\ DelimLen(ProtoSize(iw)) <= DelimLen(ProtoSize(WorstCase(iw)))
  BY <1>7, DelimLenType, DelimLenMonotone
<1> QED
  BY <1>7, <1>8 DEF DelimitedLen

------------------------------------------------------------------------------
(* Counters, elements and the sequences whose sums Export's loops compute. *)

CounterBytes(c) == BytesOf(c.shares, c.remainder)

GoodCounter(c) == c \in Counter /\ Normalised(c.shares, c.remainder)

\* The share count of a counter is that of the bytes it stands for.
LEMMA CounterSize ==
  ASSUME NEW c, GoodCounter(c)
  PROVE  /\ CounterBytes(c) \in Nat
         /\ Size(c) \in Nat
         /\ Size(c) = CompactSharesNeeded(CounterBytes(c))
<1>1. c.shares \in Nat /\ c.remainder \in Nat /\ Normalised(c.shares, c.remainder)
  BY DEF GoodCounter, Counter
<1>2. CounterBytes(c) \in Nat
  <2>1. CASE c.shares = 0
    BY <1>1, <2>1 DEF CounterBytes, BytesOf
  <2>2. CASE c.shares # 0
    <3>1. (c.shares - 1) * ContinuationCompactShareContentSize \in Nat
      BY <1>1, <2>2, ContentSizes
    <3> QED
      BY <1>1, <2>2, <3>1, ContentSizes DEF CounterBytes, BytesOf
  <2> QED
    BY <2>1, <2>2
<1>3. Size(c) = CompactSharesNeeded(CounterBytes(c))
  BY <1>1, SizeCorrect DEF Size, CounterBytes
<1> QED
  BY <1>1, <1>2, <1>3 DEF Size

\* Add counts the delimited unit, returns the growth in shares, and what
\* Revert restores has the size and the bytes from before.
LEMMA CounterAdd ==
  ASSUME NEW c, GoodCounter(c), NEW n \in Nat
  PROVE  LET d == Add(c, n)
         IN  /\ GoodCounter(d) /\ GoodCounter(Revert(d))
             /\ CounterBytes(d) = CounterBytes(c) + DelimitedLen(n)
             /\ CounterBytes(Revert(d)) = CounterBytes(c)
             /\ Size(Revert(d)) = Size(c)
             /\ AddDiff(d) = Size(d) - Size(c)
<1> DEFINE d == Add(c, n)
<1>1. /\ d \in Counter /\ Normalised(d.shares, d.remainder)
      /\ CounterBytes(d) = CounterBytes(c) + DelimitedLen(n)
      /\ d.lastShares = c.shares /\ d.lastRemainder = c.remainder
  BY AddCorrect DEF GoodCounter, CounterBytes
<1> HIDE DEF d
<1>2. Revert(d) \in Counter /\ Revert(d).shares = c.shares
      /\ Revert(d).remainder = c.remainder
  BY <1>1 DEF Revert, Counter
<1>3. AddDiff(d) = Size(d) - Size(c)
  BY <1>1 DEF AddDiff, Size, Counter, GoodCounter
<1> QED
  BY <1>1, <1>2, <1>3 DEF GoodCounter, CounterBytes, Size, d

GoodElement(e) ==
  /\ e \in Element
  /\ SubTreeWidth(e.NumShares, subtreeRootThreshold) \in PowersOfTwo
  /\ e.MaxPadding = SubTreeWidth(e.NumShares, subtreeRootThreshold) - 1
  /\ e.len # 0 => e.NumShares # 0

\* newElement allows a blob the padding its subtree width can ask for, and
\* gives a blob with data at least one share.
LEMMA NewElementGood ==
  ASSUME NEW blob \in Blob, NEW i \in Nat, NEW j \in Nat
  PROVE  GoodElement(newElement(blob, i, j))
<1> DEFINE n == SparseSharesNeeded(blob.len)
           F == FirstSparseShareContentSize
           C == ContinuationSparseShareContentSize
           e == newElement(blob, i, j)
<1>1. /\ blob.len \in Nat /\ blob.ns \in Nat /\ blob.version \in Nat
      /\ blob.len < UintSize /\ n <= LargestPowerOfTwo
  BY DEF Blob, TxNamespace, TailPaddingNamespace
<1>2. F \in Nat /\ C \in Nat \ {0}
  BY ShareFormatAssumption
     DEF FirstSparseShareContentSize, ContinuationSparseShareContentSize
<1>3. n \in Nat /\ (blob.len # 0 => n # 0)
  <2>1. n = IF blob.len = 0 THEN 0 ELSE IF blob.len <= F THEN 1
            ELSE 1 + (blob.len - F + C - 1) \div C
    BY DEF SparseSharesNeeded, SharesFor
  <2> HIDE DEF F, C, n
  <2>2. CASE blob.len <= F
    BY <2>1, <2>2
  <2>3. CASE blob.len > F
    <3>1. blob.len - F + C - 1 \in Nat
      BY <1>1, <1>2, <2>3
    <3>2. (blob.len - F + C - 1) \div C \in Nat
      BY <1>2, <3>1, DivMod
    <3> QED
      BY <1>1, <1>2, <2>1, <2>3, <3>2
  <2> QED
    BY <1>1, <1>2, <2>2, <2>3
<1> HIDE DEF n
<1>4. SubTreeWidth(n, subtreeRootThreshold) \in PowersOfTwo
  BY <1>1, <1>3, BuilderAssumption, SubTreeWidthType
<1>5. SubTreeWidth(n, subtreeRootThreshold) - 1 \in Nat
  <2>1. SubTreeWidth(n, subtreeRootThreshold) \in Nat \ {0}
    BY <1>4, PowersPositive
  <2> QED
    BY <2>1
<1>6. e = [ns |-> blob.ns, len |-> blob.len, version |-> blob.version,
           PfbIndex |-> i, BlobIndex |-> j, NumShares |-> n,
           MaxPadding |-> SubTreeWidth(n, subtreeRootThreshold) - 1]
  <2>1. blob.len % UintSize = blob.len
    BY <1>1, ShareFormatAssumption, SmallMod
  <2> QED
    BY <2>1 DEF newElement, n
<1> HIDE DEF e
<1>7. e \in Element
  BY <1>1, <1>3, <1>5, <1>6 DEF Element
<1>8. e.NumShares = n /\ e.len = blob.len
      /\ e.MaxPadding = SubTreeWidth(n, subtreeRootThreshold) - 1
  BY <1>6
<1>9. GoodElement(e)
  BY <1>3, <1>4, <1>7, <1>8 DEF GoodElement
<1> QED
  BY <1>9 DEF e

GoodElements(es) == \A i \in 1..Len(es) : GoodElement(es[i])

TxWeights(txs) == [i \in 1..Len(txs) |-> DelimitedLen(txs[i])]

PfbWeights(pfbs) ==
  [i \in 1..Len(pfbs) |-> DelimitedLen(ProtoSize(WorstCase(pfbs[i])))]

Offsets(es) == [i \in 1..Len(es) |-> maxShareOffset(es[i])]

\* A delimited unit has a natural length.
LEMMA DelimitedLenType == \A n \in Nat : DelimitedLen(n) \in Nat
BY DelimLenType DEF DelimitedLen

\* The delimited lengths of regular transactions are a sequence of naturals.
LEMMA TxWeightsType ==
  ASSUME NEW txs \in Seq(Nat)
  PROVE  TxWeights(txs) \in Seq(Nat) /\ Len(TxWeights(txs)) = Len(txs)
<1>1. \A i \in 1..Len(txs) : DelimitedLen(txs[i]) \in Nat
  <2>1. \A i \in 1..Len(txs) : txs[i] \in Nat
    OBVIOUS
  <2> QED
    BY <2>1, DelimitedLenType
<1>2. TxWeights(txs) \in [1..Len(txs) -> Nat]
  BY <1>1 DEF TxWeights
<1> QED
  <2>1. Len(txs) \in Nat
    OBVIOUS
  <2> QED
    BY <1>2, <2>1, SeqOfFunction

\* Appending a transaction appends its delimited length.
LEMMA TxWeightsAppend ==
  ASSUME NEW txs \in Seq(Nat), NEW n \in Nat
  PROVE  TxWeights(Append(txs, n)) = Append(TxWeights(txs), DelimitedLen(n))
BY DEF TxWeights

BoundedPfbs(pfbs) == \A i \in 1..Len(pfbs) : Bounded(pfbs[i].ShareIndexes)

\* Appending a wrapper keeps indexes bounded.
LEMMA BoundedPfbsAppend ==
  ASSUME NEW pfbs \in Seq(IndexWrapper), BoundedPfbs(pfbs),
         NEW iw \in IndexWrapper, Bounded(iw.ShareIndexes)
  PROVE  BoundedPfbs(Append(pfbs, iw))
<1> SUFFICES ASSUME NEW i \in 1..Len(Append(pfbs, iw))
             PROVE  Bounded(Append(pfbs, iw)[i].ShareIndexes)
  BY DEF BoundedPfbs
<1>1. CASE i \in 1..Len(pfbs)
  <2>1. Append(pfbs, iw)[i] = pfbs[i]
    BY <1>1
  <2> QED
    BY <1>1, <2>1 DEF BoundedPfbs
<1>2. CASE i \notin 1..Len(pfbs)
  <2>1. Append(pfbs, iw)[i] = iw
    BY <1>2
  <2> QED
    BY <2>1
<1> QED
  BY <1>1, <1>2

\* So are the delimited lengths of index wrappers with the largest indexes.
LEMMA PfbWeightsType ==
  ASSUME NEW pfbs \in Seq(IndexWrapper), BoundedPfbs(pfbs)
  PROVE  /\ PfbWeights(pfbs) \in Seq(Nat)
         /\ Len(PfbWeights(pfbs)) = Len(pfbs)
<1>1. \A i \in 1..Len(pfbs) : DelimitedLen(ProtoSize(WorstCase(pfbs[i]))) \in Nat
  BY WorstCaseIsWorst DEF BoundedPfbs
<1> QED
  BY <1>1 DEF PfbWeights

\* Appending a wrapper appends its largest delimited length.
LEMMA PfbWeightsAppend ==
  ASSUME NEW pfbs \in Seq(IndexWrapper), NEW iw \in IndexWrapper
  PROVE  PfbWeights(Append(pfbs, iw))
           = Append(PfbWeights(pfbs), DelimitedLen(ProtoSize(WorstCase(iw))))
BY DEF PfbWeights

\* What the elements can take at most is a sequence of naturals.
LEMMA OffsetsType ==
  ASSUME NEW es \in Seq(Element)
  PROVE  /\ Offsets(es) \in Seq(Nat)
         /\ Len(Offsets(es)) = Len(es)
         /\ \A i \in 1..Len(es) : Offsets(es)[i] = es[i].NumShares + es[i].MaxPadding
<1>1. \A i \in 1..Len(es) : maxShareOffset(es[i]) \in Nat
  <2>1. \A i \in 1..Len(es) : es[i] \in Element
    OBVIOUS
  <2>2. \A e \in Element : maxShareOffset(e) \in Nat
    BY DEF maxShareOffset, Element
  <2> QED
    BY <2>1, <2>2
<1>2. Offsets(es) \in [1..Len(es) -> Nat]
  BY <1>1 DEF Offsets
<1>3. Offsets(es) \in Seq(Nat) /\ Len(Offsets(es)) = Len(es)
  <2>1. Len(es) \in Nat
    OBVIOUS
  <2> QED
    BY <1>2, <2>1, SeqOfFunction
<1> QED
  BY <1>3 DEF Offsets, maxShareOffset

\* Appending an element appends what it can take.
LEMMA OffsetsAppend ==
  ASSUME NEW es \in Seq(Element), NEW e \in Element
  PROVE  Offsets(Append(es, e)) = Append(Offsets(es), maxShareOffset(e))
BY DEF Offsets

\* Appending the elements of a blob transaction appends what each can take.
LEMMA OffsetsConcat ==
  ASSUME NEW es \in Seq(Element), NEW fs \in Seq(Element)
  PROVE  Offsets(es \o fs) = Offsets(es) \o Offsets(fs)
BY DEF Offsets

\* Exchanging two neighbours, as sorting does, exchanges what they can take and
\* leaves well-formed elements well-formed.
LEMMA OffsetsSwap ==
  ASSUME NEW es \in Seq(Element), NEW k \in 1..(Len(es) - 1)
  PROVE  LET fs == [es EXCEPT ![k] = es[k + 1], ![k + 1] = es[k]]
         IN  /\ fs \in Seq(Element) /\ Len(fs) = Len(es)
             /\ GoodElements(es) => GoodElements(fs)
             /\ Offsets(fs) = [Offsets(es) EXCEPT ![k] = Offsets(es)[k + 1],
                                                  ![k + 1] = Offsets(es)[k]]
<1> DEFINE fs == [es EXCEPT ![k] = es[k + 1], ![k + 1] = es[k]]
           w == Offsets(es)
           v == [w EXCEPT ![k] = w[k + 1], ![k + 1] = w[k]]
<1>1. Len(es) \in Nat /\ k \in 1..Len(es) /\ k + 1 \in 1..Len(es)
  OBVIOUS
<1>2. fs \in Seq(Element) /\ Len(fs) = Len(es)
  OBVIOUS
<1>3. \A i \in 1..Len(es) :
        fs[i] = IF i = k THEN es[k + 1] ELSE IF i = k + 1 THEN es[k] ELSE es[i]
  OBVIOUS
<1>4. GoodElements(es) => GoodElements(fs)
  BY <1>1, <1>2, <1>3 DEF GoodElements
<1> HIDE DEF fs
<1>5. Offsets(fs) = [i \in 1..Len(es) |-> maxShareOffset(fs[i])]
  BY <1>2 DEF Offsets
<1>6. w = [i \in 1..Len(es) |-> maxShareOffset(es[i])]
  BY DEF Offsets
<1> HIDE DEF w
<1>7. v = [i \in 1..Len(es) |-> IF i = k + 1 THEN w[k]
                               ELSE IF i = k THEN w[k + 1] ELSE w[i]]
  BY SMTT(30), <1>1, <1>6
<1>8. \A i \in 1..Len(es) : maxShareOffset(fs[i]) =
        IF i = k + 1 THEN w[k] ELSE IF i = k THEN w[k + 1] ELSE w[i]
  BY <1>1, <1>3, <1>6
<1>9. Offsets(fs) = v
  BY <1>5, <1>7, <1>8
<1> QED
  BY <1>2, <1>4, <1>9 DEF fs, w

\* Recording an index of the square in a wrapper changes neither its type nor
\* what it was counted as.
LEMMA UpdateIndex ==
  ASSUME NEW pfbs \in Seq(IndexWrapper), BoundedPfbs(pfbs),
         NEW a \in Nat, NEW b \in Nat, NEW c \in Nat, c <= MaxIndex
  PROVE  LET new == [pfbs EXCEPT ![a].ShareIndexes[b] = c]
         IN  /\ new \in Seq(IndexWrapper) /\ Len(new) = Len(pfbs)
             /\ BoundedPfbs(new)
             /\ PfbWeights(new) = PfbWeights(pfbs)
<1> DEFINE new == [pfbs EXCEPT ![a].ShareIndexes[b] = c]
           indexes(i) == pfbs[i].ShareIndexes
           fresh == [indexes(a) EXCEPT ![b] = c]
           n == Len(pfbs)
<1>1. n \in Nat /\ \A i \in 1..n : pfbs[i] \in IndexWrapper
  OBVIOUS
<1>2. new = [i \in 1..n |-> IF i = a THEN [pfbs[a] EXCEPT !.ShareIndexes = fresh]
                            ELSE pfbs[i]]
  OBVIOUS
<1>3. ASSUME a \in 1..n
      PROVE  /\ fresh \in Seq(Nat) /\ Len(fresh) = Len(indexes(a))
             /\ Bounded(fresh)
  <2>1. indexes(a) \in Seq(Nat) /\ Bounded(indexes(a))
    BY <1>1, <1>3 DEF IndexWrapper, BoundedPfbs
  <2> HIDE DEF indexes
  <2>2. fresh \in Seq(Nat) /\ Len(fresh) = Len(indexes(a))
    BY <2>1, SeqExcept
  <2>3. \A j \in 1..Len(indexes(a)) : fresh[j] = IF j = b THEN c ELSE indexes(a)[j]
    BY <2>1
  <2> HIDE DEF fresh
  <2>4. \A j \in 1..Len(fresh) : fresh[j] <= MaxIndex
    BY <2>1, <2>2, <2>3 DEF Bounded
  <2> QED
    BY <2>2, <2>4 DEF Bounded
<1> HIDE DEF new, fresh, n
<1>4. ASSUME NEW i \in 1..n
      PROVE  /\ new[i] \in IndexWrapper /\ new[i].tx = pfbs[i].tx
             /\ Len(new[i].ShareIndexes) = Len(pfbs[i].ShareIndexes)
             /\ Bounded(new[i].ShareIndexes)
  <2>1. CASE i = a
    <3>1. new[i] = [pfbs[i] EXCEPT !.ShareIndexes = fresh]
      BY <1>2, <2>1
    <3>2. pfbs[i] \in IndexWrapper
      BY <1>1
    <3>3. /\ fresh \in Seq(Nat) /\ Len(fresh) = Len(pfbs[i].ShareIndexes)
          /\ Bounded(fresh)
      BY <1>3, <2>1
    <3>4. new[i].ShareIndexes = fresh /\ new[i].tx = pfbs[i].tx
          /\ new[i] \in IndexWrapper
      BY <3>1, <3>2, <3>3 DEF IndexWrapper
    <3> QED
      BY <3>3, <3>4
  <2>2. CASE i # a
    <3>1. new[i] = pfbs[i]
      BY <1>2, <2>2
    <3> QED
      BY <1>1, <3>1 DEF BoundedPfbs, n
  <2> QED
    BY <2>1, <2>2
<1>5. new \in Seq(IndexWrapper) /\ Len(new) = n
  <2>1. new \in [1..n -> IndexWrapper]
    BY <1>2, <1>4
  <2> QED
    BY <1>1, <2>1, SeqOfFunction
<1>6. BoundedPfbs(new)
  BY <1>4, <1>5 DEF BoundedPfbs
<1>7. \A i \in 1..n : WorstCase(new[i]) = WorstCase(pfbs[i])
  BY <1>4 DEF WorstCase
<1>8. PfbWeights(new) = PfbWeights(pfbs)
  BY <1>5, <1>7 DEF PfbWeights, n
<1> QED
  BY <1>5, <1>6, <1>8 DEF new, n

------------------------------------------------------------------------------
(* The inductive invariant.                                                *)

\* While AppendBlobTx runs, PfbCounter already counts a wrapper that may be
\* turned down; Revert gives the counter of the wrappers in b.Pfbs.
AcceptedPfbs == IF pc = "elements" THEN Revert(PfbCounter) ELSE PfbCounter

\* The counters count the transactions accepted, the wrappers with the largest
\* share indexes, and currentSize adds the largest extent of every blob.
CountersInv ==
  /\ GoodCounter(TxCounter)
  /\ HasSum(TxWeights(Txs), CounterBytes(TxCounter))
  /\ GoodCounter(AcceptedPfbs)
  /\ HasSum(PfbWeights(Pfbs), CounterBytes(AcceptedPfbs))

SizeInv ==
  /\ currentSize <= MaxIndex
  /\ HasSum(Offsets(Blobs), currentSize - Size(TxCounter) - Size(AcceptedPfbs))

ContentsInv == GoodElements(Blobs) /\ BoundedPfbs(Pfbs)

AppendInv ==
  pc = "elements" =>
    /\ GoodCounter(PfbCounter)
    /\ CounterBytes(PfbCounter)
         = CounterBytes(Revert(PfbCounter)) + DelimitedLen(ProtoSize(app.iw))
    /\ AddDiff(PfbCounter) = Size(PfbCounter) - Size(Revert(PfbCounter))
    /\ app.iw.ShareIndexes = worstCaseShareIndexes(Len(app.iw.ShareIndexes))
    /\ Bounded(app.iw.ShareIndexes)
    /\ GoodElements(app.elements)
    /\ HasSum(Offsets(app.elements), app.maxBlobShareCount)

\* Where the compact shares are expected to end.
Start == Size(TxCounter) + Size(PfbCounter)

SideInv ==
  pc \in {"sort", "txs", "blobs", "pfbs"} => exp.ss = BlobMinSquareSize(currentSize)

TxsInv ==
  pc \in {"sort", "txs"} =>
    /\ exp.k \in 0..Len(Txs)
    /\ PartialSum(TxWeights(Txs), exp.k, exp.txBytes, CounterBytes(TxCounter))
    /\ exp.pfbBytes = 0 /\ exp.shares = <<>>

\* The shares written so far lie between nonReservedStart and the cursor.
WrittenInv ==
  pc \in {"blobs", "pfbs"} =>
    /\ exp.txBytes = CounterBytes(TxCounter)
    /\ Start <= exp.nonReservedStart
    /\ exp.cursor = exp.nonReservedStart + Len(exp.shares)

\* The cursor has not passed the largest extent of the blobs placed.
PlaceInv ==
  pc = "blobs" =>
    /\ exp.k \in 0..Len(Blobs)
    /\ exp.cursor = exp.endOfLastBlob
    /\ exp.k = 0 => exp.shares = <<>>
    /\ exp.k # 0 => exp.shares # <<>>
    /\ exp.pfbBytes = 0
    /\ \E part \in Nat :
         /\ PartialSum(Offsets(Blobs), exp.k, part, currentSize - Start)
         /\ exp.cursor <= Start + part

\* The wrappers written so far take no more than they were counted as.
PfbsInv ==
  pc = "pfbs" =>
    /\ exp.k \in 0..Len(Pfbs)
    /\ exp.cursor <= currentSize
    /\ \E part \in Nat :
         /\ PartialSum(PfbWeights(Pfbs), exp.k, part, CounterBytes(PfbCounter))
         /\ exp.pfbBytes <= part

\* Only a builder that holds something gets past the first lines of Export.
NonemptyInv ==
  done \/ pc \in {"sort", "txs", "blobs", "pfbs"} =>
    Size(TxCounter) # 0 \/ Size(AcceptedPfbs) # 0

ExportInv == SideInv /\ TxsInv /\ WrittenInv /\ PlaceInv /\ PfbsInv

IInv ==
  /\ TypeOK /\ CountersInv /\ SizeInv /\ ContentsInv /\ AppendInv /\ ExportInv
  /\ NonemptyInv /\ NoDefensiveError /\ SquareFits

\* Before a call of Export its locals have their types.
LEMMA NoExportType ==
  NoExport \in [ss : Nat, k : Nat, txBytes : Nat, pfbBytes : Nat, cursor : Nat,
               nonReservedStart : Nat, endOfLastBlob : Nat, shares : Seq(Share)]
BY DEF NoExport

\* A new builder satisfies the invariant.
LEMMA InitIInv == Init => IInv
<1> SUFFICES ASSUME Init PROVE IInv
  OBVIOUS
<1> USE DEF Init
<1>1. TypeOK
  <2>1. BuilderType
    BY DEF BuilderType, Counter, NewCompactShareCounter
  <2>2. AppendType
    BY DEF AppendType, NoAppend, IndexWrapper
  <2>3. ExportType
    BY NoExportType DEF ExportType
  <2>4. ResultType
    BY DEF ResultType, EmptySquare, PlainShare, Share, TailPaddingNamespace
  <2>5. done \in BOOLEAN /\ pc \in Phases
    BY DEF Phases
  <2> QED
    BY <2>1, <2>2, <2>3, <2>4, <2>5 DEF TypeOK
<1>2. GoodCounter(NewCompactShareCounter) /\ CounterBytes(NewCompactShareCounter) = 0
      /\ Size(NewCompactShareCounter) = 0
  BY ContentSizes DEF GoodCounter, Counter, NewCompactShareCounter, Normalised,
                      CounterBytes, BytesOf, Size
<1>3. TxWeights(<<>>) = <<>> /\ PfbWeights(<<>>) = <<>> /\ Offsets(<<>>) = <<>>
  BY DEF TxWeights, PfbWeights, Offsets
<1>4. CountersInv
  BY <1>2, <1>3, SumEmpty DEF CountersInv, AcceptedPfbs
<1>5. SizeInv
  BY <1>2, <1>3, SumEmpty, MaxIndexType DEF SizeInv, AcceptedPfbs
<1>6. ContentsInv
  BY DEF ContentsInv, GoodElements, BoundedPfbs
<1>7. AppendInv /\ ExportInv /\ NonemptyInv /\ NoDefensiveError /\ SquareFits
  BY DEF NonemptyInv, AppendInv, ExportInv, SideInv, TxsInv, WrittenInv, PlaceInv, PfbsInv,
         NoDefensiveError, SquareFits, DefensiveErrors
<1> QED
  BY <1>1, <1>4, <1>5, <1>6, <1>7 DEF IInv

\* Nothing is asked of the locals of a call that is not running.
LEMMA ReadyInv == pc = "ready" => AppendInv /\ ExportInv
BY DEF AppendInv, ExportInv, SideInv, TxsInv, WrittenInv, PlaceInv, PfbsInv

\* AppendTx keeps the invariant: accepted, the unit enters the counter and
\* currentSize alike; turned down, Revert restores the counter.
LEMMA AppendTxIInv ==
  ASSUME IInv, NEW len \in TxLens, AppendTx(len)
  PROVE  IInv'
<1> DEFINE c == Add(TxCounter, len)
<1>0. len \in Nat
  BY BuilderAssumption
<1>1. /\ pc = "ready" /\ pc' = "ready" /\ PfbCounter' = PfbCounter
      /\ Pfbs' = Pfbs /\ Blobs' = Blobs /\ app' = app /\ exp' = exp
      /\ square' = square /\ err' = err
  BY DEF AppendTx, CanAppend, result
<1>2. /\ TypeOK /\ BuilderType /\ GoodCounter(TxCounter) /\ GoodCounter(PfbCounter)
      /\ Txs \in Seq(Nat) /\ Blobs \in Seq(Element) /\ currentSize \in Nat
  BY <1>1 DEF IInv, TypeOK, BuilderType, CountersInv, AcceptedPfbs
<1>3. /\ GoodCounter(c) /\ GoodCounter(Revert(c))
      /\ CounterBytes(c) = CounterBytes(TxCounter) + DelimitedLen(len)
      /\ CounterBytes(Revert(c)) = CounterBytes(TxCounter)
      /\ Size(Revert(c)) = Size(TxCounter)
      /\ AddDiff(c) = Size(c) - Size(TxCounter)
  BY <1>0, <1>2, CounterAdd
<1>4. Size(c) \in Nat /\ Size(TxCounter) \in Nat /\ Size(PfbCounter) \in Nat
  BY <1>2, <1>3, CounterSize
<1>5. AcceptedPfbs' = PfbCounter /\ AcceptedPfbs = PfbCounter
  BY SMTT(30), <1>1 DEF AcceptedPfbs
<1>6. (AppendInv /\ ExportInv)'
  BY <1>1, ReadyInv DEF AppendInv, ExportInv, SideInv, TxsInv, WrittenInv,
                        PlaceInv, PfbsInv
<1>7. (ContentsInv /\ NoDefensiveError)'
  BY <1>1 DEF IInv, ContentsInv, NoDefensiveError
<1>8. CASE canFit(AddDiff(c))
  <2>1. /\ TxCounter' = c /\ Txs' = Append(Txs, len)
        /\ currentSize' = currentSize + AddDiff(c) /\ done' = FALSE
    BY <1>8 DEF AppendTx
  <2> HIDE DEF c
  <2>2. HasSum(TxWeights(Txs)', CounterBytes(c))
    <3>1. TxWeights(Txs)' = Append(TxWeights(Txs), DelimitedLen(len))
      BY <1>0, <1>2, <2>1, TxWeightsAppend
    <3>2. TxWeights(Txs) \in Seq(Nat) /\ DelimitedLen(len) \in Nat
      BY <1>0, <1>2, TxWeightsType, DelimitedLenType
    <3>3. HasSum(TxWeights(Txs), CounterBytes(TxCounter))
      BY DEF IInv, CountersInv
    <3> QED
      BY <1>3, <3>1, <3>2, <3>3, SumAppend
  <2>3. CountersInv'
    BY <1>1, <1>3, <1>5, <2>1, <2>2 DEF IInv, CountersInv
  <2>4. currentSize + AddDiff(c) <= MaxIndex
    BY <1>8 DEF canFit, MaxIndex
  <2>5. HasSum(Offsets(Blobs), currentSize - Size(TxCounter) - Size(PfbCounter))
    BY <1>5 DEF IInv, SizeInv
  <2>6. currentSize - Size(TxCounter) - Size(PfbCounter) \in Nat
    BY <1>2, <2>5, OffsetsType, SumType
  <2>7. /\ currentSize' - Size(c) - Size(PfbCounter)
             = currentSize - Size(TxCounter) - Size(PfbCounter)
        /\ currentSize' \in Nat
    BY SMTT(30), <1>2, <1>3, <1>4, <2>1, <2>6
  <2>8. SizeInv'
    BY <1>1, <1>5, <2>1, <2>4, <2>5, <2>7 DEF SizeInv, MaxIndex
  <2>9. TypeOK'
    <3>1. BuilderType'
      BY <1>0, <1>1, <1>2, <1>3, <2>1, <2>7 DEF BuilderType, GoodCounter
    <3>2. (AppendType /\ ExportType /\ ResultType)' /\ pc' \in Phases
      BY <1>1, <1>2 DEF TypeOK, AppendType, ExportType, ResultType
    <3> QED
      BY <2>1, <3>1, <3>2 DEF TypeOK
  <2>10. (SquareFits /\ NonemptyInv)'
    BY <1>1, <2>1 DEF SquareFits, NonemptyInv
  <2> QED
    BY <1>6, <1>7, <2>3, <2>8, <2>9, <2>10 DEF IInv
<1>9. CASE ~canFit(AddDiff(c))
  <2>1. /\ TxCounter' = Revert(c) /\ Txs' = Txs
        /\ currentSize' = currentSize /\ done' = done
    BY <1>9 DEF AppendTx
  <2> HIDE DEF c
  <2>2. CountersInv'
    BY <1>1, <1>3, <1>5, <2>1 DEF IInv, CountersInv
  <2>3. SizeInv'
    BY <1>1, <1>3, <1>5, <2>1 DEF IInv, SizeInv, MaxIndex
  <2>4. TypeOK'
    <3>1. BuilderType'
      BY <1>1, <1>2, <1>3, <2>1 DEF BuilderType, GoodCounter
    <3>2. (AppendType /\ ExportType /\ ResultType)' /\ pc' \in Phases
      BY <1>1, <1>2 DEF TypeOK, AppendType, ExportType, ResultType
    <3> QED
      BY <1>2, <2>1, <3>1, <3>2 DEF TypeOK
  <2>5. (SquareFits /\ NonemptyInv)'
    BY <1>1, <1>3, <1>5, <2>1 DEF IInv, SquareFits, NonemptyInv
  <2> QED
    BY <1>6, <1>7, <2>2, <2>3, <2>4, <2>5 DEF IInv
<1> QED
  BY <1>8, <1>9

\* Counting the wrapper leaves, behind Revert, the counter of b.Pfbs.
LEMMA AppendBlobTxIInv ==
  ASSUME IInv, NEW btx \in BlobTxs, AppendBlobTx(btx)
  PROVE  IInv'
<1> DEFINE n == Len(btx.blobs)
           iw == [tx |-> btx.tx, ShareIndexes |-> worstCaseShareIndexes(n)]
           d == Add(PfbCounter, ProtoSize(iw))
<1>1. /\ pc = "ready" /\ pc' = "elements" /\ PfbCounter' = d
      /\ app' = [iw |-> iw, blobs |-> btx.blobs, elements |-> <<>>,
                 maxBlobShareCount |-> 0]
      /\ Txs' = Txs /\ Pfbs' = Pfbs /\ Blobs' = Blobs /\ TxCounter' = TxCounter
      /\ currentSize' = currentSize /\ done' = done /\ exp' = exp
      /\ square' = square /\ err' = err
  BY DEF AppendBlobTx, CanAppend, contents, result
<1>2. /\ TypeOK /\ BuilderType /\ GoodCounter(PfbCounter)
      /\ AcceptedPfbs = PfbCounter
  BY <1>1 DEF IInv, TypeOK, CountersInv, AcceptedPfbs
<1>3. btx.tx \in Nat /\ btx.blobs \in Seq(Blob) /\ n \in Nat
  BY BuilderAssumption
<1>4. /\ iw \in IndexWrapper /\ Bounded(iw.ShareIndexes) /\ Len(iw.ShareIndexes) = n
      /\ iw.ShareIndexes = worstCaseShareIndexes(n)
  BY <1>3, WorstCaseType DEF IndexWrapper
<1> HIDE DEF n, iw
<1>5. ProtoSize(iw) \in Nat
  BY <1>4, WorstCaseIsWorst
<1>6. /\ GoodCounter(d) /\ GoodCounter(Revert(d))
      /\ CounterBytes(d) = CounterBytes(PfbCounter) + DelimitedLen(ProtoSize(iw))
      /\ CounterBytes(Revert(d)) = CounterBytes(PfbCounter)
      /\ Size(Revert(d)) = Size(PfbCounter)
      /\ AddDiff(d) = Size(d) - Size(PfbCounter)
  BY <1>2, <1>5, CounterAdd
<1> HIDE DEF d
<1>7. AcceptedPfbs' = Revert(d)
  BY <1>1 DEF AcceptedPfbs
<1>8. app'.iw = iw /\ app'.blobs = btx.blobs /\ app'.elements = <<>>
      /\ app'.maxBlobShareCount = 0
  BY <1>1
<1>9. TypeOK'
  <2>1. BuilderType'
    BY <1>1, <1>2, <1>6 DEF BuilderType, GoodCounter
  <2>2. AppendType'
    <3>1. <<>> \in Seq(Element)
      OBVIOUS
    <3> QED
      BY <1>1, <1>3, <1>4, <3>1 DEF AppendType
  <2>3. (ExportType /\ ResultType)' /\ pc' \in Phases
    BY <1>1, <1>2 DEF TypeOK, ExportType, ResultType, Phases
  <2> QED
    BY <1>1, <1>2, <2>1, <2>2, <2>3 DEF TypeOK
<1>10. CountersInv'
  BY <1>1, <1>2, <1>6, <1>7 DEF IInv, CountersInv
<1>11. SizeInv'
  BY <1>1, <1>2, <1>6, <1>7 DEF IInv, SizeInv, MaxIndex
<1>12. AppendInv'
  <2>1. Offsets(<<>>) = <<>>
    BY DEF Offsets
  <2>2. GoodElements(<<>>)
    BY DEF GoodElements
  <2>3. HasSum(Offsets(app.elements), app.maxBlobShareCount)'
    BY <1>8, <2>1, SumEmpty
  <2>4. GoodElements(app.elements)' /\ Bounded(app.iw.ShareIndexes)'
    BY <1>4, <1>8, <2>2
  <2>5. (app.iw.ShareIndexes = worstCaseShareIndexes(Len(app.iw.ShareIndexes)))'
    BY <1>4, <1>8
  <2>6. /\ GoodCounter(PfbCounter)'
        /\ (AddDiff(PfbCounter) = Size(PfbCounter) - Size(Revert(PfbCounter)))'
    BY <1>1, <1>6
  <2>7. (CounterBytes(PfbCounter) = CounterBytes(Revert(PfbCounter))
                                     + DelimitedLen(ProtoSize(app.iw)))'
    BY SMTT(30), <1>1, <1>6, <1>8
  <2> QED
    BY <2>3, <2>4, <2>5, <2>6, <2>7 DEF AppendInv
<1>13. ExportInv'
  BY <1>1 DEF ExportInv, SideInv, TxsInv, WrittenInv, PlaceInv, PfbsInv
<1>14. (ContentsInv /\ NoDefensiveError /\ SquareFits)'
  BY <1>1 DEF IInv, ContentsInv, NoDefensiveError, SquareFits
<1>15. NonemptyInv'
  BY <1>1, <1>2, <1>6, <1>7 DEF IInv, NonemptyInv
<1> QED
  BY <1>15, <1>9, <1>10, <1>11, <1>12, <1>13, <1>14 DEF IInv

\* One turn of AppendBlobTx's loop adds an element and its largest extent.
LEMMA AddElementIInv ==
  ASSUME IInv, AddElement
  PROVE  IInv'
<1> DEFINE idx == Len(app.elements) + 1
           e == newElement(app.blobs[idx], Len(Pfbs) + 1, idx)
<1>1. /\ pc = "elements" /\ pc' = "elements" /\ idx <= Len(app.blobs)
      /\ app' = [app EXCEPT !.elements = Append(@, e),
                            !.maxBlobShareCount = @ + maxShareOffset(e)]
      /\ PfbCounter' = PfbCounter
      /\ Txs' = Txs /\ Pfbs' = Pfbs /\ Blobs' = Blobs /\ TxCounter' = TxCounter
      /\ currentSize' = currentSize /\ done' = done /\ exp' = exp
      /\ square' = square /\ err' = err
  BY DEF AddElement, builder, contents, result
<1>2. /\ TypeOK /\ BuilderType /\ AppendType /\ AppendInv
  BY DEF IInv, TypeOK
<1>3. /\ app.blobs \in Seq(Blob) /\ app.elements \in Seq(Element)
      /\ app.iw \in IndexWrapper /\ app.maxBlobShareCount \in Nat
      /\ Pfbs \in Seq(IndexWrapper)
  BY <1>2 DEF AppendType, BuilderType
<1>4. app.blobs[idx] \in Blob /\ Len(Pfbs) + 1 \in Nat /\ idx \in Nat
  BY <1>1, <1>3
<1>5. GoodElement(e) /\ e \in Element /\ maxShareOffset(e) \in Nat
  <2>1. GoodElement(e)
    BY <1>4, NewElementGood
  <2> HIDE DEF e
  <2> QED
    BY <2>1 DEF GoodElement, Element, maxShareOffset
<1> HIDE DEF e, idx
<1>6. /\ app'.iw = app.iw /\ app'.blobs = app.blobs
      /\ app'.elements = Append(app.elements, e)
      /\ app'.maxBlobShareCount = app.maxBlobShareCount + maxShareOffset(e)
  BY <1>1, <1>2 DEF AppendType
<1>7. AcceptedPfbs' = AcceptedPfbs
  BY <1>1 DEF AcceptedPfbs
<1>8. TypeOK'
  <2>1. AppendType'
    <3>1. Append(app.elements, e) \in Seq(Element)
      BY <1>3, <1>5
    <3>2. app.maxBlobShareCount + maxShareOffset(e) \in Nat
      BY <1>3, <1>5
    <3> QED
      BY <1>1, <1>2, <3>1, <3>2 DEF AppendType
  <2>2. (BuilderType /\ ExportType /\ ResultType)' /\ pc' \in Phases
    BY <1>1, <1>2 DEF TypeOK, BuilderType, ExportType, ResultType
  <2> QED
    BY <1>1, <1>2, <2>1, <2>2 DEF TypeOK
<1>9. (CountersInv /\ SizeInv)'
  BY <1>1, <1>7 DEF IInv, CountersInv, SizeInv, MaxIndex
<1>10. GoodElements(app.elements)'
  BY <1>1, <1>2, <1>3, <1>5, <1>6 DEF AppendInv, GoodElements
<1>11. HasSum(Offsets(app.elements), app.maxBlobShareCount)'
  <2>1. Offsets(app.elements)' = Append(Offsets(app.elements), maxShareOffset(e))
    BY <1>3, <1>5, <1>6, OffsetsAppend
  <2>2. HasSum(Offsets(app.elements), app.maxBlobShareCount)
    BY <1>1, <1>2 DEF AppendInv
  <2>3. Offsets(app.elements) \in Seq(Nat)
    BY <1>3, OffsetsType
  <2> QED
    BY <1>5, <1>6, <2>1, <2>2, <2>3, SumAppend
<1>12. AppendInv'
  BY <1>1, <1>2, <1>6, <1>10, <1>11 DEF AppendInv
<1>13. ExportInv'
  BY <1>1 DEF ExportInv, SideInv, TxsInv, WrittenInv, PlaceInv, PfbsInv
<1>14. (ContentsInv /\ NoDefensiveError /\ SquareFits)'
  BY <1>1 DEF IInv, ContentsInv, NoDefensiveError, SquareFits
<1>15. NonemptyInv'
  BY <1>1, <1>7 DEF IInv, NonemptyInv
<1> QED
  BY <1>15, <1>8, <1>9, <1>12, <1>13, <1>14 DEF IInv

\* The end of AppendBlobTx: accepted, wrapper and elements enter the builder
\* with what they were counted as; turned down, Revert restores the counter.
LEMMA FinishBlobTxIInv ==
  ASSUME IInv, FinishBlobTx
  PROVE  IInv'
<1> DEFINE shareNum == AddDiff(PfbCounter) + app.maxBlobShareCount
<1>1. /\ pc = "elements" /\ pc' = "ready" /\ app' = NoAppend
      /\ Txs' = Txs /\ TxCounter' = TxCounter /\ exp' = exp
      /\ square' = square /\ err' = err
  BY DEF FinishBlobTx, result
<1>2. TypeOK /\ BuilderType /\ AppendType
  BY DEF IInv, TypeOK
<1>3. /\ Pfbs \in Seq(IndexWrapper) /\ Blobs \in Seq(Element) /\ currentSize \in Nat
      /\ app.iw \in IndexWrapper /\ app.elements \in Seq(Element)
      /\ app.maxBlobShareCount \in Nat
  BY <1>2 DEF BuilderType, AppendType
<1>4. /\ AcceptedPfbs = Revert(PfbCounter) /\ AcceptedPfbs' = PfbCounter'
      /\ GoodCounter(TxCounter) /\ GoodCounter(Revert(PfbCounter))
      /\ HasSum(TxWeights(Txs), CounterBytes(TxCounter))
      /\ HasSum(PfbWeights(Pfbs), CounterBytes(Revert(PfbCounter)))
  BY <1>1 DEF IInv, CountersInv, AcceptedPfbs
<1>5. /\ GoodCounter(PfbCounter)
      /\ CounterBytes(PfbCounter)
           = CounterBytes(Revert(PfbCounter)) + DelimitedLen(ProtoSize(app.iw))
      /\ AddDiff(PfbCounter) = Size(PfbCounter) - Size(Revert(PfbCounter))
      /\ app.iw.ShareIndexes = worstCaseShareIndexes(Len(app.iw.ShareIndexes))
      /\ Bounded(app.iw.ShareIndexes)
      /\ GoodElements(app.elements)
      /\ HasSum(Offsets(app.elements), app.maxBlobShareCount)
  BY <1>1 DEF IInv, AppendInv
<1>6. /\ Size(PfbCounter) \in Nat /\ Size(Revert(PfbCounter)) \in Nat
      /\ Size(TxCounter) \in Nat
  BY SMTT(30), <1>4, <1>5, CounterSize
<1>7. (AppendInv /\ ExportInv)'
  BY <1>1 DEF AppendInv, ExportInv, SideInv, TxsInv, WrittenInv, PlaceInv, PfbsInv
<1>8. NoDefensiveError'
  BY <1>1 DEF IInv, NoDefensiveError
<1>9. (AppendType /\ ExportType /\ ResultType)' /\ pc' \in Phases
  <2>1. AppendType'
    BY <1>1 DEF AppendType, NoAppend, IndexWrapper
  <2> QED
    BY SMTT(30), <1>1, <1>2, <2>1 DEF TypeOK, ExportType, ResultType, Phases
<1>10. CASE canFit(shareNum)
  <2>1. /\ Blobs' = Blobs \o app.elements /\ Pfbs' = Append(Pfbs, app.iw)
        /\ currentSize' = currentSize + shareNum /\ done' = FALSE
        /\ PfbCounter' = PfbCounter
    BY <1>10 DEF FinishBlobTx
  <2>2. BoundedPfbs(Pfbs) /\ GoodElements(Blobs)
    BY DEF IInv, ContentsInv
  <2>3. HasSum(PfbWeights(Pfbs'), CounterBytes(PfbCounter))
    <3>1. WorstCase(app.iw) = app.iw
      BY <1>3, <1>5 DEF WorstCase, IndexWrapper
    <3>2. PfbWeights(Pfbs') = Append(PfbWeights(Pfbs), DelimitedLen(ProtoSize(app.iw)))
      BY <1>3, <2>1, <3>1, PfbWeightsAppend
    <3>3. PfbWeights(Pfbs) \in Seq(Nat)
      BY <1>3, <2>2, PfbWeightsType
    <3>4. DelimitedLen(ProtoSize(app.iw)) \in Nat
      BY <1>3, <1>5, WorstCaseIsWorst
    <3> QED
      BY SMTT(30), <1>4, <1>5, <3>2, <3>3, <3>4, SumAppend
  <2>4. CountersInv'
    BY SMTT(30), <1>1, <1>4, <1>5, <2>1, <2>3 DEF CountersInv
  <2> DEFINE taken == currentSize - Size(TxCounter) - Size(Revert(PfbCounter))
  <2>5. HasSum(Offsets(Blobs), taken) /\ taken \in Nat
    <3>1. HasSum(Offsets(Blobs), taken)
      BY <1>4 DEF IInv, SizeInv
    <3> QED
      BY <1>3, <3>1, OffsetsType, SumType
  <2>6. HasSum(Offsets(Blobs'), taken + app.maxBlobShareCount)
    <3>1. Offsets(Blobs') = Offsets(Blobs) \o Offsets(app.elements)
      BY SMTT(30), <1>3, <2>1, OffsetsConcat
    <3>2. Offsets(Blobs) \in Seq(Nat) /\ Offsets(app.elements) \in Seq(Nat)
      BY <1>3, OffsetsType
    <3> QED
      BY <1>5, <2>5, <3>1, <3>2, SumConcat
  <2>7. /\ currentSize' - Size(TxCounter) - Size(PfbCounter)
             = taken + app.maxBlobShareCount
        /\ currentSize' \in Nat
    <3>1. currentSize' = currentSize + (Size(PfbCounter) - Size(Revert(PfbCounter))
                                         + app.maxBlobShareCount)
      BY <1>5, <2>1
    <3>2. \A c, t, p, r, m \in Nat : c - t - r \in Nat =>
            LET n == c + (p - r + m)
            IN  n - t - p = (c - t - r) + m /\ n \in Nat
      OBVIOUS
    <3>3. currentSize \in Nat /\ app.maxBlobShareCount \in Nat /\ taken \in Nat
      BY <1>3, <2>5
    <3> QED
      BY <1>6, <3>1, <3>2, <3>3
  <2>8. currentSize' <= MaxIndex
    BY <1>10, <2>1 DEF canFit, MaxIndex
  <2>9. SizeInv'
    BY <1>1, <1>4, <2>1, <2>6, <2>7, <2>8 DEF SizeInv, MaxIndex
  <2>10. BoundedPfbs(Pfbs')
    BY SMTT(30), <1>3, <1>5, <2>1, <2>2, BoundedPfbsAppend
  <2>11. GoodElements(Blobs')
    BY <1>3, <1>5, <2>1, <2>2 DEF GoodElements
  <2>12. BuilderType'
    <3>1. Blobs' \in Seq(Element) /\ Pfbs' \in Seq(IndexWrapper)
      BY <1>3, <2>1
    <3> QED
      BY <1>1, <1>2, <2>1, <2>7, <3>1 DEF BuilderType
  <2>13. TypeOK'
    BY <1>9, <2>1, <2>12 DEF TypeOK
  <2>14. (SquareFits /\ NonemptyInv)'
    BY <1>1, <2>1 DEF SquareFits, NonemptyInv
  <2> QED
    BY SMTT(30), <1>7, <1>8, <2>4, <2>9, <2>10, <2>11, <2>13, <2>14 DEF IInv, ContentsInv
<1>11. CASE ~canFit(shareNum)
  <2>1. /\ Blobs' = Blobs /\ Pfbs' = Pfbs /\ currentSize' = currentSize
        /\ done' = done /\ PfbCounter' = Revert(PfbCounter)
    BY <1>11 DEF FinishBlobTx
  <2>2. CountersInv'
    BY <1>1, <1>4, <2>1 DEF CountersInv
  <2>3. SizeInv'
    BY <1>1, <1>4, <2>1 DEF IInv, SizeInv, MaxIndex
  <2>4. (ContentsInv /\ SquareFits /\ NonemptyInv)'
    BY <1>1, <1>4, <2>1 DEF IInv, ContentsInv, SquareFits, NonemptyInv
  <2>5. BuilderType'
    BY <1>1, <1>2, <1>4, <2>1 DEF BuilderType, GoodCounter
  <2>6. TypeOK'
    BY <1>2, <1>9, <2>1, <2>5 DEF TypeOK
  <2> QED
    BY <1>7, <1>8, <2>2, <2>3, <2>4, <2>6 DEF IInv
<1> QED
  BY <1>10, <1>11

------------------------------------------------------------------------------
(* The steps of Export.                                                    *)

\* What a step of Export that leaves the builder alone has to show.
LEMMA ExportFrame ==
  ASSUME IInv, UNCHANGED builder, UNCHANGED app, UNCHANGED result,
         pc # "elements", pc' # "elements", pc' \in Phases,
         ExportType', ExportInv',
         pc = "ready" => Size(TxCounter) # 0 \/ Size(PfbCounter) # 0
  PROVE  IInv'
<1>1. /\ Txs' = Txs /\ Pfbs' = Pfbs /\ Blobs' = Blobs /\ TxCounter' = TxCounter
      /\ PfbCounter' = PfbCounter /\ currentSize' = currentSize /\ done' = done
      /\ app' = app /\ square' = square /\ err' = err
  BY DEF builder, contents, result
<1>2. AcceptedPfbs' = AcceptedPfbs
  BY <1>1 DEF AcceptedPfbs
<1>3. (BuilderType /\ AppendType /\ ResultType)'
  BY <1>1 DEF IInv, TypeOK, BuilderType, AppendType, ResultType
<1>4. TypeOK'
  BY <1>1, <1>3 DEF IInv, TypeOK
<1>5. (CountersInv /\ SizeInv /\ ContentsInv)'
  BY <1>1, <1>2 DEF IInv, CountersInv, SizeInv, ContentsInv, MaxIndex
<1>6. AppendInv'
  BY DEF AppendInv
<1>7. (NoDefensiveError /\ SquareFits)'
  BY <1>1 DEF IInv, NoDefensiveError, SquareFits
<1>8. NonemptyInv'
  <2>1. CASE pc = "ready"
    BY <1>1, <2>1 DEF NonemptyInv, AcceptedPfbs
  <2>2. CASE pc # "ready"
    BY <1>1, <1>2, <2>2 DEF IInv, TypeOK, NonemptyInv, Phases
  <2> QED
    BY <2>1, <2>2
<1> QED
  BY <1>4, <1>5, <1>6, <1>7, <1>8 DEF IInv

\* The largest square is large enough for currentSize, so the square Export
\* asks for is no larger.
LEMMA SideCorrect ==
  ASSUME IInv
  PROVE  LET side == BlobMinSquareSize(currentSize)
         IN  /\ side \in PowersOfTwo /\ side \in Nat /\ side <= maxSquareSize
             /\ currentSize <= side * side
<1>1. currentSize \in Nat /\ currentSize <= maxSquareSize * maxSquareSize
  BY DEF IInv, TypeOK, BuilderType, SizeInv, MaxIndex
<1>2. maxSquareSize \in PowersOfTwo
  BY MaxIndexType
<1> DEFINE side == BlobMinSquareSize(currentSize)
<1>3. side \in PowersOfTwo /\ currentSize <= side * side /\ side <= maxSquareSize
  BY <1>1, <1>2, BlobMinSquareSizeCorrect
<1>4. side \in Nat
  BY <1>3, PowersPositive
<1> QED
  BY <1>3, <1>4

\* Export of an empty builder returns the empty square and changes nothing: an
\* empty builder is never done, because it has accepted no transaction.
LEMMA ExportEmptyIInv ==
  ASSUME IInv, ExportEmpty
  PROVE  IInv'
<1>1. /\ pc = "ready" /\ pc' = "ready"
      /\ Txs' = Txs /\ Pfbs' = Pfbs /\ Blobs' = Blobs /\ TxCounter' = TxCounter
      /\ PfbCounter' = PfbCounter /\ currentSize' = currentSize /\ done' = done
      /\ app' = app /\ exp' = exp /\ square' = EmptySquare /\ err' = "none"
  BY DEF ExportEmpty, builder, contents
<1>2. AcceptedPfbs' = AcceptedPfbs
  BY <1>1 DEF AcceptedPfbs
<1>3. (BuilderType /\ AppendType /\ ExportType)' /\ pc' \in Phases
  BY <1>1 DEF IInv, TypeOK, BuilderType, AppendType, ExportType
<1>4. ResultType'
  BY <1>1 DEF ResultType, EmptySquare, PlainShare, Share, TailPaddingNamespace
<1>5. TypeOK'
  BY <1>1, <1>3, <1>4 DEF IInv, TypeOK
<1>6. (CountersInv /\ SizeInv /\ ContentsInv)'
  BY SMTT(30), <1>1, <1>2 DEF IInv, CountersInv, SizeInv, ContentsInv, MaxIndex
<1>7. (AppendInv /\ ExportInv)'
  BY <1>1 DEF AppendInv, ExportInv, SideInv, TxsInv, WrittenInv, PlaceInv, PfbsInv
<1>8. NoDefensiveError'
  BY <1>1 DEF NoDefensiveError, DefensiveErrors
<1>9. done = FALSE
  BY <1>1 DEF ExportEmpty, IsEmpty, IInv, TypeOK, NonemptyInv, AcceptedPfbs
<1>10. (NonemptyInv /\ SquareFits)'
  BY <1>1, <1>9 DEF NonemptyInv, SquareFits
<1> QED
  BY <1>5, <1>6, <1>7, <1>8, <1>10 DEF IInv

\* Export begins with nothing written.
LEMMA StartExportIInv ==
  ASSUME IInv, StartExport
  PROVE  IInv'
<1>1. /\ pc = "ready" /\ pc' = "sort" /\ UNCHANGED <<builder, app, result>>
      /\ exp' = [NoExport EXCEPT !.ss = BlobMinSquareSize(currentSize)]
      /\ Size(TxCounter) # 0 \/ Size(PfbCounter) # 0
  BY DEF StartExport, IsEmpty
<1>2. Txs' = Txs /\ TxCounter' = TxCounter /\ currentSize' = currentSize
  BY <1>1 DEF builder, contents
<1>3. BlobMinSquareSize(currentSize) \in Nat
  BY SideCorrect
<1>4. ExportType'
  BY SMTT(30), <1>1, <1>3, NoExportType DEF ExportType
<1>5. /\ exp'.ss = BlobMinSquareSize(currentSize) /\ exp'.k = 0 /\ exp'.txBytes = 0
      /\ exp'.pfbBytes = 0 /\ exp'.shares = <<>>
  BY <1>1 DEF NoExport
<1>6. TxsInv'
  <2>1. HasSum(TxWeights(Txs), CounterBytes(TxCounter)) /\ Txs \in Seq(Nat)
    BY DEF IInv, CountersInv, TypeOK, BuilderType
  <2>2. exp'.k \in 0..Len(Txs')
    BY <1>2, <1>5, <2>1
  <2>3. PartialSum(TxWeights(Txs), exp.k, exp.txBytes, CounterBytes(TxCounter))'
    BY <1>2, <1>5, <2>1 DEF HasSum
  <2> QED
    BY <1>5, <2>2, <2>3 DEF TxsInv
<1>7. ExportInv'
  BY <1>1, <1>2, <1>5, <1>6 DEF ExportInv, SideInv, WrittenInv, PlaceInv, PfbsInv
<1> QED
  BY <1>1, <1>4, <1>7, ExportFrame DEF Phases

\* A step of the sort keeps the elements and the sum of their extents.
LEMMA SortStepIInv ==
  ASSUME IInv, SortStep
  PROVE  IInv'
<1>1. PICK i \in 1..(Len(Blobs) - 1) :
        Blobs' = [Blobs EXCEPT ![i] = Blobs[i + 1], ![i + 1] = Blobs[i]]
  BY DEF SortStep
<1>2. /\ pc = "sort" /\ pc' = "sort"
      /\ Txs' = Txs /\ Pfbs' = Pfbs /\ TxCounter' = TxCounter
      /\ PfbCounter' = PfbCounter /\ currentSize' = currentSize /\ done' = done
      /\ app' = app /\ exp' = exp /\ square' = square /\ err' = err
  BY DEF SortStep, result
<1>3. TypeOK /\ BuilderType /\ Blobs \in Seq(Element) /\ GoodElements(Blobs)
  BY DEF IInv, TypeOK, BuilderType, ContentsInv
<1>4. AcceptedPfbs' = AcceptedPfbs
  BY <1>2 DEF AcceptedPfbs
<1>5. /\ Blobs' \in Seq(Element) /\ GoodElements(Blobs')
      /\ Offsets(Blobs') = [Offsets(Blobs) EXCEPT ![i] = Offsets(Blobs)[i + 1],
                                                 ![i + 1] = Offsets(Blobs)[i]]
  BY <1>1, <1>3, OffsetsSwap
<1>6. TypeOK'
  <2>1. BuilderType'
    BY <1>2, <1>3, <1>5 DEF BuilderType
  <2>2. (AppendType /\ ExportType /\ ResultType)' /\ pc' \in Phases
    BY <1>2, <1>3 DEF TypeOK, AppendType, ExportType, ResultType
  <2> QED
    BY <1>2, <1>3, <2>1, <2>2 DEF TypeOK
<1>7. CountersInv' /\ NonemptyInv'
  BY <1>2, <1>4 DEF IInv, CountersInv, NonemptyInv
<1>8. SizeInv'
  <2> DEFINE total == currentSize - Size(TxCounter) - Size(AcceptedPfbs)
  <2>1. HasSum(Offsets(Blobs), total) /\ currentSize <= MaxIndex
    BY DEF IInv, SizeInv
  <2>2. Offsets(Blobs) \in Seq(Nat) /\ Len(Offsets(Blobs)) = Len(Blobs)
    BY <1>3, OffsetsType
  <2> DEFINE w == Offsets(Blobs)
  <2> HIDE DEF total, w
  <2>3. HasSum(Offsets(Blobs'), total)
    <3>1. w \in Seq(Nat) /\ HasSum(w, total) /\ i \in 1..(Len(w) - 1)
      BY <1>1, <2>1, <2>2 DEF w
    <3>2. HasSum([w EXCEPT ![i] = w[i + 1], ![i + 1] = w[i]], total)
      BY <3>1, SumSwap
    <3> QED
      BY <1>5, <3>2 DEF w
  <2> QED
    BY <1>2, <1>4, <2>1, <2>3 DEF SizeInv, MaxIndex, total
<1>9. ContentsInv'
  BY SMTT(30), <1>2, <1>5 DEF IInv, ContentsInv
<1>10. (AppendInv /\ ExportInv)'
  BY <1>2 DEF IInv, AppendInv, ExportInv, SideInv, TxsInv, WrittenInv, PlaceInv,
              PfbsInv
<1>11. (NoDefensiveError /\ SquareFits)'
  BY <1>2 DEF IInv, NoDefensiveError, SquareFits
<1> QED
  BY <1>6, <1>7, <1>8, <1>9, <1>10, <1>11 DEF IInv

\* The end of the sort preserves the invariant.
LEMMA SortedIInv ==
  ASSUME IInv, Sorted
  PROVE  IInv'
<1>1. /\ pc = "sort" /\ pc' = "txs" /\ UNCHANGED <<builder, app, result>>
      /\ exp' = exp
  BY DEF Sorted
<1>2. Txs' = Txs /\ TxCounter' = TxCounter /\ currentSize' = currentSize
  BY <1>1 DEF builder, contents
<1>3. ExportType'
  BY SMTT(30), <1>1 DEF IInv, TypeOK, ExportType
<1>4. ExportInv'
  BY <1>1, <1>2 DEF IInv, ExportInv, SideInv, TxsInv, WrittenInv, PlaceInv, PfbsInv
<1> QED
  BY <1>1, <1>3, <1>4, ExportFrame DEF Phases

\* Writing a transaction adds its bytes to the partial sum.
LEMMA WriteTxIInv ==
  ASSUME IInv, WriteTx
  PROVE  IInv'
<1>1. /\ pc = "txs" /\ pc' = "txs" /\ UNCHANGED <<builder, app, result>>
      /\ exp.k < Len(Txs)
      /\ exp' = [exp EXCEPT !.k = @ + 1,
                            !.txBytes = @ + DelimitedLen(Txs[exp.k + 1])]
  BY DEF WriteTx
<1>2. Txs' = Txs /\ TxCounter' = TxCounter /\ currentSize' = currentSize
  BY <1>1 DEF builder, contents
<1>3. ExportType /\ Txs \in Seq(Nat) /\ exp.k \in Nat /\ exp.txBytes \in Nat
  BY DEF IInv, TypeOK, BuilderType, ExportType
<1> DEFINE k == exp.k
           b == DelimitedLen(Txs[k + 1])
<1>4. k \in 0..Len(Txs) /\ k + 1 \in 0..Len(Txs) /\ Txs[k + 1] \in Nat /\ b \in Nat
  <2>1. k \in 0..Len(Txs) /\ k + 1 \in 0..Len(Txs) /\ Txs[k + 1] \in Nat
    BY <1>1, <1>3
  <2> QED
    BY <2>1, DelimitedLenType
<1>5. /\ PartialSum(TxWeights(Txs), k, exp.txBytes, CounterBytes(TxCounter))
      /\ exp.pfbBytes = 0 /\ exp.shares = <<>> /\ exp.ss = BlobMinSquareSize(currentSize)
  BY <1>1 DEF IInv, ExportInv, TxsInv, SideInv
<1>6. PartialSum(TxWeights(Txs), k + 1, exp.txBytes + b, CounterBytes(TxCounter))
  <2>1. TxWeights(Txs) \in Seq(Nat) /\ Len(TxWeights(Txs)) = Len(Txs)
    BY <1>3, TxWeightsType
  <2>2. TxWeights(Txs)[k + 1] = b
    BY <1>1, <1>3, <1>4 DEF TxWeights
  <2> QED
    BY <1>1, <1>4, <1>5, <2>1, <2>2, SumStep
<1> HIDE DEF b
<1>7. /\ exp'.k = k + 1 /\ exp'.txBytes = exp.txBytes + b
      /\ exp'.pfbBytes = exp.pfbBytes /\ exp'.shares = exp.shares /\ exp'.ss = exp.ss
  BY <1>1, <1>3 DEF ExportType, b
<1>8. ExportType'
  <2>1. exp' = [exp EXCEPT !.k = k + 1, !.txBytes = exp.txBytes + b]
    BY <1>1 DEF b
  <2>2. k + 1 \in Nat /\ exp.txBytes + b \in Nat
    BY <1>3, <1>4
  <2> QED
    BY <1>3, <2>1, <2>2 DEF ExportType
<1>9. TxsInv'
  BY <1>2, <1>4, <1>5, <1>6, <1>7 DEF TxsInv
<1>10. ExportInv'
  BY <1>1, <1>2, <1>5, <1>7, <1>9 DEF ExportInv, SideInv, WrittenInv, PlaceInv, PfbsInv
<1> QED
  BY <1>1, <1>8, <1>10, ExportFrame DEF Phases

\* All transactions are written: their bytes are those the counter counted, and
\* the cursor stands where the counters end the compact shares.
LEMMA TxsWrittenIInv ==
  ASSUME IInv, TxsWritten
  PROVE  IInv'
<1>1. /\ pc = "txs" /\ pc' = "blobs" /\ UNCHANGED <<builder, app, result>>
      /\ exp.k = Len(Txs)
      /\ exp' = [exp EXCEPT !.k = 0, !.cursor = Start, !.nonReservedStart = Start,
                            !.endOfLastBlob = Start]
  BY DEF TxsWritten, Start
<1>2. /\ Txs' = Txs /\ TxCounter' = TxCounter /\ currentSize' = currentSize
      /\ Blobs' = Blobs /\ PfbCounter' = PfbCounter
  BY <1>1 DEF builder, contents
<1>3. /\ ExportType /\ Txs \in Seq(Nat) /\ Blobs \in Seq(Element)
      /\ AcceptedPfbs = PfbCounter /\ GoodCounter(TxCounter) /\ GoodCounter(PfbCounter)
  BY <1>1 DEF IInv, TypeOK, BuilderType, ExportType, CountersInv, AcceptedPfbs
<1>4. Size(TxCounter) \in Nat /\ Size(PfbCounter) \in Nat /\ Start \in Nat
  BY <1>3, CounterSize DEF Start
<1>5. /\ PartialSum(TxWeights(Txs), exp.k, exp.txBytes, CounterBytes(TxCounter))
      /\ exp.pfbBytes = 0 /\ exp.shares = <<>> /\ exp.ss = BlobMinSquareSize(currentSize)
  BY <1>1 DEF IInv, ExportInv, TxsInv, SideInv
<1>6. exp.txBytes = CounterBytes(TxCounter)
  <2>1. TxWeights(Txs) \in Seq(Nat) /\ Len(TxWeights(Txs)) = Len(Txs)
    BY <1>3, TxWeightsType
  <2>2. exp.k \in 0..Len(TxWeights(Txs))
    BY <1>1, <1>3, <2>1
  <2> QED
    BY <1>1, <1>5, <2>1, <2>2, SumStep
<1>7. /\ exp'.k = 0 /\ exp'.cursor = Start /\ exp'.nonReservedStart = Start
      /\ exp'.endOfLastBlob = Start /\ exp'.txBytes = exp.txBytes
      /\ exp'.pfbBytes = 0 /\ exp'.shares = <<>> /\ exp'.ss = exp.ss
  BY <1>1, <1>3, <1>5 DEF ExportType
<1>8. ExportType'
  BY <1>1, <1>3, <1>4 DEF ExportType
<1>9. Start' = Start
  BY <1>2 DEF Start
<1>10. HasSum(Offsets(Blobs), currentSize - Start)
  <2>1. currentSize \in Nat
    BY DEF IInv, TypeOK, BuilderType
  <2>2. currentSize - Size(TxCounter) - Size(PfbCounter) = currentSize - Start
    BY <1>4, <2>1 DEF Start
  <2> QED
    BY <1>3, <2>2 DEF IInv, SizeInv
<1>11. WrittenInv'
  BY SMTT(30), <1>2, <1>4, <1>6, <1>7, <1>9 DEF WrittenInv
<1>12. PlaceInv'
  <2>1. PartialSum(Offsets(Blobs'), exp'.k, 0, currentSize' - Start')
    BY SMTT(30), <1>2, <1>7, <1>9, <1>10 DEF HasSum
  <2>2. exp'.k \in 0..Len(Blobs')
    BY <1>2, <1>3, <1>7
  <2>3. exp'.cursor <= Start' + 0
    BY <1>4, <1>7, <1>9
  <2> QED
    BY <1>7, <2>1, <2>2, <2>3 DEF PlaceInv
<1>13. ExportInv'
  BY <1>1, <1>2, <1>5, <1>7, <1>11, <1>12 DEF ExportInv, SideInv, TxsInv, PfbsInv
<1> QED
  BY <1>1, <1>8, <1>13, ExportFrame DEF Phases

\* What the sparse splitter writes: NumShares shares for a blob, and as many
\* padding shares as asked for once a blob is there to take the namespace from.
LEMMA BlobSharesType ==
  ASSUME NEW e \in Element
  PROVE  BlobShares(e) \in Seq(Share) /\ Len(BlobShares(e)) = e.NumShares
<1>1. e.NumShares \in Nat /\ e.ns \in Nat /\ e.PfbIndex \in Nat /\ e.BlobIndex \in Nat
  BY DEF Element
<1>2. BlobShares(e) \in [1..e.NumShares -> Share]
  BY <1>1 DEF BlobShares, Share
<1> QED
  BY <1>1, <1>2, SeqOfFunction

\* Namespace padding is as many shares as were asked for.
LEMMA NamespacePaddingType ==
  ASSUME NEW shares \in Seq(Share), shares # <<>>, NEW count \in Nat
  PROVE  /\ NamespacePadding(shares, count) \in Seq(Share)
         /\ Len(NamespacePadding(shares, count)) = count
<1>1. Len(shares) \in 1..Len(shares)
  OBVIOUS
<1>2. shares[Len(shares)] \in Share
  BY <1>1
<1>3. shares[Len(shares)].ns \in Nat
  BY <1>2 DEF Share
<1>4. NamespacePadding(shares, count) \in [1..count -> Share]
  BY SMTT(30), <1>3 DEF NamespacePadding, PlainShare, Share
<1> QED
  BY <1>4, SeqOfFunction

\* The cursor moves to the blob's index by no more than the padding the blob was
\* accepted with, so the blob ends within the extents summed so far.
LEMMA PlaceWithinExtent ==
  ASSUME IInv, pc = "blobs", exp.k < Len(Blobs)
  PROVE  LET e == Blobs[exp.k + 1]
             cursor == NextShareIndex(exp.cursor, e.NumShares, subtreeRootThreshold)
         IN  /\ GoodElement(e) /\ cursor \in Nat
             /\ exp.cursor <= cursor /\ cursor <= exp.cursor + e.MaxPadding
             /\ cursor <= MaxIndex
             /\ \E part \in Nat :
                  /\ PartialSum(Offsets(Blobs), exp.k + 1, part, currentSize - Start)
                  /\ cursor + e.NumShares <= Start + part
<1> DEFINE e == Blobs[exp.k + 1]
           width == SubTreeWidth(e.NumShares, subtreeRootThreshold)
           cursor == NextShareIndex(exp.cursor, e.NumShares, subtreeRootThreshold)
<1>1. /\ Blobs \in Seq(Element) /\ GoodElements(Blobs) /\ exp.k \in Nat
      /\ exp.cursor \in Nat /\ currentSize \in Nat /\ currentSize <= MaxIndex
  BY DEF IInv, TypeOK, BuilderType, ExportType, ContentsInv, SizeInv
<1>2. Size(TxCounter) \in Nat /\ Size(PfbCounter) \in Nat /\ Start \in Nat
  <2>1. GoodCounter(TxCounter) /\ GoodCounter(PfbCounter)
    BY DEF IInv, CountersInv, AcceptedPfbs
  <2> QED
    BY <2>1, CounterSize DEF Start
<1>3. PICK part \in Nat : /\ PartialSum(Offsets(Blobs), exp.k, part, currentSize - Start)
                         /\ exp.cursor <= Start + part
  BY DEF IInv, ExportInv, PlaceInv
<1>4. exp.k + 1 \in 1..Len(Blobs) /\ exp.k \in 0..Len(Blobs)
  BY <1>1
<1>5. GoodElement(e) /\ e \in Element
  BY SMTT(30), <1>1, <1>4 DEF GoodElements, GoodElement
<1>6. width \in Nat \ {0} /\ e.MaxPadding = width - 1 /\ e.NumShares \in Nat
  BY <1>5, PowersPositive DEF GoodElement, Element
<1> HIDE DEF e, width
<1>7. cursor \in Nat /\ exp.cursor <= cursor /\ cursor <= exp.cursor + e.MaxPadding
  BY <1>1, <1>6, RoundUpByMultipleOfCorrect DEF NextShareIndex, width
<1>8. Offsets(Blobs) \in Seq(Nat) /\ Len(Offsets(Blobs)) = Len(Blobs)
      /\ Offsets(Blobs)[exp.k + 1] = e.NumShares + e.MaxPadding
  BY <1>1, <1>4, OffsetsType DEF Offsets, maxShareOffset, e
<1> DEFINE more == part + (e.NumShares + e.MaxPadding)
<1>9. PartialSum(Offsets(Blobs), exp.k + 1, more, currentSize - Start)
  BY <1>3, <1>4, <1>8, SumStep
<1>10. more \in Nat /\ more <= currentSize - Start
  <2>1. exp.k + 1 \in 0..Len(Offsets(Blobs))
    BY <1>4, <1>8
  <2> HIDE DEF more
  <2> QED
    BY <1>8, <1>9, <2>1, SumStep
<1> HIDE DEF cursor
<1>11. e.MaxPadding \in Nat
  BY <1>6
<1>12. cursor + e.NumShares <= Start + more
  <2>1. \A a, b, c, d, s, p \in Nat :
          a <= s + p /\ c <= a + d => c + b <= s + (p + (b + d))
    OBVIOUS
  <2> QED
    BY <1>1, <1>2, <1>3, <1>6, <1>7, <1>11, <2>1
<1>13. MaxIndex \in Nat
  BY MaxIndexType
<1>14. cursor <= MaxIndex
  <2> HIDE DEF more
  <2> QED
    BY <1>1, <1>2, <1>6, <1>7, <1>10, <1>12, <1>13
<1> HIDE DEF more
<1> QED
  BY <1>5, <1>7, <1>9, <1>10, <1>12, <1>14 DEF cursor, e

\* One turn of the loop over the blobs.  Only the share index and the locals
\* change; a blob that cannot be written ends the call with its error.
LEMMA PlaceBlobIInv ==
  ASSUME IInv, PlaceBlob
  PROVE  IInv'
<1> DEFINE e == Blobs[exp.k + 1]
           cursor == NextShareIndex(exp.cursor, e.NumShares, subtreeRootThreshold)
           padding == cursor - exp.endOfLastBlob
           end == cursor + e.NumShares
           padded == IF exp.k = 0 \/ padding = 0 THEN exp.shares
                     ELSE exp.shares \o NamespacePadding(exp.shares, padding)
           index == cursor % UintSize
           new == [Pfbs EXCEPT ![e.PfbIndex].ShareIndexes[e.BlobIndex] = index]
           unreadable == /\ exp.k > 0 /\ padding > 0
                         /\ exp.shares[Len(exp.shares)].ns = UnsupportedNamespace
           error == IF unreadable THEN "unreadable namespace" ELSE "invalid blob"
           fails == unreadable \/ ~Writable(e)
<1>1. /\ pc = "blobs" /\ exp.k < Len(Blobs)
      /\ Txs' = Txs /\ Blobs' = Blobs /\ TxCounter' = TxCounter
      /\ PfbCounter' = PfbCounter /\ currentSize' = currentSize /\ app' = app
  BY DEF PlaceBlob
<1>2. /\ BuilderType /\ ExportType /\ BoundedPfbs(Pfbs) /\ Pfbs \in Seq(IndexWrapper)
      /\ exp.shares \in Seq(Share) /\ exp.k \in Nat /\ exp.cursor \in Nat
      /\ exp.nonReservedStart \in Nat
  BY SMTT(30) DEF IInv, TypeOK, BuilderType, ExportType, ContentsInv
<1>3. /\ GoodElement(e) /\ cursor \in Nat
      /\ exp.cursor <= cursor /\ cursor <= exp.cursor + e.MaxPadding
      /\ cursor <= MaxIndex
      /\ \E part \in Nat :
           /\ PartialSum(Offsets(Blobs), exp.k + 1, part, currentSize - Start)
           /\ cursor + e.NumShares <= Start + part
  BY ZenonT(40), <1>1, PlaceWithinExtent
<1>4. /\ e \in Element /\ e.NumShares \in Nat /\ e.MaxPadding \in Nat
      /\ e.PfbIndex \in Nat /\ e.BlobIndex \in Nat
      /\ e.len # 0 => e.NumShares # 0
  BY ZenonT(40), <1>3 DEF GoodElement, Element
<1>5. /\ exp.cursor = exp.endOfLastBlob
      /\ exp.k = 0 => exp.shares = <<>>
      /\ exp.k # 0 => exp.shares # <<>>
      /\ exp.pfbBytes = 0 /\ exp.txBytes = CounterBytes(TxCounter)
      /\ Start <= exp.nonReservedStart
      /\ exp.cursor = exp.nonReservedStart + Len(exp.shares)
      /\ exp.ss = BlobMinSquareSize(currentSize)
  BY <1>1 DEF IInv, ExportInv, PlaceInv, WrittenInv, SideInv
<1>6. padding \in Nat /\ padding <= e.MaxPadding
  <2> HIDE DEF cursor, e
  <2> QED
    BY SMTT(30), <1>2, <1>3, <1>4, <1>5
<1>7. /\ Pfbs' = new
      /\ IF fails THEN Fail(error)
         ELSE /\ exp' = [exp EXCEPT !.k = @ + 1, !.cursor = end, !.endOfLastBlob = end,
                           !.nonReservedStart = IF exp.k = 0 THEN cursor ELSE @,
                           !.shares = padded \o BlobShares(e)]
              /\ UNCHANGED <<pc, done, result>>
  <2> DEFINE padFailure == PaddingFailure(exp.shares, padding)
             failure ==
               IF padding > e.MaxPadding THEN "max padding"
               ELSE IF exp.k > 0 /\ padFailure # "none" THEN padFailure
               ELSE IF ~Writable(e) THEN "invalid blob"
               ELSE "none"
  <2>1. /\ Pfbs' = IF failure = "max padding" THEN Pfbs ELSE new
        /\ IF failure # "none" THEN Fail(failure)
           ELSE /\ exp' = [exp EXCEPT !.k = @ + 1, !.cursor = end, !.endOfLastBlob = end,
                             !.nonReservedStart = IF exp.k = 0 THEN cursor ELSE @,
                             !.shares = padded \o BlobShares(e)]
                /\ UNCHANGED <<pc, done, result>>
    BY ZenonT(40) DEF PlaceBlob
  <2>2. ~(padding > e.MaxPadding)
    <3> HIDE DEF padding, e
    <3> QED
      BY <1>4, <1>6
  <2>3. exp.k > 0 => padFailure = IF unreadable THEN "unreadable namespace" ELSE "none"
    <3>1. exp.k > 0 => ~(padding < 0 \/ (padding > 0 /\ exp.shares = <<>>))
      <4> HIDE DEF padding
      <4> QED
        BY SMTT(30), <1>2, <1>5, <1>6
    <3> QED
      BY ZenonT(30), <3>1 DEF PaddingFailure
  <2>4. failure = IF fails THEN error ELSE "none"
    <3> HIDE DEF padding, padFailure, e
    <3> QED
      BY <2>2, <2>3
  <2>5. (fails <=> failure # "none") /\ (fails => failure = error) /\ failure # "max padding"
    <3> HIDE DEF failure, unreadable, padding, e
    <3> QED
      BY <2>4
  <2> HIDE DEF failure, fails, error, new, padded, end, cursor, e
  <2> QED
    BY <2>1, <2>5
<1>8. /\ new \in Seq(IndexWrapper) /\ BoundedPfbs(new)
      /\ Len(new) = Len(Pfbs) /\ PfbWeights(new) = PfbWeights(Pfbs)
  <2>1. \A a, b, c \in Nat : c <= MaxIndex =>
          LET upd == [Pfbs EXCEPT ![a].ShareIndexes[b] = c]
          IN  /\ upd \in Seq(IndexWrapper) /\ Len(upd) = Len(Pfbs)
              /\ BoundedPfbs(upd)
              /\ PfbWeights(upd) = PfbWeights(Pfbs)
    BY <1>2, UpdateIndex
  <2>2. index \in Nat /\ index <= MaxIndex
    <3> HIDE DEF cursor
    <3> QED
      BY <1>3, MaxIndexType
  <2> HIDE DEF index, e
  <2> QED
    BY <1>4, <2>1, <2>2
<1> HIDE DEF new, fails, error
\* What holds in both outcomes.
<1>9. pc # "elements" /\ pc' # "elements" /\ pc' \in Phases
  BY <1>1, <1>7 DEF Fail, Phases
<1>10. AcceptedPfbs' = AcceptedPfbs
  BY <1>1, <1>9 DEF AcceptedPfbs
<1>11. done' = done /\ square' = square /\ done \in BOOLEAN
  BY <1>7 DEF Fail, result, IInv, TypeOK
<1>12. (BuilderType /\ AppendType)'
  BY <1>1, <1>2, <1>7, <1>8 DEF BuilderType, IInv, TypeOK, AppendType
<1>13. (CountersInv /\ SizeInv /\ ContentsInv)'
  BY ZenonT(40), <1>1, <1>7, <1>8, <1>10 DEF IInv, CountersInv, SizeInv, ContentsInv, MaxIndex
<1>14. (AppendInv /\ NonemptyInv /\ SquareFits)'
  BY <1>1, <1>9, <1>10, <1>11 DEF AppendInv, IInv, NonemptyInv, SquareFits
<1>15. CASE fails
  <2>1. pc' = "ready" /\ exp' = NoExport /\ err' \in BlobErrors
    <3>1. pc' = "ready" /\ exp' = NoExport /\ err' = error
      BY <1>7, <1>15 DEF Fail
    <3> HIDE DEF unreadable
    <3> QED
      BY <3>1 DEF error, BlobErrors
  <2>2. (ExportType /\ ResultType)'
    <3>1. ExportType'
      BY <2>1, NoExportType DEF ExportType
    <3>2. ResultType'
      BY ZenonT(40), <1>11, <2>1 DEF ResultType, Failures, IInv, TypeOK
    <3> QED
      BY <3>1, <3>2
  <2>3. ExportInv'
    BY <2>1 DEF ExportInv, SideInv, TxsInv, WrittenInv, PlaceInv, PfbsInv
  <2>4. NoDefensiveError'
    BY <2>1 DEF NoDefensiveError, DefensiveErrors, BlobErrors
  <2>5. TypeOK'
    BY <1>9, <1>11, <1>12, <2>2 DEF TypeOK
  <2> QED
    BY <1>13, <1>14, <2>3, <2>4, <2>5 DEF IInv
<1>16. CASE ~fails
  <2>1. /\ pc' = pc /\ err' = err
        /\ exp' = [exp EXCEPT !.k = exp.k + 1, !.cursor = end, !.endOfLastBlob = end,
                      !.nonReservedStart =
                        IF exp.k = 0 THEN cursor ELSE exp.nonReservedStart,
                      !.shares = padded \o BlobShares(e)]
    BY <1>7, <1>16 DEF result
  <2>2. /\ padded \in Seq(Share)
        /\ Len(padded) = IF exp.k = 0 THEN 0 ELSE Len(exp.shares) + padding
    <3> DEFINE fill == NamespacePadding(exp.shares, padding)
    <3> HIDE DEF padding
    <3>1. CASE exp.k = 0
      <4>1. padded = <<>>
        BY <1>5, <3>1
      <4> HIDE DEF padded
      <4> QED
        BY <3>1, <4>1
    <3>2. CASE exp.k # 0 /\ padding = 0
      <4>1. padded = exp.shares
        BY <3>2
      <4>2. Len(exp.shares) + padding = Len(exp.shares)
        BY <1>2, <3>2
      <4> QED
        BY <1>2, <3>2, <4>1, <4>2
    <3>3. CASE exp.k # 0 /\ padding # 0
      <4>1. fill \in Seq(Share) /\ Len(fill) = padding
        BY <1>2, <1>5, <1>6, <3>3, NamespacePaddingType
      <4>2. padded = exp.shares \o fill
        BY <3>3
      <4> HIDE DEF fill
      <4>3. /\ exp.shares \o fill \in Seq(Share)
            /\ Len(exp.shares \o fill) = Len(exp.shares) + Len(fill)
        <5>1. \A s, t \in Seq(Share) : s \o t \in Seq(Share) /\ Len(s \o t) = Len(s) + Len(t)
          OBVIOUS
        <5> QED
          BY <1>2, <4>1, <5>1
      <4> HIDE DEF padded
      <4> QED
        BY SMTT(30), <3>3, <4>1, <4>2, <4>3
    <3> QED
      BY <3>1, <3>2, <3>3
  <2> DEFINE all == padded \o BlobShares(e)
             start == IF exp.k = 0 THEN cursor ELSE exp.nonReservedStart
  <2>3. all \in Seq(Share) /\ Len(all) = Len(padded) + e.NumShares
    <3>1. BlobShares(e) \in Seq(Share) /\ Len(BlobShares(e)) = e.NumShares
      BY <1>4, BlobSharesType
    <3> HIDE DEF padded
    <3> QED
      BY SMTT(30), <2>2, <3>1
  <2> HIDE DEF e, padded
  <2>4. end = start + Len(all) /\ start \in Nat /\ end \in Nat /\ all # <<>>
    <3> HIDE DEF cursor, all
    <3>1. Len(exp.shares) \in Nat /\ e.NumShares # 0
      BY <1>2, <1>4, <1>16 DEF fails, Writable
    <3>2. Len(all) # 0
      BY SMTT(30), <1>4, <1>6, <2>2, <2>3, <3>1
    <3>3. start \in Nat /\ end \in Nat /\ all # <<>>
      BY SMTT(30), <1>2, <1>3, <1>4, <3>2
    <3>4. CASE exp.k = 0
      BY <1>3, <1>4, <2>2, <2>3, <3>3, <3>4
    <3>5. CASE exp.k # 0
      <4>1. Len(all) = (Len(exp.shares) + padding) + e.NumShares
        BY SMTT(30), <2>2, <2>3, <3>5
      <4>2. padding = cursor - (exp.nonReservedStart + Len(exp.shares))
        BY <1>5
      <4>3. \A c, r, n, m \in Nat : c + m = r + ((n + (c - (r + n))) + m)
        OBVIOUS
      <4>4. cursor + e.NumShares
              = exp.nonReservedStart
                + ((Len(exp.shares) + (cursor - (exp.nonReservedStart + Len(exp.shares))))
                   + e.NumShares)
        <5>1. /\ cursor \in Nat /\ exp.nonReservedStart \in Nat
              /\ Len(exp.shares) \in Nat /\ e.NumShares \in Nat
          BY <1>2, <1>3, <1>4, <3>1
        <5>2. PICK c \in Nat, r \in Nat, n \in Nat, m \in Nat :
                /\ c = cursor /\ r = exp.nonReservedStart
                /\ n = Len(exp.shares) /\ m = e.NumShares
          BY <5>1, Zenon
        <5>3. c + m = r + ((n + (c - (r + n))) + m)
          BY <4>3
        <5> QED
          BY <5>2, <5>3
      <4>5. start = exp.nonReservedStart
        BY <3>5
      <4> HIDE DEF padding, start
      <4> QED
        BY <3>3, <4>1, <4>2, <4>4, <4>5
    <3> QED
      BY <3>3, <3>4, <3>5
  <2>5. Start \in Nat /\ Start <= start
    <3>1. GoodCounter(TxCounter) /\ GoodCounter(PfbCounter)
      BY <1>1 DEF IInv, CountersInv, AcceptedPfbs
    <3>2. Start \in Nat
      BY SMTT(30), <3>1, CounterSize DEF Start
    <3> HIDE DEF cursor
    <3>3. exp.nonReservedStart <= exp.cursor
      BY SMTT(30), <1>2, <1>5
    <3>4. Start <= cursor
      BY <1>2, <1>3, <1>5, <3>2, <3>3
    <3> QED
      BY <1>5, <3>2, <3>4
  <2> HIDE DEF start, end, all
  <2>6. /\ exp'.k = exp.k + 1 /\ exp'.cursor = end /\ exp'.endOfLastBlob = end
        /\ exp'.nonReservedStart = start /\ exp'.shares = all
        /\ exp'.ss = exp.ss /\ exp'.txBytes = exp.txBytes /\ exp'.pfbBytes = 0
    BY <1>2, <1>5, <2>1 DEF ExportType, start, all
  <2>7. ExportType'
    <3>1. exp' = [exp EXCEPT !.k = exp.k + 1, !.cursor = end, !.endOfLastBlob = end,
                             !.nonReservedStart = start, !.shares = all]
      BY <2>1 DEF start, all
    <3>2. exp.k + 1 \in Nat
      BY <1>2
    <3> QED
      BY <1>2, <2>3, <2>4, <3>1, <3>2 DEF ExportType
  <2>8. TypeOK'
    <3>1. ResultType'
      BY <1>11, <2>1 DEF ResultType, IInv, TypeOK
    <3> QED
      BY <1>9, <1>11, <1>12, <2>7, <3>1 DEF TypeOK
  <2>9. Start' = Start
    BY SMTT(30), <1>1 DEF Start
  <2>10. WrittenInv'
    BY SMTT(30), <1>1, <1>5, <2>4, <2>5, <2>6, <2>9 DEF WrittenInv
  <2>11. PlaceInv'
    <3>1. exp'.k \in 0..Len(Blobs') /\ exp'.k # 0
      BY SMTT(30), <1>1, <1>2, <2>6 DEF BuilderType
    <3>2. \E part \in Nat :
            /\ PartialSum(Offsets(Blobs'), exp'.k, part, currentSize' - Start')
            /\ exp'.cursor <= Start' + part
      BY <1>1, <1>3, <2>6, <2>9 DEF end
    <3> QED
      BY SMTT(30), <2>4, <2>6, <3>1, <3>2 DEF PlaceInv
  <2>12. ExportInv'
    BY <1>1, <1>5, <2>1, <2>6, <2>10, <2>11 DEF ExportInv, SideInv, TxsInv, PfbsInv
  <2>13. NoDefensiveError'
    BY <2>1 DEF IInv, NoDefensiveError
  <2> QED
    BY <1>13, <1>14, <2>8, <2>12, <2>13 DEF IInv
<1> QED
  BY SMTT(30), <1>15, <1>16

\* All blobs are placed: the cursor is within the size the builder accepted.
LEMMA BlobsPlacedIInv ==
  ASSUME IInv, BlobsPlaced
  PROVE  IInv'
<1>1. /\ pc = "blobs" /\ pc' = "pfbs" /\ UNCHANGED <<builder, app, result>>
      /\ exp.k = Len(Blobs) /\ exp' = [exp EXCEPT !.k = 0]
  BY DEF BlobsPlaced
<1>2. /\ Txs' = Txs /\ Pfbs' = Pfbs /\ Blobs' = Blobs /\ TxCounter' = TxCounter
      /\ PfbCounter' = PfbCounter /\ currentSize' = currentSize
  BY <1>1 DEF builder, contents
<1>3. /\ ExportType /\ Blobs \in Seq(Element) /\ Pfbs \in Seq(IndexWrapper)
      /\ GoodElements(Blobs) /\ currentSize \in Nat /\ exp.cursor \in Nat
      /\ GoodCounter(TxCounter) /\ GoodCounter(PfbCounter)
      /\ HasSum(PfbWeights(Pfbs), CounterBytes(PfbCounter))
  BY <1>1 DEF IInv, TypeOK, BuilderType, ExportType, ContentsInv, CountersInv,
              AcceptedPfbs
<1>4. Start \in Nat /\ Start' = Start
  BY <1>2, <1>3, CounterSize DEF Start
<1>5. exp.cursor <= currentSize
  <2>1. PICK part \in Nat : /\ PartialSum(Offsets(Blobs), exp.k, part, currentSize - Start)
                           /\ exp.cursor <= Start + part
    BY <1>1 DEF IInv, ExportInv, PlaceInv
  <2>2. Offsets(Blobs) \in Seq(Nat) /\ Len(Offsets(Blobs)) = Len(Blobs)
    BY <1>3, OffsetsType
  <2>3. exp.k \in 0..Len(Offsets(Blobs))
    BY <1>1, <1>3, <2>2
  <2>4. part = currentSize - Start
    BY <1>1, <2>1, <2>2, <2>3, SumStep
  <2> QED
    BY <1>3, <1>4, <2>1, <2>4
<1>6. /\ exp'.k = 0 /\ exp'.cursor = exp.cursor /\ exp'.txBytes = exp.txBytes
      /\ exp'.pfbBytes = exp.pfbBytes /\ exp'.shares = exp.shares /\ exp'.ss = exp.ss
      /\ exp'.nonReservedStart = exp.nonReservedStart
  BY <1>1, <1>3 DEF ExportType
<1>7. ExportType'
  BY ZenonT(40), <1>1, <1>3 DEF ExportType
<1>8. /\ exp.pfbBytes = 0 /\ exp.ss = BlobMinSquareSize(currentSize) /\ WrittenInv
  BY <1>1 DEF IInv, ExportInv, PlaceInv, SideInv
<1>9. WrittenInv'
  BY <1>1, <1>2, <1>4, <1>6, <1>8 DEF WrittenInv
<1>10. PfbsInv'
  <2>1. PartialSum(PfbWeights(Pfbs'), exp'.k, 0, CounterBytes(PfbCounter'))
    BY <1>2, <1>3, <1>6 DEF HasSum
  <2>2. exp'.k \in 0..Len(Pfbs') /\ exp'.pfbBytes <= 0 /\ exp'.cursor <= currentSize'
    BY <1>2, <1>3, <1>5, <1>6, <1>8
  <2> QED
    BY <2>1, <2>2 DEF PfbsInv
<1>11. ExportInv'
  BY <1>1, <1>2, <1>6, <1>8, <1>9, <1>10 DEF ExportInv, SideInv, TxsInv, PlaceInv
<1> QED
  BY <1>1, <1>7, <1>11, ExportFrame DEF Phases

\* A wrapper with its real indexes is no longer than it was counted as.
LEMMA WritePfbIInv ==
  ASSUME IInv, WritePfb
  PROVE  IInv'
<1> DEFINE k == exp.k
           iw == Pfbs[k + 1]
           b == DelimitedLen(ProtoSize(iw))
           worst == DelimitedLen(ProtoSize(WorstCase(iw)))
<1>1. /\ pc = "pfbs" /\ pc' = "pfbs" /\ UNCHANGED <<builder, app, result>>
      /\ k < Len(Pfbs) /\ exp' = [exp EXCEPT !.k = k + 1, !.pfbBytes = exp.pfbBytes + b]
  BY DEF WritePfb
<1>2. /\ Txs' = Txs /\ Pfbs' = Pfbs /\ Blobs' = Blobs /\ TxCounter' = TxCounter
      /\ PfbCounter' = PfbCounter /\ currentSize' = currentSize
  BY <1>1 DEF builder, contents
<1>3. /\ ExportType /\ Pfbs \in Seq(IndexWrapper) /\ BoundedPfbs(Pfbs)
      /\ k \in Nat /\ exp.pfbBytes \in Nat
  BY DEF IInv, TypeOK, BuilderType, ExportType, ContentsInv
<1>4. k + 1 \in 1..Len(Pfbs) /\ k + 1 \in 0..Len(Pfbs) /\ k \in 0..Len(Pfbs)
  BY <1>1, <1>3
<1>5. b \in Nat /\ worst \in Nat /\ b <= worst
  <2>1. iw \in IndexWrapper /\ Bounded(iw.ShareIndexes)
    BY <1>3, <1>4 DEF BoundedPfbs
  <2> HIDE DEF iw
  <2> QED
    BY <2>1, WorstCaseIsWorst
<1>6. PICK part \in Nat :
        /\ PartialSum(PfbWeights(Pfbs), k, part, CounterBytes(PfbCounter))
        /\ exp.pfbBytes <= part
  BY <1>1 DEF IInv, ExportInv, PfbsInv
<1>7. PartialSum(PfbWeights(Pfbs), k + 1, part + worst, CounterBytes(PfbCounter))
  <2>1. PfbWeights(Pfbs) \in Seq(Nat) /\ Len(PfbWeights(Pfbs)) = Len(Pfbs)
    BY <1>3, PfbWeightsType
  <2>2. PfbWeights(Pfbs)[k + 1] = worst
    BY <1>4 DEF PfbWeights
  <2> HIDE DEF worst
  <2> QED
    BY <1>1, <1>4, <1>6, <2>1, <2>2, SumStep
<1> HIDE DEF b, worst
<1>8. /\ exp'.k = k + 1 /\ exp'.cursor = exp.cursor /\ exp'.txBytes = exp.txBytes
      /\ exp'.pfbBytes = exp.pfbBytes + b
      /\ exp'.shares = exp.shares /\ exp'.ss = exp.ss
      /\ exp'.nonReservedStart = exp.nonReservedStart
  BY <1>1, <1>3 DEF ExportType
<1>9. ExportType'
  <2>1. k + 1 \in Nat /\ exp.pfbBytes + b \in Nat
    BY <1>3, <1>5
  <2> QED
    BY ZenonT(40), <1>1, <1>3, <2>1 DEF ExportType
<1>10. /\ exp.ss = BlobMinSquareSize(currentSize) /\ WrittenInv
       /\ exp.cursor <= currentSize
  BY <1>1 DEF IInv, ExportInv, SideInv, PfbsInv
<1>11. WrittenInv'
  BY <1>1, <1>2, <1>8, <1>10 DEF WrittenInv, Start
<1>12. PfbsInv'
  <2>1. part + worst \in Nat /\ exp.pfbBytes + b <= part + worst
    BY <1>3, <1>5, <1>6
  <2> QED
    BY <1>2, <1>4, <1>7, <1>8, <1>10, <2>1 DEF PfbsInv
<1>13. ExportInv'
  BY <1>1, <1>2, <1>8, <1>10, <1>11, <1>12 DEF ExportInv, SideInv, TxsInv, PlaceInv
<1> QED
  BY <1>1, <1>9, <1>13, ExportFrame DEF Phases

\* What WriteSquare returns: a share for each cell of the square.
IsSquare(shares, side) == shares \in Seq(Share) /\ Len(shares) = side * side
IsShares(shares) == shares \in Seq(Share)

\* WriteSquare fills the whole square, whatever the splitters hold.
LEMMA LayoutType ==
  ASSUME NEW a \in Nat, NEW b \in Nat, NEW shares, IsShares(shares),
         NEW start \in Nat, NEW side \in Nat
  PROVE  IsSquare(Layout(a, b, shares, start, side), side)
<1> USE DEF IsShares
<1>1. side * side \in Nat /\ Len(shares) \in Nat
  OBVIOUS
<1>2. \A ns \in Nat : PlainShare(ns) \in Share
  BY DEF PlainShare, Share
<1>3. /\ TailPaddingNamespace \in Nat /\ PrimaryReservedPaddingNamespace \in Nat
      /\ PayForBlobNamespace \in Nat /\ TxNamespace \in Nat /\ 0 \in Nat
  BY DEF TailPaddingNamespace, PrimaryReservedPaddingNamespace, PayForBlobNamespace,
         TxNamespace
<1>4. \A i \in 1..(side * side) :
        ~(i > start + Len(shares)) /\ i > start => shares[i - start] \in Share
  BY <1>1
<1>5. Layout(a, b, shares, start, side) \in [1..(side * side) -> Share]
  BY <1>2, <1>3, <1>4 DEF Layout, ReservedPadding
<1> QED
  BY <1>1, <1>5, SeqOfFunction DEF IsSquare

\* The end of Export: none of its three checks can fail, because the bytes
\* written are at most those counted, and the shares end within currentSize.
LEMMA FinishExportIInv ==
  ASSUME IInv, FinishExport
  PROVE  IInv'
<1> DEFINE txCount == CompactSharesNeeded(exp.txBytes)
           pfbCount == CompactSharesNeeded(exp.pfbBytes)
           layout == Layout(txCount, pfbCount, exp.shares, exp.nonReservedStart, exp.ss)
<1>1. /\ pc = "pfbs" /\ exp.k = Len(Pfbs)
      /\ Txs' = Txs /\ Pfbs' = Pfbs /\ Blobs' = Blobs /\ TxCounter' = TxCounter
      /\ PfbCounter' = PfbCounter /\ currentSize' = currentSize /\ app' = app
  BY DEF FinishExport, contents
<1>2. /\ ExportType /\ Pfbs \in Seq(IndexWrapper) /\ BoundedPfbs(Pfbs)
      /\ GoodCounter(TxCounter) /\ GoodCounter(PfbCounter) /\ currentSize \in Nat
  BY <1>1 DEF IInv, TypeOK, BuilderType, ContentsInv, CountersInv, AcceptedPfbs
<1>3. /\ exp.txBytes \in Nat /\ exp.pfbBytes \in Nat /\ exp.shares \in Seq(Share)
      /\ exp.nonReservedStart \in Nat /\ exp.cursor \in Nat /\ exp.ss \in Nat
  BY <1>2 DEF ExportType
<1>4. /\ exp.ss = BlobMinSquareSize(currentSize)
      /\ exp.txBytes = CounterBytes(TxCounter)
      /\ Start <= exp.nonReservedStart
      /\ exp.cursor = exp.nonReservedStart + Len(exp.shares)
      /\ exp.cursor <= currentSize
  BY <1>1 DEF IInv, ExportInv, SideInv, WrittenInv, PfbsInv
<1>5. exp.pfbBytes <= CounterBytes(PfbCounter)
  <2>1. PICK part \in Nat :
          /\ PartialSum(PfbWeights(Pfbs), exp.k, part, CounterBytes(PfbCounter))
          /\ exp.pfbBytes <= part
    BY <1>1 DEF IInv, ExportInv, PfbsInv
  <2>2. PfbWeights(Pfbs) \in Seq(Nat) /\ Len(PfbWeights(Pfbs)) = Len(Pfbs)
    BY <1>2, PfbWeightsType
  <2>3. exp.k \in 0..Len(PfbWeights(Pfbs))
    BY <1>1, <1>2, <2>2
  <2>4. part = CounterBytes(PfbCounter)
    BY SMTT(30), <1>1, <2>1, <2>2, <2>3, SumStep
  <2> QED
    BY <2>1, <2>4
<1>6. /\ txCount = Size(TxCounter) /\ txCount \in Nat
      /\ pfbCount \in Nat /\ pfbCount <= Size(PfbCounter) /\ Size(PfbCounter) \in Nat
  <2>1. /\ Size(TxCounter) = CompactSharesNeeded(CounterBytes(TxCounter))
        /\ Size(PfbCounter) = CompactSharesNeeded(CounterBytes(PfbCounter))
        /\ Size(TxCounter) \in Nat /\ Size(PfbCounter) \in Nat
        /\ CounterBytes(PfbCounter) \in Nat
    BY <1>2, CounterSize
  <2>2. pfbCount \in Nat /\ pfbCount <= CompactSharesNeeded(CounterBytes(PfbCounter))
    BY <1>3, <1>5, <2>1, CompactSharesNeededMonotone
  <2> QED
    BY <1>4, <2>1, <2>2
<1>7. /\ exp.ss \in PowersOfTwo /\ exp.ss <= maxSquareSize
      /\ currentSize <= exp.ss * exp.ss
  BY <1>4, SideCorrect
<1> HIDE DEF txCount, pfbCount
<1>8. /\ ~(Size(PfbCounter) < pfbCount)
      /\ ~(exp.nonReservedStart < txCount + pfbCount)
      /\ ~(exp.ss * exp.ss < exp.nonReservedStart + Len(exp.shares))
  <2>1. exp.ss * exp.ss \in Nat
    BY <1>3
  <2>2. ~(exp.ss * exp.ss < exp.cursor)
    BY SMTT(30), <1>2, <1>3, <1>4, <1>7, <2>1
  <2>3. ~(exp.nonReservedStart < txCount + pfbCount)
    BY <1>3, <1>4, <1>6 DEF Start
  <2> QED
    BY <1>4, <1>6, <2>2, <2>3
<1>9. /\ square' = layout /\ err' = "none" /\ done' = TRUE
      /\ pc' = "ready" /\ exp' = NoExport
  <2> DEFINE failure ==
        IF Size(PfbCounter) < pfbCount THEN "pfb counter"
        ELSE IF exp.nonReservedStart < txCount + pfbCount THEN "reserved shares"
        ELSE IF exp.ss * exp.ss < exp.nonReservedStart + Len(exp.shares)
             THEN "square size"
        ELSE "none"
  <2>1. IF failure # "none" THEN Fail(failure)
        ELSE /\ square' = layout /\ err' = "none" /\ done' = TRUE
             /\ pc' = "ready" /\ exp' = NoExport
    BY DEF FinishExport, txCount, pfbCount
  <2>2. failure = "none"
    BY <1>8
  <2> HIDE DEF failure, layout
  <2> QED
    BY SMTT(30), <2>1, <2>2
<1>10. layout \in Seq(Share) /\ Len(layout) = exp.ss * exp.ss
  <2>1. IsShares(exp.shares)
    BY <1>3 DEF IsShares
  <2>2. IsSquare(layout, exp.ss)
    BY <1>3, <1>6, <2>1, LayoutType
  <2> HIDE DEF layout
  <2> QED
    BY <2>2 DEF IsSquare
<1> HIDE DEF layout
<1>11. AcceptedPfbs' = AcceptedPfbs
  BY <1>1, <1>9 DEF AcceptedPfbs
<1>12. TypeOK'
  <2>1. (BuilderType /\ AppendType)'
    BY <1>1 DEF IInv, TypeOK, BuilderType, AppendType
  <2>2. (ExportType /\ ResultType)'
    <3>1. ExportType'
      BY <1>9, NoExportType DEF ExportType
    <3>2. ResultType'
      BY <1>9, <1>10 DEF ResultType
    <3> QED
      BY <3>1, <3>2
  <2> QED
    BY <1>9, <2>1, <2>2 DEF TypeOK, Phases
<1>13. (CountersInv /\ SizeInv /\ ContentsInv)'
  BY SMTT(30), <1>1, <1>11 DEF IInv, CountersInv, SizeInv, ContentsInv, MaxIndex
<1>14. (AppendInv /\ ExportInv)'
  BY <1>9 DEF AppendInv, ExportInv, SideInv, TxsInv, WrittenInv, PlaceInv, PfbsInv
<1>15. NonemptyInv' /\ NoDefensiveError'
  BY <1>1, <1>9, <1>11 DEF IInv, NonemptyInv, NoDefensiveError, DefensiveErrors
<1>16. SquareFits'
  BY <1>1, <1>7, <1>9, <1>10 DEF SquareFits
<1> QED
  BY SMTT(30), <1>12, <1>13, <1>14, <1>15, <1>16 DEF IInv

\* Every step of the builder preserves the invariant.
LEMMA NextIInv == IInv /\ [Next]_vars => IInv'
<1> SUFFICES ASSUME IInv, [Next]_vars
             PROVE  IInv'
  OBVIOUS
<1>1. CASE \E len \in TxLens : AppendTx(len)
  BY <1>1, AppendTxIInv
<1>2. CASE \E btx \in BlobTxs : AppendBlobTx(btx)
  BY <1>2, AppendBlobTxIInv
<1>3. CASE ExportEmpty
  BY <1>3, ExportEmptyIInv
<1>4. CASE StartExport
  BY <1>4, StartExportIInv
<1>5. CASE ContinueAppend
  BY <1>5, AddElementIInv, FinishBlobTxIInv DEF ContinueAppend
<1>6. CASE ContinueExport
  BY SMTT(30), <1>6, SortStepIInv, SortedIInv, WriteTxIInv, TxsWrittenIInv, PlaceBlobIInv,
     BlobsPlacedIInv, WritePfbIInv, FinishExportIInv DEF ContinueExport
<1>7. CASE UNCHANGED vars
  <2>1. /\ Txs' = Txs /\ Pfbs' = Pfbs /\ Blobs' = Blobs /\ TxCounter' = TxCounter
        /\ PfbCounter' = PfbCounter /\ currentSize' = currentSize /\ done' = done
        /\ pc' = pc /\ app' = app /\ exp' = exp /\ square' = square /\ err' = err
    BY <1>7 DEF vars, builder, contents, result
  <2>2. AcceptedPfbs' = AcceptedPfbs
    BY SMTT(30), <2>1 DEF AcceptedPfbs
  <2>3. TypeOK'
    BY <2>1 DEF IInv, TypeOK, BuilderType, AppendType, ExportType, ResultType
  <2>4. (CountersInv /\ SizeInv /\ ContentsInv /\ NonemptyInv)'
    BY SMTT(30), <2>1, <2>2 DEF IInv, CountersInv, SizeInv, ContentsInv, NonemptyInv, MaxIndex
  <2>5. AppendInv'
    BY SMTT(30), <2>1 DEF IInv, AppendInv
  <2>6. ExportInv'
    BY <2>1 DEF IInv, ExportInv, SideInv, TxsInv, WrittenInv, PlaceInv, PfbsInv, Start
  <2>7. (NoDefensiveError /\ SquareFits)'
    BY <2>1 DEF IInv, NoDefensiveError, SquareFits
  <2> QED
    BY <2>3, <2>4, <2>5, <2>6, <2>7 DEF IInv
<1> QED
  BY <1>1, <1>2, <1>3, <1>4, <1>5, <1>6, <1>7 DEF Next

\* The invariant holds of every reachable state.
LEMMA AlwaysIInv == Spec => []IInv
BY InitIInv, NextIInv, PTL DEF Spec

\* The builder, the calls in progress and the exported square have the types of
\* builder.go, whatever is appended and whenever Export is called.
THEOREM BuilderTypeCorrect == Spec => []TypeOK
<1>1. IInv => TypeOK
  BY DEF IInv
<1> QED
  BY <1>1, AlwaysIInv, PTL

\* None of the checks Export makes of its own arithmetic can fail, for any size
\* of square, threshold, transactions and blobs: the padding of a blob is within
\* its MaxPadding in any sorted order, the index wrappers fit the shares counted
\* for them, and the square is large enough for WriteSquare.
THEOREM ExportMeetsItsChecks == Spec => []NoDefensiveError
<1>1. IInv => NoDefensiveError
  BY DEF IInv
<1> QED
  BY <1>1, AlwaysIInv, PTL

\* An exported square has a power of two as its side that is at most
\* maxSquareSize, and holds the size the builder counted.
THEOREM SquareWithinMaximum == Spec => []SquareFits
<1>1. IInv => SquareFits
  BY DEF IInv
<1> QED
  BY <1>1, AlwaysIInv, PTL
==============================================================================
