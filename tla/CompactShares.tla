---------------------------- MODULE CompactShares ----------------------------
(***************************************************************************)
(* The operations of shares.CompactShareSplitter                           *)
(* (src/shares/split_compact_shares.go) on splitter values, and the parser *)
(* that reads its shares back (parse_compact_shares.go).                   *)
(*                                                                         *)
(* A byte is a number below 2 * VarintBase, and one of VarintBase or more  *)
(* continues a varint.                                                     *)
(***************************************************************************)
EXTENDS ShareOps

\* A splitter: its namespace, the finished shares, the pending one, whether it
\* was exported since the last write, and by unit (the code's key is the hash)
\* the shares it occupies.
NewCompactShareSplitter(ns) ==
  [ns |-> ns, shares |-> <<>>, builder |-> NewBuilder(ns, ShareVersionZero, TRUE),
   done |-> FALSE, shareRanges |-> <<>>]

stackPending(css) ==
  [css EXCEPT !.shares = Append(@, css.builder),
              !.builder = NewBuilder(css.ns, ShareVersionZero, FALSE)]

\* The loop around AddData: fill the pending share and go on in a new one.
RECURSIVE AddAllData(_, _)
AddAllData(css, rawData) ==
  LET filled == [css EXCEPT !.builder = AddData(@, rawData)]
      rest == LeftOver(css.builder, rawData)
  IN  IF rest = <<>> THEN filled ELSE AddAllData(stackPending(filled), rest)

write(css, rawData) ==
  LET q == AddAllData([css EXCEPT !.builder = MaybeWriteReservedBytes(@)], rawData)
  IN  IF AvailableBytes(q.builder) = 0 THEN stackPending(q) ELSE q

Count_Finished(css) == Len(css.shares)

Count(css) ==
  IF ~IsEmptyShare(css.builder) /\ ~css.done THEN Len(css.shares) + 1
  ELSE Len(css.shares)

\* binary.PutUvarint, and the unit behind its length.
RECURSIVE PutUvarint(_)
PutUvarint(n) ==
  IF n < VarintBase THEN <<n>>
  ELSE <<VarintBase + (n % VarintBase)>> \o PutUvarint(n \div VarintBase)

MarshalDelimitedTx(tx) == PutUvarint(Len(tx)) \o tx

WriteUnit_RangeAfter(css, tx) ==
  LET q == write([css EXCEPT !.done = FALSE], MarshalDelimitedTx(tx))
  IN  [q EXCEPT !.shareRanges =
         (tx :> [start |-> Len(q.shares), end |-> Count(q)]) @@ @]

\* WriteTx.  After an Export the last share is taken back only when the pending
\* share holds something; the range starts at the shares counted before that.
WriteUnit(css, tx) ==
  LET kept == IF css.done /\ ~IsEmptyShare(css.builder)
              THEN SubSeq(css.shares, 1, Len(css.shares) - 1) ELSE css.shares
      q == write([css EXCEPT !.shares = kept, !.done = FALSE], MarshalDelimitedTx(tx))
  IN  [q EXCEPT !.shareRanges =
         (tx :> [start |-> Len(css.shares), end |-> Count(q)]) @@ @]

sequenceLen_WithPadding(count, bytesOfPadding) ==
  FirstCompactShareContentSize + (count - 1) * ContinuationCompactShareContentSize

sequenceLen(count, bytesOfPadding) ==
  IF count = 0 THEN 0
  ELSE FirstCompactShareContentSize + (count - 1) * ContinuationCompactShareContentSize
         - bytesOfPadding

\* Export.  Nothing to do for an empty splitter or one exported before.
Exported(css) ==
  LET pending == ~IsEmptyShare(css.builder)
      bytesOfPadding == IF pending THEN AvailableBytes(css.builder) ELSE 0
      q == IF pending
           THEN stackPending([css EXCEPT !.builder = ZeroPadIfNecessary(@)]) ELSE css
  IN  IF css.done \/ (css.shares = <<>> /\ ~pending) THEN css
      ELSE [q EXCEPT !.done = TRUE,
                     !.shares[1] = WriteSequenceLen(@, sequenceLen(Len(q.shares),
                                                                  bytesOfPadding))]

ShareRanges_NoOffset(css, offset) == css.shareRanges

ShareRanges(css, offset) ==
  [tx \in DOMAIN css.shareRanges |->
     [start |-> css.shareRanges[tx].start + offset,
      end |-> css.shareRanges[tx].end + offset]]

------------------------------------------------------------------------------
\* The parser.  ParseDelimiter pads a varint that the data cuts off with
\* zeros, and drops as many bytes as the value it read would be written with.
RECURSIVE ReadUvarint(_)
ReadUvarint(input) ==
  IF input = <<>> THEN 0
  ELSE IF Head(input) < VarintBase THEN Head(input)
  ELSE Head(input) - VarintBase + VarintBase * ReadUvarint(Tail(input))

ParseDelimiter(input) ==
  LET unitLen == ReadUvarint(input)
      n == Len(PutUvarint(unitLen))
  IN  [unitLen |-> unitLen, data |-> SubSeq(input, n + 1, Len(input))]

\* Units until a length of zero, taken for padding, or a unit that is cut off.
RECURSIVE parseRawData(_)
parseRawData(rawData) ==
  LET d == ParseDelimiter(rawData) IN
  IF d.unitLen = 0 \/ d.unitLen > Len(d.data) THEN <<>>
  ELSE <<SubSeq(d.data, 1, d.unitLen)>>
         \o parseRawData(SubSeq(d.data, d.unitLen + 1, Len(d.data)))

extractRawData(ss) ==
  IF ss = <<>> THEN <<>>
  ELSE RawDataUsingReserved(ss[1])
         \o FlattenSeq([i \in 1..(Len(ss) - 1) |-> RawData(ss[i + 1])])

\* What ParseTxs returns for shares of supported versions, the only ones the
\* splitter makes.
parseCompactShares(ss) == parseRawData(extractRawData(ss))

------------------------------------------------------------------------------
\* For the properties, from the layout alone: the share of a byte of a compact
\* sequence, and the shares, end exclusive, with a byte of the k-th of `units`.
ShareOfByte(b) ==
  IF b <= FirstCompactShareContentSize THEN 1
  ELSE 2 + (b - FirstCompactShareContentSize - 1) \div ContinuationCompactShareContentSize

EndOfUnit(units, k) ==
  FoldSeq(LAMBDA tx, sum : sum + DelimitedLen(Len(tx)), 0, SubSeq(units, 1, k))
FirstShareOf(units, k) == ShareOfByte(EndOfUnit(units, k - 1) + 1)
LastShareOf(units, k) == ShareOfByte(EndOfUnit(units, k))
UnitRange(units, k) ==
  [start |-> FirstShareOf(units, k) - 1, end |-> LastShareOf(units, k)]
==============================================================================
