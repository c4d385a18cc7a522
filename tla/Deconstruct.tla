----------------------------- MODULE Deconstruct -----------------------------
(***************************************************************************)
(* square.Deconstruct and Square.WrappedPFBs (src/square/square.go) on the *)
(* squares of the square builder, written out byte by byte.                *)
(*                                                                         *)
(* This composes the parts: what SquareBuilder lays out, the compact and   *)
(* sparse splitters turn into bytes, and the parsers read back.  The       *)
(* bytes of a transaction or blob tell it from every other one.            *)
(***************************************************************************)
EXTENDS SquareBuilder, IndexWrappers, SparseShares, RangeOps

\* The bytes of the i-th regular transaction and of the i-th blob transaction's
\* own transaction; a blob ends in a zero byte, as padding does.
TxBytes(i) == [j \in 1..Txs[i] |-> i]
PfbBytes(i) == [j \in 1..Pfbs[i].tx |-> 20 + i]

BlobOf(pfb, blob) ==
  LET e == CHOOSE el \in ToSet(Blobs) : el.PfbIndex = pfb /\ el.BlobIndex = blob
  IN  [ns |-> e.ns, version |-> e.version,
       data |-> [j \in 1..e.len |-> IF j > 1 /\ j = e.len THEN 0 ELSE 8 * pfb + blob]]

BlobsOf(pfb) == [j \in 1..Len(Pfbs[pfb].ShareIndexes) |-> BlobOf(pfb, j)]

\* The transactions as Build returned them: the regular ones first.
BlockTxs ==
  [i \in 1..Len(Txs) |-> [tx |-> TxBytes(i), blobs |-> <<>>]]
    \o [i \in 1..Len(Pfbs) |-> [tx |-> PfbBytes(i), blobs |-> BlobsOf(i)]]

\* The decoder Deconstruct is given: the sizes a PFB declares for its blobs.
PFBDecoder(tx) ==
  LET blobs == BlobsOf(tx[1] - 20)
  IN  [j \in 1..Len(blobs) |-> Len(blobs[j].data)]

------------------------------------------------------------------------------
\* Export and WriteSquare, at the level of bytes.
CompactUnits(ns, units) ==
  Exported(FoldLeft(WriteUnit, NewCompactShareSplitter(ns), units)).shares

TxUnits == [i \in 1..Len(Txs) |-> TxBytes(i)]
PfbUnits ==
  [i \in 1..Len(Pfbs) |-> MarshalIndexWrapper(PfbBytes(i), Pfbs[i].ShareIndexes)]

\* The square Export returned, each share with the bytes its writer gave it.
WriteSquare ==
  LET txShares == CompactUnits(TxNamespace, TxUnits)
      pfbShares == CompactUnits(PayForBlobNamespace, PfbUnits)
  IN  [i \in 1..Len(square) |->
         LET s == square[i] IN
         CASE s.ns = TxNamespace -> txShares[i]
           [] s.ns = PayForBlobNamespace -> pfbShares[i - Len(txShares)]
           [] s.pfb # 0 -> WriteBlob(BlobOf(s.pfb, s.blob))[s.part]
           [] s.ns = PrimaryReservedPaddingNamespace -> ReservedPaddingShare
           [] s.ns = TailPaddingNamespace -> TailPaddingShare
           [] OTHER -> NamespacePaddingShare(s.ns, ShareVersionZero)]

------------------------------------------------------------------------------
RangeIn(s, ns) == GetShareRangeForNamespace([i \in 1..Len(s) |-> s[i].ns], ns)

SharesAt(s, range) == SubSeq(s, range.Start + 1, range.End)

WrappedPFBs(s) == parseCompactShares(SharesAt(s, RangeIn(s, PayForBlobNamespace)))

\* The turn of Deconstruct's loop for one blob of a wrapper; `spare` is the
\* capacity the parser's slices have left.
ParseBlobAt_OneMore(s, shareIndex, size, spare) ==
  LET end == shareIndex + SparseSharesNeeded(size) + 1
  IN  IF end > Len(s) THEN Failed("out of range")
      ELSE ParseBlobs(SubSeq(s, shareIndex + 1, end), spare)

ParseBlobAt(s, shareIndex, size, spare) ==
  LET end == shareIndex + SparseSharesNeeded(size)
  IN  IF end > Len(s) THEN Failed("out of range")
      ELSE ParseBlobs(SubSeq(s, shareIndex + 1, end), spare)

\* The turn of Deconstruct's loop for one wrapper; `acc` holds the transactions
\* recovered so far.
UnwrapPfb(s, acc, bytes, spare) ==
  LET wpfb == UnmarshalIndexWrapper(bytes)
      sizes == PFBDecoder(wpfb.tx)
      parsed == [j \in 1..Len(wpfb.ShareIndexes) |->
                   ParseBlobAt(s, wpfb.ShareIndexes[j], sizes[j], spare)]
  IN  IF acc.err # "none" THEN acc
      ELSE IF ~wpfb.ok THEN Failed("no wrapped PFB")
      ELSE IF wpfb.ShareIndexes = <<>> THEN Failed("no blobs")
      ELSE IF Len(sizes) # Len(wpfb.ShareIndexes) THEN Failed("blob sizes")
      ELSE IF \E j \in 1..Len(parsed) : parsed[j].err # "none" THEN Failed("blob")
      ELSE IF \E j \in 1..Len(parsed) : Len(parsed[j].val) # 1 THEN Failed("single blob")
      ELSE Parsed(Append(acc.val,
             [tx |-> wpfb.tx, blobs |-> [j \in 1..Len(parsed) |-> parsed[j].val[1]]]))

DeconstructSquare(s, spare) ==
  LET txRange == RangeIn(s, TxNamespace)
      pfbRange == RangeIn(SubSeq(s, txRange.End + 1, Len(s)), PayForBlobNamespace)
      units == parseCompactShares(SharesAt(s, txRange))
      txs == Parsed([i \in 1..Len(units) |-> [tx |-> units[i], blobs |-> <<>>]])
      wpfbs == parseCompactShares(SharesAt(s, RangeAdd(pfbRange, txRange.End)))
  IN  IF s = <<TailPaddingShare>> THEN Parsed(<<>>)
      ELSE IF txRange = NamespaceError THEN Failed("namespace")
      ELSE IF txRange.Start # 0 THEN Failed("txs start")
      ELSE IF pfbRange = NamespaceError THEN Failed("namespace")
      ELSE IF RangeIsEmpty(pfbRange) THEN txs
      ELSE IF pfbRange.Start # 0 THEN Failed("PFBs start")
      ELSE FoldLeft(LAMBDA acc, bytes : UnwrapPfb(s, acc, bytes, spare), txs, wpfbs)

------------------------------------------------------------------------------
\* Export has returned a square for what the builder holds.
HasSquare == pc = "ready" /\ (done \/ (IsEmpty /\ square = EmptySquare))

\* Deconstruct undoes Build and Construct: from the shares alone, and the blob
\* sizes the PFBs declare, it recovers the very transactions and blobs, in
\* order, wherever sorting and padding moved the blobs and whatever capacity the
\* parser's slices have.
DeconstructInverts ==
  HasSquare =>
    \A spare \in Spares : DeconstructSquare(WriteSquare, spare) = Parsed(BlockTxs)

\* Every share of a square belongs to a sequence ParseShares accepts: one for
\* each compact namespace in use, with all of its units, one for each blob in
\* the order of the square, with its data, and padding.  The wrappers
\* WrappedPFBs reads are those Export made, and the share indexes
\* ExtractShareIndexes takes from them those of the blobs in transaction order.
SequencesInSquare ==
  HasSquare =>
    LET seqs == ParseShares(WriteSquare, TRUE)
        compact(units) ==
          IF units = <<>> THEN <<>>
          ELSE <<FlattenSeq([i \in 1..Len(units) |-> MarshalDelimitedTx(units[i])])>>
        data == [i \in 1..Len(Blobs) |-> BlobOf(Blobs[i].PfbIndex, Blobs[i].BlobIndex).data]
        wrappers == WrappedPFBs(WriteSquare)
    IN  /\ seqs.err = "none"
        /\ [i \in 1..Len(seqs.val) |-> RawDataOf(seqs.val[i])]
             = compact(TxUnits) \o compact(PfbUnits) \o data
        /\ wrappers = PfbUnits
        /\ ExtractShareIndexes(TxUnits \o wrappers)
             = FlattenSeq([i \in 1..Len(Pfbs) |-> Pfbs[i].ShareIndexes])
==============================================================================
