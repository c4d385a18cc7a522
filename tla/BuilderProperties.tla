-------------------------- MODULE BuilderProperties --------------------------
(***************************************************************************)
(* What square.Builder promises (src/square/builder.go): the accounting    *)
(* behind canFit, the square Export returns, the share indexes it leaves   *)
(* in the index wrappers and the answers of the queries.                   *)
(***************************************************************************)
EXTENDS SquareBuilder, SequencesExt

SumOver(Op(_), n) == MapThenSumSet(Op, 1..n)

------------------------------------------------------------------------------
\* FindTxShareRange on a builder whose Export succeeded; txIndex counts from 0.
PfbSizes == [i \in 1..Len(Pfbs) |-> ProtoSize(Pfbs[i])]

Counted(lens) == FoldLeft(Add, NewCompactShareCounter, lens)

FindTxShareRange_NoIncrement(txIndex) ==
  LET txWriter == Counted(SubSeq(Txs, 1, Min({txIndex, Len(Txs)})))
      pfbWriter == Counted(SubSeq(PfbSizes, 1, txIndex - Len(Txs)))
      isTx == txIndex < Len(Txs)
  IN  [Start |-> Max({0, Size(txWriter) + Size(pfbWriter) - 1}),
       End |-> IF isTx THEN Size(Add(txWriter, Txs[txIndex + 1])) + Size(pfbWriter)
               ELSE Size(txWriter)
                      + Size(Add(pfbWriter, PfbSizes[txIndex - Len(Txs) + 1]))]

FindTxShareRange(txIndex) ==
  LET txWriter == Counted(SubSeq(Txs, 1, Min({txIndex, Len(Txs)})))
      pfbWriter == Counted(SubSeq(PfbSizes, 1, txIndex - Len(Txs)))
      isTx == txIndex < Len(Txs)
      beginsShare == (IF isTx THEN txWriter ELSE pfbWriter).remainder = 0
  IN  [Start |-> Size(txWriter) + Size(pfbWriter) - (IF beginsShare THEN 0 ELSE 1),
       End |-> IF isTx THEN Size(Add(txWriter, Txs[txIndex + 1])) + Size(pfbWriter)
               ELSE Size(txWriter)
                      + Size(Add(pfbWriter, PfbSizes[txIndex - Len(Txs) + 1]))]

\* FindBlobStartingIndex and BlobShareLength, likewise, with both indexes from 0;
\* pfbIndex counts the regular transactions.
NotFound == -1

IsPfb(pfbIndex) == pfbIndex - Len(Txs) \in 0..(Len(Pfbs) - 1)

FindBlobStartingIndex(pfbIndex, blobIndex) ==
  IF ~IsPfb(pfbIndex) \/ blobIndex < 0 THEN NotFound
  ELSE LET indexes == Pfbs[pfbIndex - Len(Txs) + 1].ShareIndexes
       IN  IF blobIndex >= Len(indexes) THEN NotFound ELSE indexes[blobIndex + 1]

BlobShareLength(pfbIndex, blobIndex) ==
  LET found == SelectSeq(Blobs, LAMBDA e : /\ e.PfbIndex = pfbIndex - Len(Txs) + 1
                                           /\ e.BlobIndex = blobIndex + 1)
  IN  IF ~IsPfb(pfbIndex) \/ blobIndex < 0 \/ found = <<>> THEN NotFound
      ELSE found[1].NumShares

------------------------------------------------------------------------------
\* The share of a compact sequence that holds the byte at this offset.
ShareHolding(offset) ==
  IF offset < FirstCompactShareContentSize THEN 0
  ELSE 1 + (offset - FirstCompactShareContentSize)
             \div ContinuationCompactShareContentSize

\* First and last share of the n-th unit of a compact sequence of these units.
UnitShares(lens, n) ==
  LET first == SumOver(LAMBDA i : DelimitedLen(lens[i]), n - 1)
  IN  <<ShareHolding(first), ShareHolding(first + DelimitedLen(lens[n]) - 1)>>

SharesIn(ns) == {i \in 1..Len(square) : square[i].ns = ns}

\* The first and last square index of the shares of a transaction.
SharesOfTx(txIndex) ==
  IF txIndex < Len(Txs) THEN UnitShares(Txs, txIndex + 1)
  ELSE LET unit == UnitShares(PfbSizes, txIndex - Len(Txs) + 1)
           start == Cardinality(SharesIn(TxNamespace))
       IN  <<start + unit[1], start + unit[2]>>

TxIndexes == 0..(Len(Txs) + Len(Pfbs) - 1)

\* The comment of FindTxShareRange: both indexes of the range are inclusive, so
\* that End is the share of the transaction's last byte.
TxRangesInclusive ==
  done => \A txIndex \in TxIndexes :
    FindTxShareRange(txIndex).End = SharesOfTx(txIndex)[2]

------------------------------------------------------------------------------
\* Between calls currentSize is what the accepted transactions can take at
\* most, computed afresh from them: compact shares for all regular
\* transactions, compact shares for all wrappers with the largest indexes, and
\* every blob with its largest padding.  Appends that were turned down, and the
\* counters they were tried on, leave no trace in it.
SizeAccounting ==
  LET worstSize(iw) ==
        ProtoSize([iw EXCEPT !.ShareIndexes = worstCaseShareIndexes(Len(@))])
      txBytes == SumOver(LAMBDA i : DelimitedLen(Txs[i]), Len(Txs))
      pfbBytes == SumOver(LAMBDA i : DelimitedLen(worstSize(Pfbs[i])), Len(Pfbs))
      blobShares == SumOver(LAMBDA i : maxShareOffset(Blobs[i]), Len(Blobs))
  IN  pc = "ready" =>
        /\ Size(TxCounter) = CompactSharesNeeded(txBytes)
        /\ Size(PfbCounter) = CompactSharesNeeded(pfbBytes)
        /\ currentSize = Size(TxCounter) + Size(PfbCounter) + blobShares

StartOf(e) == FindBlobStartingIndex(Len(Txs) + e.PfbIndex - 1, e.BlobIndex - 1)

\* Once Export succeeded, the share index in a wrapper is where its blob's
\* shares really are: all of them, in order, without a gap, and nowhere else.
\* It is a multiple of the blob's subtree width, and that width fits a row of the
\* square, so that the subtrees of the commitment are subtrees of the rows (the
\* share commitment rules of NextShareIndex).
IndexesMatchSquare ==
  done =>
    /\ \A e \in ToSet(Blobs) :
         LET width == SubTreeWidth(e.NumShares, subtreeRootThreshold)
         IN  /\ \A part \in 1..e.NumShares :
                  square[StartOf(e) + part] = [ns |-> e.ns, pfb |-> e.PfbIndex,
                                               blob |-> e.BlobIndex, part |-> part]
             /\ StartOf(e) % width = 0 /\ width * width <= Len(square)
    /\ Cardinality({i \in 1..Len(square) : square[i].pfb # 0})
         = SumOver(LAMBDA i : Blobs[i].NumShares, Len(Blobs))

\* The shares of an exported square are in namespace order and none is the
\* zero share: reserved padding, padding between blobs and tail padding fill
\* every gap between what the counters reserved and what was written.  Blobs of
\* one namespace keep the priority order of their transactions, also when Export
\* sorted b.Blobs in place and more blobs were appended after it.
NamespacesOrdered ==
  done =>
    /\ \A i \in 1..Len(square) : square[i].ns >= TxNamespace
    /\ \A i \in 1..(Len(square) - 1) : square[i].ns <= square[i + 1].ns
    /\ \A i, j \in 1..Len(Blobs) :
         (i < j /\ Blobs[i].ns = Blobs[j].ns) =>
           \/ Blobs[i].PfbIndex < Blobs[j].PfbIndex
           \/ /\ Blobs[i].PfbIndex = Blobs[j].PfbIndex
              /\ Blobs[i].BlobIndex < Blobs[j].BlobIndex

\* As long as the builder stays done, exporting again changes neither the
\* square nor an index handed out by FindBlobStartingIndex or GetWrappedPFB.
ReexportIsStable == [][done /\ done' => UNCHANGED <<square, Pfbs>>]_vars

\* AppendBlobTx takes blobs it does not look into.  When Export then fails, one of
\* them is at fault: it is empty, of a version no parser reads, or of a namespace
\* that cannot be read.  No square is ever returned while the builder holds one of
\* the first two, whatever is appended and exported after it.
BlobsAtFault ==
  LET NoBlob(e) == e.len = 0 \/ e.version # ShareVersionZero
  IN  /\ err # "none" =>
           \E e \in ToSet(Blobs) : NoBlob(e) \/ e.ns = UnsupportedNamespace
      /\ done => \A e \in ToSet(Blobs) : ~NoBlob(e)

\* The comment of Build: errors of Export should not occur.
ExportNeverErrs == err = "none"
==============================================================================
