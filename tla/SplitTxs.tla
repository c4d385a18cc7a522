------------------------------- MODULE SplitTxs -------------------------------
(***************************************************************************)
(* shares.SplitTxs (src/shares/share_splitting.go): transactions in any    *)
(* order go to one of two compact share splitters, and the ranges the two  *)
(* recorded become one map of positions in the square.                     *)
(***************************************************************************)
EXTENDS IndexWrappers

CONSTANTS
  TxsOffered,  \* the transactions, wrapped or not, as bytes
  MaxTxs       \* bound: the list has no more than this

ASSUME SplitTxsAssumption ==
  TxsOffered \subseteq Seq(0..(2 * VarintBase - 1)) /\ MaxTxs \in Nat

VARIABLES
  txs,                     \* the transactions the loop has seen
  txWriter, pfbTxWriter,
  txShares, pfbShares, shareRanges, returned

writers == <<txWriter, pfbTxWriter>>
results == <<txShares, pfbShares, shareRanges, returned>>
splitVars == <<txs, writers, results>>

SplitInit ==
  /\ txs = <<>>
  /\ txWriter = NewCompactShareSplitter(TxNamespace)
  /\ pfbTxWriter = NewCompactShareSplitter(PayForBlobNamespace)
  /\ txShares = <<>> /\ pfbShares = <<>> /\ shareRanges = <<>> /\ returned = FALSE

\* One turn of the loop.
SplitTx(tx) ==
  /\ ~returned /\ Len(txs) < MaxTxs
  /\ txs' = Append(txs, tx)
  /\ \/ /\ IsIndexWrapper(tx)
        /\ pfbTxWriter' = WriteUnit(pfbTxWriter, tx)
        /\ UNCHANGED txWriter
     \/ /\ ~IsIndexWrapper(tx)
        /\ txWriter' = WriteUnit(txWriter, tx)
        /\ UNCHANGED pfbTxWriter
  /\ UNCHANGED results

mergeMaps(mapOne, mapTwo) == mapTwo @@ mapOne

\* What follows the loop.
SplitReturn ==
  /\ ~returned /\ returned' = TRUE
  /\ txWriter' = Exported(txWriter) /\ pfbTxWriter' = Exported(pfbTxWriter)
  /\ txShares' = txWriter'.shares /\ pfbShares' = pfbTxWriter'.shares
  /\ shareRanges' = mergeMaps(ShareRanges(txWriter', 0),
                              ShareRanges(pfbTxWriter', Len(txShares')))
  /\ UNCHANGED txs

SplitNext == (\E tx \in TxsOffered : SplitTx(tx)) \/ SplitReturn

SplitSpec == SplitInit /\ [][SplitNext]_splitVars

------------------------------------------------------------------------------
Plain == SelectSeq(txs, LAMBDA tx : ~IsIndexWrapper(tx))
Wrapped == SelectSeq(txs, IsIndexWrapper)

\* The shares of the two namespaces parse to the transactions of the list, in
\* its order, the wrapped ones apart from the others and with their share
\* indexes.  In the shares of both splitters one after the other, the merged map
\* has for every transaction, as written last, exactly the shares with a byte of
\* it.
SplitExact ==
  LET RangesIn(units, offset) ==
        \A k \in 1..Len(units) :
          (\A j \in (k + 1)..Len(units) : units[j] # units[k]) =>
            shareRanges[units[k]]
              = [start |-> UnitRange(units, k).start + offset,
                 end |-> UnitRange(units, k).end + offset]
      wrappers == parseCompactShares(pfbShares)
  IN  returned =>
        /\ parseCompactShares(txShares) = Plain /\ wrappers = Wrapped
        /\ ExtractShareIndexes(wrappers) = ExtractShareIndexes(txs)
        /\ RangesIn(Plain, 0) /\ RangesIn(Wrapped, Len(txShares))
==============================================================================
