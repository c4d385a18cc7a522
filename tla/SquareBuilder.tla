---------------------------- MODULE SquareBuilder ----------------------------
(***************************************************************************)
(* square.Builder (src/square/builder.go): transactions are appended until *)
(* the square is full, then Export lays the square out.                    *)
(*                                                                         *)
(* The builder is used by one goroutine, so a call runs to its end before  *)
(* the next begins.  AppendTx is one step.  AppendBlobTx and Export loop   *)
(* over their inputs, and each turn of a loop is a step: `pc` says where   *)
(* the running call is, and only in "ready" can a call begin.  The         *)
(* queries (FindBlobStartingIndex, FindTxShareRange, GetWrappedPFB) run    *)
(* Export when the builder is not done and then read its state.            *)
(*                                                                         *)
(* A transaction is its length, a blob its namespace, length and share     *)
(* version, a share its namespace and the piece of blob it holds.  The two *)
(* compact share splitters are the bytes written to them.                  *)
(***************************************************************************)
EXTENDS CounterOps, CommitmentRules

CONSTANTS
  maxSquareSize, subtreeRootThreshold,
  TxLens,    \* lengths of the regular transactions offered
  BlobTxs,   \* the blob transactions offered
  MaxTxs     \* bound: no append is tried once this many were accepted

\* A blob as UnmarshalBlobTx lets it through, which checks the length of the
\* namespace ID only: the namespace need not be one that namespace.From reads,
\* the share version not a supported one, and the data may be empty.  A namespace
\* version that is no byte makes Write fail as such a share version does, and is
\* not told from it.  Left out are the two namespaces whose shares are compact, and lengths for which the
\* loop of SparseSharesNeeded wraps.
Blob == [ns : (TxNamespace..TailPaddingNamespace) \ {TxNamespace, PayForBlobNamespace},
         len : {len \in Nat : /\ len < UintSize /\ len <= LargestSparseLen
                               /\ SparseSharesNeeded(len) <= LargestPowerOfTwo},
         version : Nat]

\* NewBuilder refuses a maxSquareSize that is no power of two.  It does not ask
\* for less than 2^16, from where on the largest share index is no uint32.
\* SubTreeWidth divides by the threshold.
ASSUME BuilderAssumption ==
  /\ IsPowerOfTwo(maxSquareSize)
  /\ maxSquareSize * maxSquareSize < UintSize
  /\ subtreeRootThreshold \in Nat \ {0}
  /\ TxLens \subseteq Nat
  /\ \A btx \in BlobTxs : btx.tx \in Nat /\ btx.blobs \in Seq(Blob)
  /\ MaxTxs \in Nat

VARIABLES
  Txs,          \* lengths of the regular transactions
  Pfbs,         \* the index wrappers: transaction length and share indexes
  Blobs,        \* the elements, sorted in place by Export
  TxCounter, PfbCounter,
  currentSize,
  done,
  pc,           \* where the running call is; "ready" between calls
  app,          \* locals of a running AppendBlobTx
  exp,          \* locals of a running Export
  square,       \* what the last successful Export returned
  err           \* the error of the last Export, or "none"

contents == <<Txs, Pfbs, Blobs>>
builder == <<contents, TxCounter, PfbCounter, currentSize, done>>
result == <<square, err>>
vars == <<builder, pc, app, exp, result>>

Element == [ns : Nat, len : Nat, version : Nat, PfbIndex : Nat,
            BlobIndex : Nat, NumShares : Nat, MaxPadding : Nat]
IndexWrapper == [tx : Nat, ShareIndexes : Seq(Nat)]
Share == [ns : Nat, pfb : Nat, blob : Nat, part : Nat]

NoAppend == [iw |-> [tx |-> 0, ShareIndexes |-> <<>>], blobs |-> <<>>,
             elements |-> <<>>, maxBlobShareCount |-> 0]
NoExport == [ss |-> 0, k |-> 0, txBytes |-> 0, pfbBytes |-> 0, cursor |-> 0,
             nonReservedStart |-> 0, endOfLastBlob |-> 0, shares |-> <<>>]

\* A share that carries no piece of a blob; the zero Share{} has no namespace.
PlainShare(ns) == [ns |-> ns, pfb |-> 0, blob |-> 0, part |-> 0]
EmptySquare == <<PlainShare(TailPaddingNamespace)>>

Init ==
  /\ Txs = <<>> /\ Pfbs = <<>> /\ Blobs = <<>>
  /\ TxCounter = NewCompactShareCounter /\ PfbCounter = NewCompactShareCounter
  /\ currentSize = 0 /\ done = FALSE
  /\ pc = "ready" /\ app = NoAppend /\ exp = NoExport
  /\ square = EmptySquare /\ err = "none"

------------------------------------------------------------------------------
canFit_OneMore(shareNum) ==
  currentSize + shareNum <= maxSquareSize * maxSquareSize + 1

canFit(shareNum) == currentSize + shareNum <= maxSquareSize * maxSquareSize

IsEmpty == Size(TxCounter) = 0 /\ Size(PfbCounter) = 0

CanAppend == pc = "ready" /\ Len(Txs) + Len(Pfbs) < MaxTxs

\* proto.Size of an index wrapper.  A bytes field is its tag, its length and
\* its content, and is left out when empty; share_indexes is packed, one
\* varint per index; type_id is "INDX".
FieldSize(len) == IF len = 0 THEN 0 ELSE 1 + DelimLen(len) + len

PackedSize(indexes) ==
  Cardinality({b \in (1..Len(indexes)) \X (0..4) :
                 b[2] = 0 \/ indexes[b[1]] >= VarintPower(b[2])})

ProtoSize(iw) == FieldSize(iw.tx) + FieldSize(PackedSize(iw.ShareIndexes))
                   + FieldSize(4)

worstCaseShareIndexes_Zero(blobs) == [i \in 1..blobs |-> 0]

\* The largest share index, as a uint32.
worstCaseShareIndexes(blobs) ==
  [i \in 1..blobs |-> (maxSquareSize * maxSquareSize) % UintSize]

newElement_NoPadding(blob, pfbIndex, blobIndex) ==
  [ns |-> blob.ns, len |-> blob.len, version |-> blob.version, PfbIndex |-> pfbIndex,
   BlobIndex |-> blobIndex, NumShares |-> SparseSharesNeeded(blob.len % UintSize),
   MaxPadding |-> 0]

newElement_PaddingShort(blob, pfbIndex, blobIndex) ==
  LET numShares == SparseSharesNeeded(blob.len % UintSize)
  IN  [ns |-> blob.ns, len |-> blob.len, version |-> blob.version, PfbIndex |-> pfbIndex,
       BlobIndex |-> blobIndex, NumShares |-> numShares,
       MaxPadding |-> SubTreeWidth(numShares, subtreeRootThreshold) - 2]

newElement(blob, pfbIndex, blobIndex) ==
  LET numShares == SparseSharesNeeded(blob.len % UintSize)
  IN  [ns |-> blob.ns, len |-> blob.len, version |-> blob.version, PfbIndex |-> pfbIndex,
       BlobIndex |-> blobIndex, NumShares |-> numShares,
       MaxPadding |-> SubTreeWidth(numShares, subtreeRootThreshold) - 1]

maxShareOffset(e) == e.NumShares + e.MaxPadding

------------------------------------------------------------------------------
AppendTx_NoRevert(len) ==
  LET counter == Add(TxCounter, len)
      fits == canFit(AddDiff(counter))
  IN  /\ CanAppend
      /\ TxCounter' = counter
      /\ Txs' = IF fits THEN Append(Txs, len) ELSE Txs
      /\ currentSize' = IF fits THEN currentSize + AddDiff(counter) ELSE currentSize
      /\ done' = (done /\ ~fits)
      /\ UNCHANGED <<Pfbs, Blobs, PfbCounter, pc, app, exp, result>>

AppendTx(len) ==
  LET counter == Add(TxCounter, len) IN
  /\ CanAppend
  /\ \/ /\ canFit(AddDiff(counter))
        /\ TxCounter' = counter
        /\ Txs' = Append(Txs, len)
        /\ currentSize' = currentSize + AddDiff(counter)
        /\ done' = FALSE
     \/ /\ ~canFit(AddDiff(counter))
        /\ TxCounter' = Revert(counter)
        /\ UNCHANGED <<Txs, currentSize, done>>
  /\ UNCHANGED <<Pfbs, Blobs, PfbCounter, pc, app, exp, result>>

\* AppendBlobTx up to its loop: the index wrapper is made and counted with the
\* largest share indexes its blobs could get.
AppendBlobTx(btx) ==
  LET iw == [tx |-> btx.tx, ShareIndexes |-> worstCaseShareIndexes(Len(btx.blobs))]
  IN  /\ CanAppend
      /\ PfbCounter' = Add(PfbCounter, ProtoSize(iw))
      /\ app' = [iw |-> iw, blobs |-> btx.blobs, elements |-> <<>>,
                 maxBlobShareCount |-> 0]
      /\ pc' = "elements"
      /\ UNCHANGED <<contents, TxCounter, currentSize, done, exp, result>>

\* One turn of its loop over the blobs.
AddElement ==
  LET idx == Len(app.elements) + 1
      element == newElement(app.blobs[idx], Len(Pfbs) + 1, idx)
  IN  /\ pc = "elements" /\ idx <= Len(app.blobs)
      /\ app' = [app EXCEPT !.elements = Append(@, element),
                            !.maxBlobShareCount = @ + maxShareOffset(element)]
      /\ UNCHANGED <<builder, pc, exp, result>>

\* What follows the loop.
FinishBlobTx_DoneKept ==
  LET shareNum == AddDiff(PfbCounter) + app.maxBlobShareCount IN
  /\ pc = "elements" /\ Len(app.elements) = Len(app.blobs)
  /\ \/ /\ canFit(shareNum)
        /\ Blobs' = Blobs \o app.elements
        /\ Pfbs' = Append(Pfbs, app.iw)
        /\ currentSize' = currentSize + shareNum
        /\ UNCHANGED PfbCounter
     \/ /\ ~canFit(shareNum)
        /\ PfbCounter' = Revert(PfbCounter)
        /\ UNCHANGED <<Blobs, Pfbs, currentSize>>
  /\ pc' = "ready" /\ app' = NoAppend
  /\ UNCHANGED <<Txs, TxCounter, done, exp, result>>

FinishBlobTx ==
  LET shareNum == AddDiff(PfbCounter) + app.maxBlobShareCount IN
  /\ pc = "elements" /\ Len(app.elements) = Len(app.blobs)
  /\ \/ /\ canFit(shareNum)
        /\ Blobs' = Blobs \o app.elements
        /\ Pfbs' = Append(Pfbs, app.iw)
        /\ currentSize' = currentSize + shareNum
        /\ done' = FALSE
        /\ UNCHANGED PfbCounter
     \/ /\ ~canFit(shareNum)
        /\ PfbCounter' = Revert(PfbCounter)
        /\ UNCHANGED <<Blobs, Pfbs, currentSize, done>>
  /\ pc' = "ready" /\ app' = NoAppend
  /\ UNCHANGED <<Txs, TxCounter, exp, result>>

------------------------------------------------------------------------------
\* An Export that returns early: its locals are gone, `done` stays as it was.
Fail(reason) == pc' = "ready" /\ exp' = NoExport /\ err' = reason
                /\ UNCHANGED <<done, square>>

\* Export of an empty builder, which does not set done.
ExportEmpty ==
  /\ pc = "ready" /\ IsEmpty
  /\ square' = EmptySquare /\ err' = "none"
  /\ UNCHANGED <<builder, pc, app, exp>>

StartExport ==
  /\ pc = "ready" /\ ~IsEmpty
  /\ exp' = [NoExport EXCEPT !.ss = BlobMinSquareSize(currentSize)]
  /\ pc' = "sort"
  /\ UNCHANGED <<builder, app, result>>

OutOfOrder_BySize(i) ==
  \/ Blobs[i].ns > Blobs[i + 1].ns
  \/ Blobs[i].ns = Blobs[i + 1].ns /\ Blobs[i].NumShares > Blobs[i + 1].NumShares

\* The order sort.SliceStable is called with.
OutOfOrder(i) == Blobs[i].ns > Blobs[i + 1].ns

\* sort.SliceStable: only neighbours that are strictly out of order are ever
\* exchanged, until there are none.
SortStep ==
  /\ pc = "sort"
  /\ \E i \in 1..(Len(Blobs) - 1) :
       /\ OutOfOrder(i)
       /\ Blobs' = [Blobs EXCEPT ![i] = Blobs[i + 1], ![i + 1] = Blobs[i]]
  /\ UNCHANGED <<Txs, Pfbs, TxCounter, PfbCounter, currentSize, done, pc, app,
                 exp, result>>

Sorted ==
  /\ pc = "sort"
  /\ \A i \in 1..(Len(Blobs) - 1) : ~OutOfOrder(i)
  /\ pc' = "txs"
  /\ UNCHANGED <<builder, app, exp, result>>

WriteTx ==
  /\ pc = "txs" /\ exp.k < Len(Txs)
  /\ exp' = [exp EXCEPT !.k = @ + 1, !.txBytes = @ + DelimitedLen(Txs[exp.k + 1])]
  /\ UNCHANGED <<builder, pc, app, result>>

TxsWritten ==
  LET start == Size(TxCounter) + Size(PfbCounter) IN
  /\ pc = "txs" /\ exp.k = Len(Txs)
  /\ exp' = [exp EXCEPT !.k = 0, !.cursor = start, !.nonReservedStart = start,
                        !.endOfLastBlob = start]
  /\ pc' = "blobs"
  /\ UNCHANGED <<builder, app, result>>

\* The shares SparseShareSplitter.Write makes of a blob, and the padding
\* WriteNamespacePaddingShares adds in the namespace of the last share.
BlobShares(e) ==
  [part \in 1..e.NumShares |->
     [ns |-> e.ns, pfb |-> e.PfbIndex, blob |-> e.BlobIndex, part |-> part]]

NamespacePadding_OneShort(shares, count) ==
  [i \in 1..(count - 1) |-> PlainShare(shares[Len(shares)].ns)]

NamespacePadding(shares, count) ==
  [i \in 1..count |-> PlainShare(shares[Len(shares)].ns)]

\* What Write accepts, by Validate and the supported share versions.
Writable_AnyVersion(e) == e.len # 0

Writable(e) == e.len # 0 /\ e.version \in SupportedShareVersions

\* The errors of WriteNamespacePaddingShares: a negative count or nothing to pad
\* behind, and a last share whose namespace cannot be read.
PaddingFailure(shares, count) ==
  IF count < 0 \/ (count > 0 /\ shares = <<>>) THEN "namespace padding"
  ELSE IF count > 0 /\ shares[Len(shares)].ns = UnsupportedNamespace
       THEN "unreadable namespace"
  ELSE "none"

\* One turn of the loop over the sorted blobs.  The share index is recorded in
\* the index wrapper before the blob is written, so a blob that fails to be
\* written leaves its index behind.
PlaceBlob ==
  LET e == Blobs[exp.k + 1]
      cursor == NextShareIndex(exp.cursor, e.NumShares, subtreeRootThreshold)
      padding == cursor - exp.endOfLastBlob
      end == cursor + e.NumShares
      padded == IF exp.k = 0 \/ padding = 0 THEN exp.shares
                ELSE exp.shares \o NamespacePadding(exp.shares, padding)
      failure == IF padding > e.MaxPadding THEN "max padding"
                 ELSE IF exp.k > 0 /\ PaddingFailure(exp.shares, padding) # "none"
                      THEN PaddingFailure(exp.shares, padding)
                 ELSE IF ~Writable(e) THEN "invalid blob"
                 ELSE "none"
  IN  /\ pc = "blobs" /\ exp.k < Len(Blobs)
      /\ Pfbs' = IF failure = "max padding" THEN Pfbs
                 ELSE [Pfbs EXCEPT ![e.PfbIndex].ShareIndexes[e.BlobIndex] =
                         cursor % UintSize]
      /\ IF failure # "none" THEN Fail(failure)
         ELSE /\ exp' = [exp EXCEPT !.k = @ + 1, !.cursor = end, !.endOfLastBlob = end,
                           !.nonReservedStart = IF exp.k = 0 THEN cursor ELSE @,
                           !.shares = padded \o BlobShares(e)]
              /\ UNCHANGED <<pc, done, result>>
      /\ UNCHANGED <<Txs, Blobs, TxCounter, PfbCounter, currentSize, app>>

BlobsPlaced ==
  /\ pc = "blobs" /\ exp.k = Len(Blobs)
  /\ exp' = [exp EXCEPT !.k = 0]
  /\ pc' = "pfbs"
  /\ UNCHANGED <<builder, app, result>>

WritePfb ==
  /\ pc = "pfbs" /\ exp.k < Len(Pfbs)
  /\ exp' = [exp EXCEPT !.k = @ + 1,
                        !.pfbBytes = @ + DelimitedLen(ProtoSize(Pfbs[exp.k + 1]))]
  /\ UNCHANGED <<builder, pc, app, result>>

ReservedPadding_NotCopied(shares) == PlainShare(0)

\* What stands between the compact shares and the first blob.  Reserved padding
\* is only copied when there are blobs; a share nothing is copied to is the
\* zero Share.
ReservedPadding(shares) ==
  PlainShare(IF shares = <<>> THEN 0 ELSE PrimaryReservedPaddingNamespace)

\* The shares of the square, by share index + 1.
Layout(txCount, pfbCount, shares, nonReservedStart, squareSize) ==
  LET paddingStart == txCount + pfbCount
      endOfLastBlob == nonReservedStart + Len(shares)
  IN  [i \in 1..(squareSize * squareSize) |->
         IF i > endOfLastBlob THEN PlainShare(TailPaddingNamespace)
         ELSE IF i > nonReservedStart THEN shares[i - nonReservedStart]
         ELSE IF i > paddingStart THEN ReservedPadding(shares)
         ELSE PlainShare(IF i > txCount THEN PayForBlobNamespace ELSE TxNamespace)]

\* The check of the counter, WriteSquare and the end of Export.
FinishExport ==
  LET txCount == CompactSharesNeeded(exp.txBytes)
      pfbCount == CompactSharesNeeded(exp.pfbBytes)
      failure == IF Size(PfbCounter) < pfbCount THEN "pfb counter"
                 ELSE IF exp.nonReservedStart < txCount + pfbCount
                      THEN "reserved shares"
                 ELSE IF exp.ss * exp.ss < exp.nonReservedStart + Len(exp.shares)
                      THEN "square size"
                 ELSE "none"
  IN  /\ pc = "pfbs" /\ exp.k = Len(Pfbs)
      /\ IF failure # "none" THEN Fail(failure)
         ELSE /\ square' = Layout(txCount, pfbCount, exp.shares,
                                  exp.nonReservedStart, exp.ss)
              /\ err' = "none" /\ done' = TRUE
              /\ pc' = "ready" /\ exp' = NoExport
      /\ UNCHANGED <<contents, TxCounter, PfbCounter, currentSize, app>>

------------------------------------------------------------------------------
ContinueAppend == AddElement \/ FinishBlobTx

ContinueExport == SortStep \/ Sorted \/ WriteTx \/ TxsWritten \/ PlaceBlob
                    \/ BlobsPlaced \/ WritePfb \/ FinishExport

Next == \/ \E len \in TxLens : AppendTx(len)
        \/ \E btx \in BlobTxs : AppendBlobTx(btx)
        \/ ExportEmpty \/ StartExport
        \/ ContinueAppend \/ ContinueExport

Spec == Init /\ [][Next]_vars

------------------------------------------------------------------------------
Phases == {"ready", "elements", "sort", "txs", "blobs", "pfbs"}

\* Those Export checks for defensively, and those of a blob it cannot write.
DefensiveErrors == {"max padding", "namespace padding", "pfb counter",
                    "reserved shares", "square size"}
BlobErrors == {"invalid blob", "unreadable namespace"}
Failures == DefensiveErrors \cup BlobErrors

BuilderType ==
  /\ Txs \in Seq(Nat) /\ Pfbs \in Seq(IndexWrapper) /\ Blobs \in Seq(Element)
  /\ TxCounter \in Counter /\ PfbCounter \in Counter
  /\ currentSize \in Nat

AppendType ==
  app \in [iw : IndexWrapper, blobs : Seq(Blob), elements : Seq(Element),
           maxBlobShareCount : Nat]

ExportType ==
  exp \in [ss : Nat, k : Nat, txBytes : Nat, pfbBytes : Nat, cursor : Nat,
           nonReservedStart : Nat, endOfLastBlob : Nat, shares : Seq(Share)]

ResultType ==
  square \in Seq(Share) /\ err \in Failures \cup {"none"}

\* The state of a builder, of the call that is running, and what Export
\* returned.
TypeOK == BuilderType /\ done \in BOOLEAN /\ pc \in Phases /\ AppendType
            /\ ExportType /\ ResultType

\* None of the errors Export checks for defensively can occur: the padding
\* before a blob stays within the MaxPadding it was accepted with wherever
\* sorting moves it, the wrappers with their real indexes fit the shares counted
\* for the largest ones, and the blobs end within the square currentSize asks
\* for.  The errors left are about a blob that AppendBlobTx should not have taken:
\* one Write refuses, or one whose namespace cannot be read for the padding
\* behind it.
NoDefensiveError == err \notin DefensiveErrors

\* An exported square has a power of two as its side, no larger than
\* maxSquareSize, and room for all that was accepted.
SquareFits ==
  done => \E side \in PowersOfTwo :
            /\ side <= maxSquareSize
            /\ Len(square) = side * side
            /\ currentSize <= side * side
==============================================================================
