------------------------------- MODULE Proposal -------------------------------
(***************************************************************************)
(* square.Build and square.Construct (src/square/square.go), one after the *)
(* other on lists of transactions, over the square builder.                *)
(*                                                                         *)
(* A proposer builds a block with Build; everybody else runs Construct on  *)
(* the list Build returned and must get the very same square.  The other   *)
(* way round, a list that Construct accepts is one Build would leave as it *)
(* is.  The machine calls one of the two on any list and then the other on *)
(* the list the first one answered with.  Each call makes a builder of its *)
(* own, whose steps are those of SquareBuilder.                            *)
(***************************************************************************)
EXTENDS BuilderProperties

VARIABLES
  call,         \* the function called last
  txs, pos,     \* the list it was given and the transactions read from it
  normalTxs, blobTxs,    \* the transactions the builder took
  seenFirstBlobTx,
  status,       \* "idle", "loop", "append", "export", "exported", "returned"
  answers       \* what the calls returned

locals == <<txs, normalTxs, blobTxs, call, answers>>
pvars == <<vars, locals, pos, seenFirstBlobTx, status>>

\* UnmarshalBlobTx tells the two kinds of transaction apart.
Offered == [isBlobTx : {FALSE}, tx : TxLens, blobs : {<<>>}]
             \cup {[isBlobTx |-> TRUE, tx |-> btx.tx, blobs |-> btx.blobs] : btx \in BlobTxs}

Lists == SeqOf(Offered, MaxTxs)

Start ==
  /\ Init
  /\ call = "none" /\ txs = <<>> /\ pos = 0
  /\ normalTxs = <<>> /\ blobTxs = <<>> /\ seenFirstBlobTx = FALSE
  /\ status = "idle" /\ answers = <<>>

\* A call, up to the loop over its list: NewBuilder makes an empty builder.
Call(name, list) ==
  /\ call' = name /\ txs' = list /\ pos' = 0
  /\ normalTxs' = <<>> /\ blobTxs' = <<>> /\ seenFirstBlobTx' = FALSE
  /\ status' = "loop" /\ UNCHANGED answers
  /\ Txs' = <<>> /\ Pfbs' = <<>> /\ Blobs' = <<>>
  /\ TxCounter' = NewCompactShareCounter /\ PfbCounter' = NewCompactShareCounter
  /\ currentSize' = 0 /\ done' = FALSE
  /\ pc' = "ready" /\ app' = NoAppend /\ exp' = NoExport
  /\ square' = EmptySquare /\ err' = "none"

CallFirst ==
  /\ status = "idle"
  /\ \E list \in Lists : Call("Build", list) \/ Call("Construct", list)

\* The other function, on the list of the first answer.
CallSecond ==
  /\ status = "returned" /\ Len(answers) = 1 /\ answers[1].ok
  /\ Call(IF call = "Build" THEN "Construct" ELSE "Build", answers[1].txs)

------------------------------------------------------------------------------
tx == txs[pos + 1]

Reading == status = "loop" /\ pos < Len(txs)

\* NewBuilder returns no builder, and Construct no square.
Refuse(reason) ==
  /\ status' = "returned"
  /\ answers' = Append(answers, [ok |-> FALSE, txs |-> txs, square |-> <<>>, err |-> reason])
  /\ UNCHANGED <<call, txs, pos, normalTxs, blobTxs>>

\* The builder had no room: Build reads on, NewBuilder fails.
NoRoom ==
  IF call = "Build"
  THEN pos' = pos + 1 /\ status' = "loop" /\ UNCHANGED locals
  ELSE Refuse("not enough space")

ReadTx_AnyOrder ==
  /\ Reading /\ ~tx.isBlobTx
  /\ AppendTx(tx.tx)
  /\ IF Len(Txs') > Len(Txs)
     THEN /\ normalTxs' = Append(normalTxs, tx) /\ pos' = pos + 1
          /\ UNCHANGED <<status, txs, blobTxs, call, answers>>
     ELSE NoRoom
  /\ UNCHANGED seenFirstBlobTx

ReadTx ==
  /\ Reading /\ ~tx.isBlobTx /\ ~(call = "Construct" /\ seenFirstBlobTx)
  /\ AppendTx(tx.tx)
  /\ IF Len(Txs') > Len(Txs)
     THEN /\ normalTxs' = Append(normalTxs, tx) /\ pos' = pos + 1
          /\ UNCHANGED <<status, txs, blobTxs, call, answers>>
     ELSE NoRoom
  /\ UNCHANGED seenFirstBlobTx

ReadTxOutOfOrder ==
  /\ Reading /\ ~tx.isBlobTx /\ call = "Construct" /\ seenFirstBlobTx
  /\ Refuse("normal tx after blob tx")
  /\ UNCHANGED <<vars, seenFirstBlobTx>>

ReadBlobTx ==
  /\ Reading /\ tx.isBlobTx
  /\ AppendBlobTx(tx)
  /\ seenFirstBlobTx' = TRUE /\ status' = "append"
  /\ UNCHANGED <<locals, pos>>

\* AppendBlobTx runs; when it returns, the transaction was taken or not.
AppendRuns ==
  /\ status = "append"
  /\ \/ AddElement /\ UNCHANGED <<locals, pos, status>>
     \/ /\ FinishBlobTx
        /\ IF Len(Pfbs') > Len(Pfbs)
           THEN /\ blobTxs' = Append(blobTxs, tx) /\ pos' = pos + 1 /\ status' = "loop"
                /\ UNCHANGED <<txs, normalTxs, call, answers>>
           ELSE NoRoom
  /\ UNCHANGED seenFirstBlobTx

------------------------------------------------------------------------------
EndOfList ==
  /\ status = "loop" /\ pos = Len(txs)
  /\ \/ ExportEmpty /\ status' = "exported"
     \/ StartExport /\ status' = "export"
  /\ UNCHANGED <<locals, pos, seenFirstBlobTx>>

ExportRuns ==
  /\ status = "export"
  /\ ContinueExport
  /\ status' = IF pc' = "ready" THEN "exported" ELSE "export"
  /\ UNCHANGED <<locals, pos, seenFirstBlobTx>>

BuildTxs_AsGiven == SelectSeq(txs, LAMBDA t : t \in ToSet(normalTxs \o blobTxs))

\* The list Build returns with the square.
BuildTxs == normalTxs \o blobTxs

Return ==
  /\ status = "exported"
  /\ status' = "returned"
  /\ answers' = Append(answers,
       [ok |-> TRUE, txs |-> IF call = "Build" THEN BuildTxs ELSE txs,
        square |-> IF err = "none" THEN square ELSE <<>>, err |-> err])
  /\ UNCHANGED <<vars, call, txs, normalTxs, blobTxs, pos, seenFirstBlobTx>>

Step == ReadTx \/ ReadTxOutOfOrder \/ ReadBlobTx \/ AppendRuns \/ EndOfList
          \/ ExportRuns \/ Return

Steps == CallFirst \/ CallSecond \/ Step

Proposals == Start /\ [][Steps]_pvars

------------------------------------------------------------------------------
\* TxShareRange and BlobShareRange: the queries, on the builder of the list.
NoRange == [Start |-> NotFound, End |-> NotFound]

TxShareRange(txIndex) ==
  IF txIndex < 0 \/ txIndex >= Len(Txs) + Len(Pfbs) THEN NoRange
  ELSE FindTxShareRange(txIndex)

BlobShareRange(txIndex, blobIndex) ==
  LET start == FindBlobStartingIndex(txIndex, blobIndex)
      blobLen == BlobShareLength(txIndex, blobIndex)
  IN  IF start = NotFound \/ blobLen = NotFound THEN NoRange
      ELSE [Start |-> start, End |-> start + blobLen]

\* For a list Construct made a square of, BlobShareRange answers for exactly the
\* blobs of its blob transactions, with the shares that carry them, and
\* TxShareRange for exactly its transactions, with the shares of their bytes;
\* every other index, one past the end or below zero, is an error.
QueriesMatchSquare ==
  (status = "returned" /\ call = "Construct" /\ done) =>
    \A txIndex \in -1..(Len(txs) + 1) :
      /\ \A blobIndex \in -1..2 :
           LET range == BlobShareRange(txIndex, blobIndex)
               pfb == txIndex - Len(Txs) + 1
           IN  IF txIndex \in 0..(Len(txs) - 1)
                    /\ blobIndex \in 0..(Len(txs[txIndex + 1].blobs) - 1)
               THEN (range.Start + 1)..range.End =
                      {i \in 1..Len(square) : square[i].pfb = pfb
                                              /\ square[i].blob = blobIndex + 1}
               ELSE range = NoRange
      /\ LET range == TxShareRange(txIndex)
         IN  IF txIndex \in 0..(Len(txs) - 1)
             THEN <<range.Start, range.End - 1>> = SharesOfTx(txIndex)
             ELSE range = NoRange

\* Proposer and validators agree: Construct accepts every list Build returned,
\* and Build keeps every list Construct accepted, both with the same square, or
\* with the same error of Export.
BuildAgreesWithConstruct == Len(answers) = 2 => answers[1] = answers[2]

\* The shares a list takes at most, from the transactions alone.
WorstShares(list) ==
  LET bytes(n) == DelimitedLen(list[n].tx)
      wrapper(n) == [tx |-> list[n].tx,
                     ShareIndexes |-> worstCaseShareIndexes(Len(list[n].blobs))]
      blobShares(n) ==
        SumOver(LAMBDA j : LET shares == SparseSharesNeeded(list[n].blobs[j].len)
                           IN  shares + SubTreeWidth(shares, subtreeRootThreshold) - 1,
                Len(list[n].blobs))
      over(Op(_), kind) ==
        SumOver(LAMBDA n : IF list[n].isBlobTx = kind THEN Op(n) ELSE 0, Len(list))
  IN  CompactSharesNeeded(over(bytes, FALSE))
        + CompactSharesNeeded(over(LAMBDA n : DelimitedLen(ProtoSize(wrapper(n))), TRUE))
        + over(blobShares, TRUE)

FitsSquare(list) == WorstShares(list) <= maxSquareSize * maxSquareSize

TakesBlobs(t) == t.isBlobTx

Verdict == CASE status = "idle" -> "none"
             [] status \in {"loop", "append"} -> "running"
             [] status \in {"export", "exported"} -> "accepted"
             [] status = "returned" -> IF Last(answers).ok THEN "accepted" ELSE "refused"

FF == INSTANCE FirstFit WITH IsBlobTx <- TakesBlobs, Fits <- FitsSquare, given <- txs,
        strict <- (call = "Construct"), normal <- normalTxs, blob <- blobTxs,
        verdict <- Verdict

\* Build and Construct choose transactions as FirstFit does: the counters that
\* are added to and reverted, and the running currentSize, decide exactly as a
\* count of all shares made afresh for every transaction would.
ImplementsFirstFit == FF!Spec
==============================================================================
