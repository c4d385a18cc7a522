----------------------------- MODULE SparseShares -----------------------------
(***************************************************************************)
(* The operations of shares.SparseShareSplitter                            *)
(* (src/shares/split_sparse_shares.go) on the shares it has made, the      *)
(* parser of blobs (parse_sparse_shares.go) and the parser of share        *)
(* sequences (parse.go, share_sequence.go), which serves both kinds of     *)
(* share.                                                                  *)
(*                                                                         *)
(* A blob is its namespace, data and share version; a parser returns an    *)
(* error and a value.                                                      *)
(***************************************************************************)
EXTENDS ShareOps

CONSTANT Spares   \* the bytes of capacity Go may leave a slice beyond its length

Failed(reason) == [err |-> reason, val |-> <<>>]
Parsed(val) == [err |-> "none", val |-> val]

------------------------------------------------------------------------------
\* Blob.Validate on the fields that matter here.  The share version of a blob is
\* a uint32; one byte of it reaches the shares.
MaxUint8 == 255

Validate(blob) ==
  IF blob.version > MaxUint8 THEN "share version"
  ELSE IF blob.data = <<>> THEN "zero data"
  ELSE "none"

WriteError(blob) ==
  IF Validate(blob) # "none" THEN Validate(blob)
  ELSE IF blob.version % 256 \notin SupportedShareVersions THEN "share version"
  ELSE IF InfoByteError(blob.version % 256) THEN "info byte"
  ELSE "none"

\* The loop of Write from the share `b` on: every share but the last is full.
RECURSIVE WriteRest(_, _)
WriteRest(b, rawData) ==
  LET rest == LeftOver(b, rawData)
      next == NewBuilder(b.ns, Version(b), FALSE)
  IN  IF rest = <<>> THEN <<ZeroPadIfNecessary(AddData(b, rawData))>>
      ELSE <<AddData(b, rawData)>> \o WriteRest(next, rest)

\* The shares Write adds for a blob it accepts.
WriteBlob(blob) ==
  WriteRest(WriteSequenceLen(NewBuilder(blob.ns, blob.version % 256, TRUE), Len(blob.data)),
            blob.data)

PaddingError(shares, count) ==
  IF count < 0 THEN "negative"
  ELSE IF count = 0 THEN "none"
  ELSE IF shares = <<>> THEN "empty splitter"
  ELSE IF ~HasNamespace(Last(shares)) THEN "namespace"
  ELSE "none"

\* The shares WriteNamespacePaddingShares adds, in the namespace and version of
\* the share written last.
NamespacePaddingShares(shares, count) ==
  [i \in 1..count |-> NamespacePaddingShare(Last(shares).ns, Version(Last(shares)))]

------------------------------------------------------------------------------
\* The runs of shares from one sequence start up to the next.
SequencesOf(shares) ==
  LET starts == SelectSeq([i \in 1..Len(shares) |-> i],
                          LAMBDA i : IsSequenceStart(shares[i]))
  IN  [k \in 1..Len(starts) |->
         SubSeq(shares, starts[k],
                IF k = Len(starts) THEN Len(shares) ELSE starts[k + 1] - 1)]

DataOf(seq) == FlattenSeq([i \in 1..Len(seq) |-> RawData(seq[i])])

\* The data of a sequence, sliced to the length in its first share.  A slice may
\* reach into the spare capacity, where append left zeros.
Sliced(seq) ==
  LET data == DataOf(seq)
      missing == SequenceLen(seq[1]) - Len(data)
  IN  SubSeq(data \o [i \in 1..missing |-> 0], 1, SequenceLen(seq[1]))

\* parseSparseShares passes over padding and lets a continuation share go with
\* the start before it.  The length of a sequence is trusted: "panic" is a slice
\* past the capacity, which exceeds the length of the data by `spare`.
ParseBlobs(shares, spare) ==
  LET kept == SelectSeq(shares, LAMBDA share : ~IsPadding(share))
      seqs == SequencesOf(kept)
  IN  IF \E i \in 1..Len(shares) : Version(shares[i]) \notin SupportedShareVersions
      THEN Failed("share version")
      ELSE IF \E i \in 1..Len(shares) : ~HasNamespace(shares[i]) THEN Failed("namespace")
      ELSE IF kept # <<>> /\ ~IsSequenceStart(kept[1]) THEN Failed("no sequence start")
      ELSE IF \E k \in 1..Len(seqs) : SequenceLen(seqs[k][1]) > Len(DataOf(seqs[k])) + spare
      THEN Failed("panic")
      ELSE Parsed([k \in 1..Len(seqs) |->
                     [ns |-> seqs[k][1].ns, version |-> Version(seqs[k][1]),
                      data |-> Sliced(seqs[k])]])

------------------------------------------------------------------------------
\* ShareSequence: a non-empty run of shares.
IsPaddingSequence(seq) == Len(seq) = 1 /\ IsPadding(seq[1])

numberOfSharesNeeded_Sparse(first) == SparseSharesNeeded(first.sequenceLen)

numberOfSharesNeeded(first) ==
  IF IsCompactShare(first) THEN CompactSharesNeeded(first.sequenceLen)
  ELSE SparseSharesNeeded(first.sequenceLen)

validSequenceLen_AtMost(seq) ==
  IsPaddingSequence(seq) \/ Len(seq) <= numberOfSharesNeeded(seq[1])

validSequenceLen(seq) ==
  IsPaddingSequence(seq) \/ Len(seq) = numberOfSharesNeeded(seq[1])

RawDataOf(seq) == SubSeq(DataOf(seq), 1, SequenceLen(seq[1]))

\* A continuation share must have the namespace of the sequence it continues;
\* before the first start that is the zero value, which no share has.
ParseShares(shares, ignorePadding) ==
  LET seqs == SequencesOf(shares)
  IN  IF \E i \in 1..Len(shares) : ~HasNamespace(shares[i]) THEN Failed("namespace")
      ELSE IF \/ shares # <<>> /\ ~IsSequenceStart(shares[1])
              \/ \E k \in 1..Len(seqs) : \E i \in 1..Len(seqs[k]) :
                   seqs[k][i].ns # seqs[k][1].ns
      THEN Failed("inconsistent namespace")
      ELSE IF \E k \in 1..Len(seqs) : ~validSequenceLen(seqs[k])
      THEN Failed("sequence length")
      ELSE Parsed(SelectSeq(seqs, LAMBDA seq : ~(ignorePadding /\ IsPaddingSequence(seq))))
==============================================================================
