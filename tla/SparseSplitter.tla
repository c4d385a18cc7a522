---------------------------- MODULE SparseSplitter ----------------------------
(***************************************************************************)
(* A SparseShareSplitter in use, as Export of the square builder uses it:  *)
(* blobs are written, with namespace padding between them, and what it     *)
(* made so far is parsed, whole and in part.                               *)
(***************************************************************************)
EXTENDS SparseShares

CONSTANTS
  BlobsOffered,  \* the blobs Write is called with
  Counts,        \* the counts WriteNamespacePaddingShares is called with
  MaxCalls       \* bound: no more calls than this

ASSUME SparseAssumption ==
  /\ \A blob \in BlobsOffered : /\ blob.ns \in Nat /\ blob.version \in Nat
                                /\ blob.data \in Seq(Nat)
  /\ Counts \subseteq Int /\ MaxCalls \in Nat

VARIABLES
  shares,    \* the shares of the splitter
  written,   \* what the calls wrote: a blob each, or a share of padding
  writeErr,  \* the error of the last call, or "none"
  calls

sparseVars == <<shares, written, writeErr, calls>>

SparseInit == shares = <<>> /\ written = <<>> /\ writeErr = "none" /\ calls = 0

PaddingBlob == [ns |-> 0, data |-> <<>>, version |-> 0]

\* A call that fails has written nothing.
Write(blob) ==
  /\ calls < MaxCalls /\ calls' = calls + 1
  /\ writeErr' = WriteError(blob)
  /\ \/ /\ writeErr' = "none"
        /\ shares' = shares \o WriteBlob(blob)
        /\ written' = Append(written, blob)
     \/ writeErr' # "none" /\ UNCHANGED <<shares, written>>

WriteNamespacePadding(count) ==
  /\ calls < MaxCalls /\ calls' = calls + 1
  /\ writeErr' = PaddingError(shares, count)
  /\ \/ /\ writeErr' = "none"
        /\ shares' = shares \o NamespacePaddingShares(shares, count)
        /\ written' = written \o [i \in 1..count |-> PaddingBlob]
     \/ writeErr' # "none" /\ UNCHANGED <<shares, written>>

SparseNext ==
  \/ \E blob \in BlobsOffered : Write(blob)
  \/ \E count \in Counts : WriteNamespacePadding(count)

SparseSpec == SparseInit /\ [][SparseNext]_sparseVars

------------------------------------------------------------------------------
SharesOf(item) == IF item = PaddingBlob THEN 1 ELSE SparseSharesNeeded(Len(item.data))

\* The shares before the k-th item written, by the count of SparseSharesNeeded
\* that the square builder and Deconstruct reckon with.
SharesBefore(k) ==
  FoldSeq(LAMBDA item, sum : sum + SharesOf(item), 0, SubSeq(written, 1, k - 1))

BlobsAmong(k, m) ==
  SelectSeq(SubSeq(written, k, m), LAMBDA item : item # PaddingBlob)

ReadableRun(i, j) == \A n \in i..j : HasNamespace(shares[n])

\* What was written takes exactly the shares SparseSharesNeeded says, and the
\* shares of any run of it, found by that count alone, parse to the blobs of the
\* run: each with its namespace, its version and its data, trailing zero bytes
\* included, and none for the padding between them.  A run may be one blob, as
\* Deconstruct demands, or everything; it only must not hold a share whose
\* namespace cannot be read.
BlobsWhereCounted ==
  /\ Len(shares) = SharesBefore(Len(written) + 1)
  /\ \A k \in 1..Len(written) : \A m \in k..Len(written) :
       LET first == SharesBefore(k) + 1
           last == SharesBefore(m + 1)
       IN  \A spare \in Spares :
             ReadableRun(first, last) =>
               ParseBlobs(SubSeq(shares, first, last), spare) = Parsed(BlobsAmong(k, m))

\* The bytes of the item written m-th in shares up to the j-th, which is one of
\* its own, and the item with all other bytes zero.
Held(m, j) ==
  FirstSparseShareContentSize
    + (j - SharesBefore(m) - 1) * ContinuationSparseShareContentSize

ZeroedFrom(item, held) ==
  [item EXCEPT !.data = [b \in 1..Len(item.data) |-> IF b > held THEN 0 ELSE item.data[b]]]

\* Runs of shares that cut a sequence, at either end, or hold a share whose
\* namespace cannot be read.  ParseShares refuses them all, and accepts all
\* others with the data of their blobs.  ParseBlobs refuses a run that begins
\* inside a sequence or cannot be read.  One that ends inside a sequence it does
\* not notice: it panics if more bytes are missing than the slice has capacity
\* to spare, and else returns zeros in their place, with no error; the blobs
\* before the cut one are right.
CutRuns ==
  \A k \in 1..Len(written) : \A m \in k..Len(written) :
    \A i \in (SharesBefore(k) + 1)..SharesBefore(k + 1) :
      \A j \in (SharesBefore(m) + 1)..SharesBefore(m + 1) :
        LET range == SubSeq(shares, i, j)
            starts == i = SharesBefore(k) + 1
            seqs == ParseShares(range, TRUE)
            missing == Len(written[m].data) - Held(m, j)
            cut == BlobsAmong(k, m - 1) \o <<ZeroedFrom(written[m], Held(m, j))>>
        IN  i <= j =>
              /\ seqs.err = "none" <=>
                   ReadableRun(i, j) /\ starts /\ j = SharesBefore(m + 1)
              /\ seqs.err = "none" =>
                   [n \in 1..Len(seqs.val) |-> RawDataOf(seqs.val[n])]
                     = [n \in 1..Len(BlobsAmong(k, m)) |-> BlobsAmong(k, m)[n].data]
              /\ \A spare \in Spares :
                   LET parsed == ParseBlobs(range, spare)
                   IN  CASE ~ReadableRun(i, j) \/ ~starts -> parsed.err \notin {"none", "panic"}
                         [] OTHER -> /\ parsed.err = IF missing > spare THEN "panic" ELSE "none"
                                     /\ missing \in 1..spare => parsed.val = cut
==============================================================================
