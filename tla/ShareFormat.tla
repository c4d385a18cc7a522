----------------------------- MODULE ShareFormat -----------------------------
(***************************************************************************)
(* The layout of a share (src/shares/consts.go) and the arithmetic that    *)
(* follows from it: how many bytes a share holds, how many shares a byte   *)
(* sequence needs, how long a varint is.  Sizes are bytes.                 *)
(*                                                                         *)
(* The layout is a parameter: the runs on the square builder use the       *)
(* code's own numbers (512-byte shares, base-128 varints); the runs that   *)
(* model share contents byte by byte use a small share.                    *)
(***************************************************************************)
EXTENDS Integers, FiniteSets

CONSTANTS
  ShareSize,                  \* 512 in the code
  NamespaceSize,              \* 29
  ShareInfoBytes,             \* 1
  SequenceLenBytes,           \* 4
  CompactShareReservedBytes,  \* 4
  VarintBase,                 \* 128: a varint byte carries 7 bits
  UintSize                    \* 2^32: what a uint32 wraps at

\* Every share has room for at least one byte of content behind its header.
ASSUME ShareFormatAssumption ==
  /\ ShareSize \in Nat /\ NamespaceSize \in Nat /\ ShareInfoBytes \in Nat
  /\ SequenceLenBytes \in Nat /\ CompactShareReservedBytes \in Nat
  /\ NamespaceSize + ShareInfoBytes + SequenceLenBytes
       + CompactShareReservedBytes < ShareSize
  /\ VarintBase \in Nat \ {0, 1}
  /\ UintSize \in Nat \ {0}

FirstCompactShareContentSize ==
  ShareSize - NamespaceSize - ShareInfoBytes - SequenceLenBytes
    - CompactShareReservedBytes

ContinuationCompactShareContentSize ==
  ShareSize - NamespaceSize - ShareInfoBytes - CompactShareReservedBytes

FirstSparseShareContentSize ==
  ShareSize - NamespaceSize - ShareInfoBytes - SequenceLenBytes

ContinuationSparseShareContentSize ==
  ShareSize - NamespaceSize - ShareInfoBytes

------------------------------------------------------------------------------
\* Namespaces keep the order of src/namespace/consts.go; what a blob may have
\* lies between the primary reserved ones and tail padding.  The last number
\* below tail padding stands for the namespaces blob.Validate lets through and
\* namespace.From refuses: those of a version other than 0 and 255.
TxNamespace == 1
PayForBlobNamespace == 4
PrimaryReservedPaddingNamespace == 255
UnsupportedNamespace == 999
TailPaddingNamespace == 1000

ShareVersionZero == 0
MaxShareVersion == 127
SupportedShareVersions == {ShareVersionZero}

------------------------------------------------------------------------------
\* A varint writes one byte, and one more for every power of its base that
\* the value reaches.  Four powers cover every length and share index below
\* 2^35.
VarintPower(k) ==
  CASE k = 1 -> VarintBase
    [] k = 2 -> VarintBase * VarintBase
    [] k = 3 -> VarintBase * VarintBase * VarintBase
    [] OTHER -> VarintBase * VarintBase * VarintBase * VarintBase

DelimLen(size) == 1 + Cardinality({k \in 1..4 : size >= VarintPower(k)})

\* What a unit of `size` bytes takes in a compact share sequence: its length
\* delimiter and itself.
DelimitedLen(size) == size + DelimLen(size)

\* Shares for `len` bytes when the first share holds `first` of them and every
\* later one `cont`: the counting loop of CompactSharesNeeded and
\* SparseSharesNeeded adds a share while the bytes available are fewer.
SharesFor(len, first, cont) ==
  IF len = 0 THEN 0
  ELSE IF len <= first THEN 1
  ELSE 1 + (len - first + cont - 1) \div cont

CompactSharesNeeded(sequenceLen) ==
  SharesFor(sequenceLen, FirstCompactShareContentSize,
            ContinuationCompactShareContentSize)

SparseSharesNeeded_Full(sequenceLen) ==
  SharesFor(sequenceLen + 1, FirstSparseShareContentSize,
            ContinuationSparseShareContentSize)

\* What the code's loop returns for lengths up to LargestSparseLen.  Above it the
\* loop's sum wraps when it is compared as a uint32, see CountingLoops.
SparseSharesNeeded(sequenceLen) ==
  SharesFor(sequenceLen, FirstSparseShareContentSize,
            ContinuationSparseShareContentSize)

\* The largest sum of share contents that is a uint32.
LargestSparseLen ==
  FirstSparseShareContentSize
    + ContinuationSparseShareContentSize
        * ((UintSize - 1 - FirstSparseShareContentSize)
             \div ContinuationSparseShareContentSize)
==============================================================================
