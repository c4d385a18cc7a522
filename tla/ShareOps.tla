------------------------------- MODULE ShareOps -------------------------------
(***************************************************************************)
(* shares.Share (src/shares/shares.go), its info byte (info_byte.go), the  *)
(* Builder that writes one (share_builder.go) and padding (padding.go).    *)
(*                                                                         *)
(* A share is its fields: the namespace, the info byte, the sequence       *)
(* length, which takes room only in the first share of a sequence, the     *)
(* reserved bytes, which only compact shares have, and the content.  A     *)
(* Builder is the share it has written so far.                             *)
(***************************************************************************)
EXTENDS CounterOps, SequencesExt

------------------------------------------------------------------------------
\* The info byte: seven bits of version, one for the start of a sequence.  A
\* version that needs more bits is an error, and so is making a share of it.
InfoByteError(version) == version > MaxShareVersion

NewInfoByte(version, isSequenceStart) ==
  2 * version + (IF isSequenceStart THEN 1 ELSE 0)

Version(share) == share.info \div 2
IsSequenceStart(share) == share.info % 2 = 1

------------------------------------------------------------------------------
NewBuilder(ns, version, isFirstShare) ==
  [ns |-> ns, info |-> NewInfoByte(version, isFirstShare), sequenceLen |-> 0,
   reserved |-> 0, data |-> <<>>]

IsCompactShare(share) == share.ns \in {TxNamespace, PayForBlobNamespace}

\* Where the content starts.
HeaderLen(share) ==
  NamespaceSize + ShareInfoBytes
    + (IF IsSequenceStart(share) THEN SequenceLenBytes ELSE 0)
    + (IF IsCompactShare(share) THEN CompactShareReservedBytes ELSE 0)

AvailableBytes(b) == ShareSize - (HeaderLen(b) + Len(b.data))

IsEmptyShare(b) == b.data = <<>>

WriteSequenceLen(b, len) == [b EXCEPT !.sequenceLen = len]

\* AddData writes what fits and returns the rest; the rest is nil, and the loops
\* around it end, when all of it fits.
AddData(b, rawData) ==
  [b EXCEPT !.data = @ \o SubSeq(rawData, 1, Min({AvailableBytes(b), Len(rawData)}))]

LeftOver(b, rawData) == SubSeq(rawData, AvailableBytes(b) + 1, Len(rawData))

ZeroPadIfNecessary(b) == [b EXCEPT !.data = @ \o [i \in 1..AvailableBytes(b) |-> 0]]

MaybeWriteReservedBytes_Overwrite(b) ==
  [b EXCEPT !.reserved = HeaderLen(b) + Len(b.data)]

\* The index of the next unit, unless one already begins in the share.
MaybeWriteReservedBytes(b) ==
  IF b.reserved # 0 THEN b
  ELSE [b EXCEPT !.reserved = HeaderLen(b) + Len(b.data)]

------------------------------------------------------------------------------
\* Reading a share.  Every reader asks for the namespace, which namespace.From
\* may refuse.
HasNamespace(share) == share.ns # UnsupportedNamespace

SequenceLen(share) == IF IsSequenceStart(share) THEN share.sequenceLen ELSE 0

IsPadding(share) ==
  \/ IsSequenceStart(share) /\ SequenceLen(share) = 0
  \/ share.ns \in {TailPaddingNamespace, PrimaryReservedPaddingNamespace}

RawData(share) == share.data

RawDataUsingReserved(share) ==
  IF ~IsCompactShare(share) THEN share.data
  ELSE IF share.reserved = 0 THEN <<>>
  ELSE SubSeq(share.data, share.reserved - HeaderLen(share) + 1, Len(share.data))

------------------------------------------------------------------------------
NamespacePaddingShare(ns, version) ==
  ZeroPadIfNecessary(WriteSequenceLen(NewBuilder(ns, version, TRUE), 0))

ReservedPaddingShare ==
  NamespacePaddingShare(PrimaryReservedPaddingNamespace, ShareVersionZero)
TailPaddingShare == NamespacePaddingShare(TailPaddingNamespace, ShareVersionZero)
==============================================================================
