---------------------------- MODULE IndexWrappers ----------------------------
(***************************************************************************)
(* Index wrappers as bytes (src/blob/blob.go): the transaction of a blob   *)
(* transaction with the share indexes of its blobs, marked by a type id.   *)
(*                                                                         *)
(* The encoding is protobuf's, as blob.proto declares the message: a field *)
(* is a tag, a length and its content, and an empty field is left out.     *)
(***************************************************************************)
EXTENDS CompactShares

ProtoIndexWrapperTypeID == <<1, 2, 3, 4>>   \* "INDX"

\* The tags of the fields tx, share_indexes and type_id, all length-delimited;
\* one byte each.
FieldTags == <<10, 18, 26>>

MarshalField(n, content) ==
  IF content = <<>> THEN <<>> ELSE <<FieldTags[n]>> \o MarshalDelimitedTx(content)

\* The fields of a message, each by its number; "bad" bytes are not a message.
RECURSIVE UnmarshalFields(_, _)
UnmarshalFields(bytes, fields) ==
  IF bytes = <<>> THEN [bad |-> FALSE, fields |-> fields]
  ELSE LET n == {i \in 1..3 : FieldTags[i] = Head(bytes)}
           d == ParseDelimiter(Tail(bytes))
       IN  IF n = {} \/ d.unitLen > Len(d.data) THEN [bad |-> TRUE, fields |-> fields]
           ELSE UnmarshalFields(
                  SubSeq(d.data, d.unitLen + 1, Len(d.data)),
                  [i \in 1..3 |-> IF i \in n THEN SubSeq(d.data, 1, d.unitLen)
                                  ELSE fields[i]])

\* Packed varints.
RECURSIVE UnpackIndexes(_)
UnpackIndexes(bytes) ==
  IF bytes = <<>> THEN <<>>
  ELSE LET d == ParseDelimiter(bytes) IN <<d.unitLen>> \o UnpackIndexes(d.data)

------------------------------------------------------------------------------
MarshalIndexWrapper(tx, shareIndexes) ==
  MarshalField(1, tx)
    \o MarshalField(2, FlattenSeq([i \in 1..Len(shareIndexes) |->
                                     PutUvarint(shareIndexes[i])]))
    \o MarshalField(3, ProtoIndexWrapperTypeID)

\* `ok` is whether the bytes are a wrapper: a message with the right type id.
UnmarshalIndexWrapper(tx) ==
  LET m == UnmarshalFields(tx, <<<<>>, <<>>, <<>>>>)
  IN  [ok |-> ~m.bad /\ m.fields[3] = ProtoIndexWrapperTypeID,
       tx |-> m.fields[1], ShareIndexes |-> UnpackIndexes(m.fields[2])]

IsIndexWrapper(tx) == UnmarshalIndexWrapper(tx).ok

\* shares.ExtractShareIndexes: nil, here the empty list, as soon as one wrapper
\* has no indexes.
ExtractShareIndexes(list) ==
  LET wrapped == SelectSeq(list, IsIndexWrapper)
      indexes == [i \in 1..Len(wrapped) |-> UnmarshalIndexWrapper(wrapped[i]).ShareIndexes]
  IN  IF \E i \in 1..Len(indexes) : indexes[i] = <<>> THEN <<>>
      ELSE FlattenSeq(indexes)
==============================================================================
