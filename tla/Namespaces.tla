------------------------------ MODULE Namespaces ------------------------------
(***************************************************************************)
(* Package namespace (src/namespace): how namespaces are made, written as  *)
(* bytes, read back and compared.  The sizes are constants; the code has   *)
(* 28 bytes of ID of which 18 are zero in version 0.                       *)
(***************************************************************************)
EXTENDS Integers, Sequences, FiniteSets

CONSTANTS
  NamespaceIDSize,
  NamespaceVersionZeroPrefixSize,
  Bytewise,   \* the values of bytes looked at
  MaxMade     \* bound on the namespaces made

ASSUME SizesAssumption ==
  /\ NamespaceIDSize \in Nat /\ NamespaceVersionZeroPrefixSize \in Nat
  /\ NamespaceVersionZeroPrefixSize < NamespaceIDSize
  /\ Bytewise \subseteq 0..255

VARIABLES
  made,    \* the namespaces made so far, with the number of the sub ID if any
  err      \* whether the last call returned an error

namespaceVars == <<made, err>>

NamespaceVersionZero == 0
NamespaceVersionMax == 255
NamespaceVersionZeroIDSize == NamespaceIDSize - NamespaceVersionZeroPrefixSize
NamespaceSize == 1 + NamespaceIDSize

Repeated(byte, n) == [i \in 1..n |-> byte]

Strings(n) == [1..n -> Bytewise]

Namespace(version, id) == [Version |-> version, ID |-> id]

primaryReservedNamespace(lastByte) ==
  Namespace(NamespaceVersionZero, Append(Repeated(0, NamespaceIDSize - 1), lastByte))

secondaryReservedNamespace(lastByte) ==
  Namespace(NamespaceVersionMax, Append(Repeated(255, NamespaceIDSize - 1), lastByte))

TxNamespace == primaryReservedNamespace(1)
IntermediateStateRootsNamespace == primaryReservedNamespace(2)
PayForBlobNamespace == primaryReservedNamespace(4)
PrimaryReservedPaddingNamespace == primaryReservedNamespace(255)
MaxPrimaryReservedNamespace == primaryReservedNamespace(255)
MinSecondaryReservedNamespace == secondaryReservedNamespace(0)
TailPaddingNamespace == secondaryReservedNamespace(254)
ParitySharesNamespace == secondaryReservedNamespace(255)
SupportedBlobNamespaceVersions == {NamespaceVersionZero}

------------------------------------------------------------------------------
BytesOf(n) == <<n.Version>> \o n.ID

\* bytes.Compare(a, b) == -1.
Before(a, b) ==
  \/ \E i \in 1..Len(a) : /\ i <= Len(b) /\ a[i] < b[i]
                          /\ \A j \in 1..(i - 1) : a[j] = b[j]
  \/ Len(a) < Len(b) /\ \A j \in 1..Len(a) : a[j] = b[j]

IsLessThan(n, n2) == Before(BytesOf(n), BytesOf(n2))

IsLessOrEqualThan(n, n2) == ~Before(BytesOf(n2), BytesOf(n))

IsGreaterOrEqualThan(n, n2) == ~Before(BytesOf(n), BytesOf(n2))

IsPrimaryReserved(n) == IsLessOrEqualThan(n, MaxPrimaryReservedNamespace)

IsSecondaryReserved(n) == IsGreaterOrEqualThan(n, MinSecondaryReservedNamespace)

IsReserved(n) == IsPrimaryReserved(n) \/ IsSecondaryReserved(n)

isBlobNamespace(n) == ~IsReserved(n) /\ n.Version \in SupportedBlobNamespaceVersions

validateVersionSupported(version) == version \in {NamespaceVersionZero, NamespaceVersionMax}

validateID(version, id) ==
  /\ Len(id) = NamespaceIDSize
  /\ version = NamespaceVersionZero =>
       SubSeq(id, 1, NamespaceVersionZeroPrefixSize) = Repeated(0, NamespaceVersionZeroPrefixSize)

\* Whether New returns no error.
Valid(version, id) == validateVersionSupported(version) /\ validateID(version, id)

leftPad_Right(b, size) ==
  IF Len(b) >= size THEN b ELSE b \o Repeated(0, size - Len(b))

leftPad(b, size) ==
  IF Len(b) >= size THEN b ELSE Repeated(0, size - Len(b)) \o b

IDOfSubID(subID) ==
  Repeated(0, NamespaceVersionZeroPrefixSize) \o leftPad(subID, NamespaceVersionZeroIDSize)

\* Whether From returns no error, and the namespace it returns.
FromAccepts(b) == Len(b) = NamespaceSize /\ Valid(b[1], Tail(b))

FromBytes(b) == Namespace(b[1], Tail(b))

------------------------------------------------------------------------------
\* The number a sub ID is in base 256.
NumberOf(b) ==
  LET value[i \in 0..Len(b)] == IF i = 0 THEN 0 ELSE 256 * value[i - 1] + b[i]
  IN  value[Len(b)]

NoNumber == -1

Made(ns, number) ==
  made' = Append(made, [ns |-> ns, number |-> number]) /\ err' = FALSE

Refused == err' = TRUE /\ UNCHANGED made

NamespaceInit == made = <<>> /\ err = FALSE

New(version, id) ==
  \/ Valid(version, id) /\ Made(Namespace(version, id), NoNumber)
  \/ ~Valid(version, id) /\ Refused

NewV0(subID) ==
  LET id == IDOfSubID(subID)
      good == Len(subID) <= NamespaceVersionZeroIDSize /\ Valid(NamespaceVersionZero, id)
  IN  \/ good /\ Made(Namespace(NamespaceVersionZero, id), NumberOf(subID))
      \/ ~good /\ Refused

From(b) ==
  \/ FromAccepts(b) /\ Made(FromBytes(b), NoNumber)
  \/ ~FromAccepts(b) /\ Refused

\* RandomBlobNamespace draws until it has a namespace blobs may have.
RandomBlobNamespace ==
  \E subID \in Strings(NamespaceVersionZeroIDSize) :
    LET ns == Namespace(NamespaceVersionZero, IDOfSubID(subID))
    IN  isBlobNamespace(ns) /\ Made(ns, NumberOf(subID))

\* The namespaces the package declares.
Reserved == {TxNamespace, IntermediateStateRootsNamespace, PayForBlobNamespace,
             PrimaryReservedPaddingNamespace, TailPaddingNamespace, ParitySharesNamespace}

TakeReserved == \E ns \in Reserved : Made(ns, NoNumber)

Make ==
  \/ \E version \in {0, 1, 255}, n \in (NamespaceIDSize - 1)..(NamespaceIDSize + 1) :
       \E id \in Strings(n) : New(version, id)
  \/ \E n \in 0..(NamespaceVersionZeroIDSize + 1) : \E subID \in Strings(n) : NewV0(subID)
  \/ \E n \in 0..NamespaceSize : \E b \in Strings(n) : From(b)
  \/ RandomBlobNamespace
  \/ TakeReserved

NamespaceNext == Len(made) < MaxMade /\ Make

NamespaceSpec == NamespaceInit /\ [][NamespaceNext]_namespaceVars

------------------------------------------------------------------------------
Namespaces == {made[i].ns : i \in 1..Len(made)}

\* Sub IDs of any length are ordered as numbers: padding on the left makes the
\* order of two namespaces of NewV0 the order of the numbers, and makes them
\* equal just when the numbers are.  A namespace blobs may have lies strictly
\* between all namespaces of what is written before the blobs and all of what is
\* written behind them, which Export and GetShareRangeForNamespace take for
\* granted.  The bytes of a namespace, as they stand in a share, give it back,
\* whichever way it was made, for the declared ones as well.
NamespaceOrderKept ==
  /\ \A i, j \in 1..Len(made) :
       (made[i].number # NoNumber /\ made[j].number # NoNumber) =>
         /\ IsLessThan(made[i].ns, made[j].ns) <=> made[i].number < made[j].number
         /\ made[i].ns = made[j].ns <=> made[i].number = made[j].number
  /\ \A ns \in Namespaces :
       /\ FromAccepts(BytesOf(ns)) /\ FromBytes(BytesOf(ns)) = ns
       /\ isBlobNamespace(ns) =>
            \A other \in Reserved :
              IF other.Version = NamespaceVersionZero THEN IsLessThan(other, ns)
              ELSE IsLessThan(ns, other)
==============================================================================
