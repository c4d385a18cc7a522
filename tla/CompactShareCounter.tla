------------------------- MODULE CompactShareCounter -------------------------
(***************************************************************************)
(* A shares.CompactShareCounter under an arbitrary sequence of Add and     *)
(* Revert calls, and the claim that it implements ByteCounter.             *)
(***************************************************************************)
EXTENDS CounterOps

CONSTANTS
  DataLens,   \* the lengths of the units that may be added
  MaxShares   \* bound: no further Add once this many shares are counted

ASSUME CounterAssumption == DataLens \subseteq Nat /\ MaxShares \in Nat

VARIABLES
  counter,    \* the struct
  diff        \* the value the last Add returned

vars == <<counter, diff>>

Init == counter = NewCompactShareCounter /\ diff = 0

AddUnit(dataLen) ==
  /\ Size(counter) <= MaxShares
  /\ counter' = Add(counter, dataLen)
  /\ diff' = AddDiff(counter')

RevertLast == counter' = Revert(counter) /\ UNCHANGED diff

Next == (\E dataLen \in DataLens : AddUnit(dataLen)) \/ RevertLast

Spec == Init /\ [][Next]_vars

------------------------------------------------------------------------------
\* The counter and its saved copy are records of naturals, and diff an integer.
TypeOK == counter \in Counter /\ diff \in Int

\* Add and Revert keep the counter and the copy Revert restores normalised:
\* full shares are always carried into `shares`, whatever mix of exact fills
\* and reverts came before.
AlwaysNormalised ==
  /\ Normalised(counter.shares, counter.remainder)
  /\ Normalised(counter.lastShares, counter.lastRemainder)

\* Size agrees with CompactSharesNeeded (share_sequence.go), the other place
\* the code computes a compact share count, on the bytes counted so far.
SizeIsSharesNeeded ==
  Size(counter) = CompactSharesNeeded(BytesOf(counter.shares, counter.remainder))

\* The counter implements ByteCounter: whatever the order of Adds and Reverts,
\* it counts every delimited byte once, Add returns exactly the growth of the
\* share count, and Revert undoes exactly the last Add.
Bytes == INSTANCE ByteCounter WITH
           bytes <- BytesOf(counter.shares, counter.remainder),
           lastBytes <- BytesOf(counter.lastShares, counter.lastRemainder)

ImplementsByteCounter == Bytes!Spec
==============================================================================
