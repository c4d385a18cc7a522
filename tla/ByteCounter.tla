----------------------------- MODULE ByteCounter -----------------------------
(***************************************************************************)
(* What a compact share counter promises: it totals the bytes of the       *)
(* length-delimited units added to it, each Add reports by how many shares *)
(* that total grew, and Revert takes back the last Add.  There are no      *)
(* share boundaries here except through CompactSharesNeeded.               *)
(***************************************************************************)
EXTENDS Integers

CONSTANTS
  DataLens,                \* the lengths of the units that may be added
  DelimitedLen(_),         \* a unit's bytes together with its delimiter's
  CompactSharesNeeded(_)   \* the shares that hold that many bytes

VARIABLES
  bytes,      \* bytes counted, delimiters included
  lastBytes,  \* bytes counted before the last Add
  diff        \* the share count change the last Add reported

vars == <<bytes, lastBytes, diff>>

Init == bytes = 0 /\ lastBytes = 0 /\ diff = 0

AddUnit(dataLen) ==
  /\ bytes' = bytes + DelimitedLen(dataLen)
  /\ lastBytes' = bytes
  /\ diff' = CompactSharesNeeded(bytes') - CompactSharesNeeded(bytes)

RevertLast ==
  /\ bytes' = lastBytes
  /\ UNCHANGED <<lastBytes, diff>>

Next == (\E dataLen \in DataLens : AddUnit(dataLen)) \/ RevertLast

Spec == Init /\ [][Next]_vars
==============================================================================
