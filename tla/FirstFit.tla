------------------------------- MODULE FirstFit -------------------------------
(***************************************************************************)
(* What square.Build and square.Construct promise about the transactions   *)
(* they are given (the comments of src/square/square.go), with none of the *)
(* bookkeeping: a list is read in order of priority, and a transaction is  *)
(* kept if what was kept so far still fits together with it.  Build passes *)
(* over a transaction that does not fit; Construct is strict and refuses   *)
(* the list, also when a regular transaction follows a blob transaction.   *)
(***************************************************************************)
EXTENDS Sequences, Naturals

CONSTANTS
  Lists,          \* the lists of transactions that may be given
  IsBlobTx(_),    \* tells blob transactions from regular ones
  Fits(_)         \* whether a list of transactions fits the largest square

VARIABLES given, strict, pos, normal, blob, verdict

Init == /\ given = <<>> /\ strict = FALSE /\ pos = 0
        /\ normal = <<>> /\ blob = <<>> /\ verdict = "none"

Start ==
  /\ verdict # "running"
  /\ given' \in Lists /\ strict' \in BOOLEAN
  /\ pos' = 0 /\ normal' = <<>> /\ blob' = <<>> /\ verdict' = "running"

tx == given[pos + 1]

Reading == verdict = "running" /\ pos < Len(given)

InOrder == IsBlobTx(tx) \/ blob = <<>>

StillFits == Fits(Append(normal \o blob, tx))

Keep ==
  /\ Reading /\ StillFits /\ (strict => InOrder)
  /\ \/ IsBlobTx(tx) /\ blob' = Append(blob, tx) /\ UNCHANGED normal
     \/ ~IsBlobTx(tx) /\ normal' = Append(normal, tx) /\ UNCHANGED blob
  /\ pos' = pos + 1
  /\ UNCHANGED <<given, strict, verdict>>

PassOver ==
  /\ Reading /\ ~strict /\ ~StillFits
  /\ pos' = pos + 1
  /\ UNCHANGED <<given, strict, normal, blob, verdict>>

Refuse ==
  /\ Reading /\ strict /\ ~(StillFits /\ InOrder)
  /\ verdict' = "refused"
  /\ UNCHANGED <<given, strict, pos, normal, blob>>

Accept ==
  /\ verdict = "running" /\ pos = Len(given)
  /\ verdict' = "accepted"
  /\ UNCHANGED <<given, strict, pos, normal, blob>>

Next == Start \/ Keep \/ PassOver \/ Refuse \/ Accept

Spec == Init /\ [][Next]_<<given, strict, pos, normal, blob, verdict>>
==============================================================================
