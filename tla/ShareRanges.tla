----------------------------- MODULE ShareRanges -----------------------------
(***************************************************************************)
(* A list of shares in namespace order, as a square is, and where the      *)
(* shares of a namespace are in it.  Of a share only its namespace         *)
(* matters; the list grows a share at a time.                              *)
(***************************************************************************)
EXTENDS RangeOps

CONSTANTS
  Namespaces,  \* the namespaces of the shares offered
  MaxShares    \* bound: the list has no more shares than this

ASSUME RangesAssumption == Namespaces \subseteq Nat /\ MaxShares \in Nat

VARIABLE list   \* the namespaces of the shares, in order

RangesInit == list = <<>>

AppendShare(ns) ==
  /\ Len(list) < MaxShares
  /\ \A i \in 1..Len(list) : list[i] <= ns
  /\ list' = Append(list, ns)

RangesNext == \E ns \in Namespaces : AppendShare(ns)

RangesSpec == RangesInit /\ [][RangesNext]_list

------------------------------------------------------------------------------
\* The list is sorted by namespace.
Ordered ==
  /\ list \in Seq(Nat)
  /\ \A i, j \in 1..Len(list) : i <= j => list[i] <= list[j]

Readable(ss) == \A i \in 1..Len(ss) : ss[i] # UnsupportedNamespace

IsRangeOf(range, ss, ns) ==
  \/ range = EmptyRange /\ \A i \in 1..Len(ss) : ss[i] # ns
  \/ /\ range.Start < range.End
     /\ \A i \in 1..Len(ss) : ss[i] = ns <=> range.Start < i /\ i <= range.End

\* The range GetShareRangeForNamespace returns for a namespace, in the list or
\* not, holds all of its shares and no other, first and last share of the list
\* included; it is the empty range only if there is none.
RangesExact ==
  Readable(list) =>
    \A ns \in Namespaces : IsRangeOf(GetShareRangeForNamespace(list, ns), list, ns)

==============================================================================
