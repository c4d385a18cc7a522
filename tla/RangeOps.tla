------------------------------ MODULE RangeOps ------------------------------
(***************************************************************************)
(* shares.GetShareRangeForNamespace (src/shares/namespace.go) and Range    *)
(* (src/shares/range.go) on the namespaces of a list of shares.            *)
(***************************************************************************)
EXTENDS ShareFormat, FiniteSetsExt, Sequences

EmptyRange == [Start |-> 0, End |-> 0]

RangeIsEmpty(range) == range.Start = 0 /\ range.End = 0

RangeAdd(range, value) == [Start |-> range.Start + value, End |-> range.End + value]

NamespaceError == [Start |-> -1, End |-> -1]

\* The loop, for a namespace between the first and the last of the list: it
\* ends at the first share of a greater namespace behind one that is equal, or
\* fails at a share whose namespace cannot be read before that.
ScanForRange_UntilLast(ss, ns) ==
  LET equal == {i \in 1..Len(ss) : ss[i] = ns}
      start == Min(equal)
      greater == {i \in 1..Len(ss) : ss[i] > ns /\ i > start}
      end == IF greater = {} THEN Len(ss) - 1 ELSE Min(greater) - 1
  IN  IF equal = {} THEN EmptyRange ELSE [Start |-> start - 1, End |-> end]

ScanForRange(ss, ns) ==
  LET equal == {i \in 1..Len(ss) : ss[i] = ns}
      start == Min(equal)
      greater == {i \in 1..Len(ss) : ss[i] > ns /\ i > start /\ ss[i] # UnsupportedNamespace}
      bad == {i \in 1..Len(ss) : ss[i] = UnsupportedNamespace}
      readTo == IF equal = {} \/ greater = {} THEN Len(ss) ELSE Min(greater)
      end == IF greater = {} THEN Len(ss) ELSE Min(greater) - 1
  IN  IF \E i \in bad : i <= readTo THEN NamespaceError
      ELSE IF equal = {} THEN EmptyRange
      ELSE [Start |-> start - 1, End |-> end]

GetShareRangeForNamespace(ss, ns) ==
  IF ss = <<>> THEN EmptyRange
  ELSE IF ss[1] = UnsupportedNamespace THEN NamespaceError
  ELSE IF ns < ss[1] THEN EmptyRange
  ELSE IF ss[Len(ss)] = UnsupportedNamespace THEN NamespaceError
  ELSE IF ns > ss[Len(ss)] THEN EmptyRange
  ELSE ScanForRange(ss, ns)
=============================================================================
