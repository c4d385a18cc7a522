-------------------------- MODULE ShareRangesProofs --------------------------
(***************************************************************************)
(* GetShareRangeForNamespace is exact on every list in namespace order.    *)
(***************************************************************************)
EXTENDS ShareRanges, WellFoundedInduction, TLAPS

\* Min of a non-empty set of naturals, taken from the library's well-ordering
\* of the naturals.
LEMMA NatMin ==
  ASSUME NEW S, S \subseteq Nat, S # {}
  PROVE  Min(S) \in S /\ \A y \in S : Min(S) <= y
<1> DEFINE R == OpToRel(<, Nat)
<1>1. IsWellFoundedOn(R, Nat)
  BY NatLessThanWellFounded
<1>2. \A x, y \in Nat : x < y => <<x, y>> \in R
  BY DEF OpToRel
<1> HIDE DEF R
<1>3. PICK x \in S : \A y \in S : ~(<<y, x>> \in R)
  BY <1>1, WFMin
<1>4. \A y \in S : x \in Nat /\ y \in Nat /\ ~(y < x)
  BY <1>2, <1>3
<1>5. \A y \in S : x <= y
  BY <1>4
<1> QED
  BY <1>5 DEF Min

Sorted(ss) == \A i, j \in 1..Len(ss) : i <= j => ss[i] <= ss[j]

\* The range found in a list in namespace order, all of whose namespaces can be
\* read, holds exactly the shares of the namespace asked for.
THEOREM RangeIsExact ==
  ASSUME NEW ss \in Seq(Nat), NEW ns \in Nat, Sorted(ss), Readable(ss)
  PROVE  IsRangeOf(GetShareRangeForNamespace(ss, ns), ss, ns)
<1> DEFINE n == Len(ss)
           equal == {i \in 1..n : ss[i] = ns}
           start == Min(equal)
           greater == {i \in 1..n : ss[i] > ns /\ i > start /\ ss[i] # UnsupportedNamespace}
           range == GetShareRangeForNamespace(ss, ns)
<1>1. n \in Nat /\ \A i \in 1..n : ss[i] \in Nat
  OBVIOUS
<1>2. \A i, j \in 1..n : i <= j => ss[i] <= ss[j]
  BY DEF Sorted
<1>3. \A i \in 1..n : ss[i] # UnsupportedNamespace
  BY DEF Readable
<1>4. CASE ss = <<>>
  BY <1>4 DEF GetShareRangeForNamespace, IsRangeOf
<1>5. CASE ss # <<>> /\ (ns < ss[1] \/ ns > ss[n])
  <2>1. n > 0 /\ 1 \in 1..n /\ n \in 1..n
    BY <1>1, <1>5
  <2>2. range = EmptyRange
    BY <1>3, <1>5, <2>1 DEF GetShareRangeForNamespace
  <2>3. \A i \in 1..n : ss[1] <= ss[i] /\ ss[i] <= ss[n]
    BY <1>1, <1>2, <2>1
  <2>4. \A i \in 1..n : ss[i] # ns
    BY <1>1, <1>5, <2>1, <2>3
  <2> QED
    BY <2>2, <2>4 DEF IsRangeOf
<1>6. CASE ss # <<>> /\ ~(ns < ss[1]) /\ ~(ns > ss[n])
  <2>1. n > 0 /\ 1 \in 1..n /\ n \in 1..n
    BY <1>1, <1>6
  <2>2. range = ScanForRange(ss, ns)
    BY <1>3, <1>6, <2>1 DEF GetShareRangeForNamespace
  <2>3. \A i \in 1..n : i \in equal <=> ss[i] = ns
    OBVIOUS
  <2>4. \A i \in 1..n : i \in greater <=> ss[i] > ns /\ i > start
    BY <1>3
  <2>5. equal \subseteq 1..n /\ greater \subseteq 1..n /\ equal \subseteq Nat
        /\ greater \subseteq Nat
    OBVIOUS
  <2>6. equal = {} => range = EmptyRange
    BY <1>3, <2>2 DEF ScanForRange
  <2>7. equal # {} /\ greater = {} => range = [Start |-> start - 1, End |-> n]
    BY <1>3, <2>2 DEF ScanForRange
  <2>8. equal # {} /\ greater # {} =>
          range = [Start |-> start - 1, End |-> Min(greater) - 1]
    BY <1>3, <2>2 DEF ScanForRange
  <2>9. equal # {} => start \in equal /\ \A i \in equal : start <= i
    BY <2>5, NatMin
  <2> HIDE DEF range, equal, greater, start, n
  <2>10. CASE equal = {}
    <3>1. \A i \in 1..n : ss[i] # ns
      BY <2>3, <2>10
    <3> QED
      BY <2>6, <2>10, <3>1 DEF IsRangeOf, range, n
  <2>11. ASSUME equal # {}, NEW end \in 0..n,
                range = [Start |-> start - 1, End |-> end], start <= end,
                \A i \in 1..n : start <= i /\ i <= end => ss[i] <= ns,
                \A i \in 1..n : i > end => ss[i] > ns
         PROVE  IsRangeOf(range, ss, ns)
    <3>1. start \in 1..n /\ ss[start] = ns
      BY <2>3, <2>5, <2>9, <2>11
    <3>2. ASSUME NEW i \in 1..n
          PROVE  ss[i] = ns <=> (start - 1 < i /\ i <= end)
      <4>1. ss[i] = ns => start <= i
        BY <2>3, <2>9, <2>11
      <4>2. ss[i] = ns => i <= end
        BY <1>1, <2>11
      <4>3. start <= i => ss[i] >= ns
        BY <1>1, <1>2, <3>1
      <4>4. start <= i /\ i <= end => ss[i] = ns
        BY <1>1, <2>11, <4>3
      <4> QED
        BY <1>1, <3>1, <4>1, <4>2, <4>4
    <3>3. start - 1 < end
      BY <1>1, <2>11, <3>1
    <3> QED
      BY <2>11, <3>2, <3>3 DEF IsRangeOf, n
  <2>12. CASE equal # {} /\ greater = {}
    <3>1. start \in 1..n
      BY <2>5, <2>9, <2>12
    <3>2. \A i \in 1..n : start <= i => ss[i] <= ns
      BY <1>1, <2>3, <2>4, <2>9, <2>12, <3>1
    <3>3. n \in 0..n /\ start <= n /\ ~(\E i \in 1..n : i > n)
      BY <1>1, <3>1
    <3>4. IsRangeOf(range, ss, ns)
      BY <2>7, <2>11, <2>12, <3>2, <3>3
    <3> QED
      BY <3>4 DEF range
  <2>13. CASE equal # {} /\ greater # {}
    <3> DEFINE after == Min(greater)
    <3>1. after \in greater /\ \A i \in greater : after <= i
      BY <2>5, <2>13, NatMin
    <3> HIDE DEF after
    <3>2. after \in 1..n /\ ss[after] > ns /\ after > start
      BY <2>4, <2>5, <3>1
    <3>3. start \in 1..n /\ ss[start] = ns
      BY <2>3, <2>5, <2>9, <2>13
    <3>4. \A i \in 1..n : start <= i /\ i <= after - 1 => ss[i] <= ns
      BY <1>1, <2>4, <3>1, <3>2, <3>3
    <3>5. \A i \in 1..n : i > after - 1 => ss[i] > ns
      BY <1>1, <1>2, <3>2
    <3>6. after - 1 \in 0..n /\ start <= after - 1
      BY <1>1, <3>2, <3>3
    <3>7. range = [Start |-> start - 1, End |-> after - 1]
      BY <2>8, <2>13 DEF after
    <3>8. IsRangeOf(range, ss, ns)
      BY <2>11, <2>13, <3>4, <3>5, <3>6, <3>7
    <3> QED
      BY <3>8 DEF range
  <2> QED
    BY <2>10, <2>12, <2>13 DEF range
<1> QED
  BY <1>4, <1>5, <1>6

\* The list stays in namespace order.
LEMMA AlwaysOrdered == RangesSpec => []Ordered
<1>1. RangesInit => Ordered
  BY DEF RangesInit, Ordered
<1>2. ASSUME Ordered, [RangesNext]_list
      PROVE  Ordered'
  <2>1. CASE UNCHANGED list
    BY <1>2, <2>1 DEF Ordered
  <2>2. ASSUME NEW ns \in Namespaces, AppendShare(ns)
        PROVE  Ordered'
    <3>1. ns \in Nat /\ list \in Seq(Nat)
      BY <1>2, RangesAssumption DEF Ordered
    <3>2. /\ list' = Append(list, ns) /\ list' \in Seq(Nat)
          /\ Len(list') = Len(list) + 1 /\ list'[Len(list) + 1] = ns
          /\ \A i \in 1..Len(list) : list'[i] = list[i]
      BY <2>2, <3>1 DEF AppendShare
    <3>3. \A i \in 1..Len(list) : list[i] <= ns
      BY <2>2 DEF AppendShare
    <3>4. ASSUME NEW i \in 1..Len(list'), NEW j \in 1..Len(list'), i <= j
          PROVE  list'[i] <= list'[j]
      <4>1. CASE j = Len(list) + 1
        BY <3>1, <3>2, <3>3, <4>1
      <4>2. CASE j # Len(list) + 1
        BY <1>2, <3>1, <3>2, <3>4, <4>2 DEF Ordered
      <4> QED
        BY <4>1, <4>2
    <3> QED
      BY <3>2, <3>4 DEF Ordered
  <2> QED
    BY <1>2, <2>1, <2>2 DEF RangesNext
<1> QED
  BY <1>1, <1>2, PTL DEF RangesSpec

\* Whatever shares the list holds, and wherever they begin and end, the range of
\* every namespace is exact.
THEOREM RangesAlwaysExact == RangesSpec => []RangesExact
<1>1. Ordered => RangesExact
  <2> SUFFICES ASSUME Ordered, Readable(list), NEW ns \in Namespaces
               PROVE  IsRangeOf(GetShareRangeForNamespace(list, ns), list, ns)
    BY DEF RangesExact
  <2>1. list \in Seq(Nat) /\ Sorted(list) /\ ns \in Nat
    BY RangesAssumption DEF Ordered, Sorted
  <2> QED
    BY <2>1, RangeIsExact
<1> QED
  BY <1>1, AlwaysOrdered, PTL
==============================================================================
