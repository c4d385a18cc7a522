---------------------- MODULE CompactShareCounterProofs ----------------------
(***************************************************************************)
(* Proofs about CompactShareCounter, for every share layout and every set  *)
(* of unit lengths.                                                        *)
(***************************************************************************)
EXTENDS CompactShareCounter, CounterOpsProofs

\* The inductive invariant: the counter and the copy Revert restores are both
\* normalised, so an Add after a Revert starts from a normalised counter too.
IInv == TypeOK /\ AlwaysNormalised

\* A new counter is normalised.
LEMMA InitIInv == Init => IInv
BY ContentSizes
   DEF Init, IInv, TypeOK, AlwaysNormalised, Normalised, NewCompactShareCounter,
       Counter

\* Add and Revert keep it and its saved copy normalised.
LEMMA NextIInv == IInv /\ [Next]_vars => IInv'
<1> SUFFICES ASSUME IInv, [Next]_vars PROVE IInv'
  OBVIOUS
<1> USE DEF IInv, TypeOK
<1>1. ASSUME NEW n \in DataLens, AddUnit(n) PROVE IInv'
  <2>1. n \in Nat
    BY CounterAssumption
  <2>2. counter' = Add(counter, n) /\ diff' = AddDiff(counter')
    BY <1>1 DEF AddUnit
  <2>3. counter' \in Counter
    BY <2>1, <2>2, AddCorrect DEF AlwaysNormalised
  <2>4. AlwaysNormalised'
    BY <2>1, <2>2, AddCorrect DEF AlwaysNormalised
  <2>5. diff' \in Int
    BY <2>2, <2>3 DEF AddDiff, Counter
  <2> QED
    BY <2>3, <2>4, <2>5
<1>2. ASSUME RevertLast PROVE IInv'
  BY <1>2 DEF RevertLast, Revert, Counter, AlwaysNormalised
<1>3. ASSUME UNCHANGED vars PROVE IInv'
  BY <1>3 DEF vars, AlwaysNormalised
<1> QED
  BY <1>1, <1>2, <1>3 DEF Next

\* The counter always holds naturals, whatever Adds and Reverts it has seen.
THEOREM TypeCorrect == Spec => []TypeOK
<1>1. IInv => TypeOK
  BY DEF IInv
<1> QED
  BY <1>1, InitIInv, NextIInv, PTL DEF Spec

\* A partly filled share is never counted as full, nor a full one as partly
\* filled, by any sequence of Add and Revert calls.
THEOREM NormalisedAlways == Spec => []AlwaysNormalised
<1>1. IInv => AlwaysNormalised
  BY DEF IInv
<1> QED
  BY <1>1, InitIInv, NextIInv, PTL DEF Spec

\* Size and CompactSharesNeeded, two computations of a compact share count,
\* agree on every state of the counter.
THEOREM SizeAlwaysSharesNeeded == Spec => []SizeIsSharesNeeded
<1>1. IInv => SizeIsSharesNeeded
  BY SizeCorrect
     DEF IInv, TypeOK, AlwaysNormalised, SizeIsSharesNeeded, Size, Counter
<1> QED
  BY <1>1, InitIInv, NextIInv, PTL DEF Spec

\* The counter implements the byte counter: it loses and invents no byte, Add
\* returns the growth of the share count, and Revert undoes the last Add.
THEOREM CounterRefinement == Spec => ImplementsByteCounter
<1>1. Init => Bytes!Init
  BY DEF Init, Bytes!Init, NewCompactShareCounter, BytesOf
<1>2. IInv /\ [Next]_vars => [Bytes!Next]_(Bytes!vars)
  <2> SUFFICES ASSUME IInv, [Next]_vars PROVE [Bytes!Next]_(Bytes!vars)
    OBVIOUS
  <2> USE DEF IInv, TypeOK
  <2>1. ASSUME NEW n \in DataLens, AddUnit(n) PROVE Bytes!AddUnit(n)
    <3>1. n \in Nat /\ counter' = Add(counter, n) /\ diff' = AddDiff(counter')
      BY <2>1, CounterAssumption DEF AddUnit
    <3>2. /\ counter' \in Counter
          /\ Normalised(counter'.shares, counter'.remainder)
          /\ BytesOf(counter'.shares, counter'.remainder)
               = BytesOf(counter.shares, counter.remainder) + DelimitedLen(n)
          /\ counter'.lastShares = counter.shares
          /\ counter'.lastRemainder = counter.remainder
      BY <3>1, AddCorrect DEF AlwaysNormalised
    <3>3. CompactSharesNeeded(BytesOf(counter'.shares, counter'.remainder))
            = IF counter'.remainder = 0 THEN counter'.shares ELSE counter'.shares + 1
      BY <3>2, SizeCorrect DEF Counter
    <3>4. CompactSharesNeeded(BytesOf(counter.shares, counter.remainder))
            = IF counter.remainder = 0 THEN counter.shares ELSE counter.shares + 1
      BY SizeCorrect DEF Counter, AlwaysNormalised
    <3>5. diff' = CompactSharesNeeded(BytesOf(counter'.shares, counter'.remainder))
                  - CompactSharesNeeded(BytesOf(counter.shares, counter.remainder))
      BY <3>1, <3>2, <3>3, <3>4 DEF AddDiff, Counter
    <3> QED
      BY <3>2, <3>5 DEF Bytes!AddUnit
  <2>2. ASSUME RevertLast PROVE Bytes!RevertLast
    BY <2>2 DEF RevertLast, Revert, Bytes!RevertLast, Counter
  <2>3. ASSUME UNCHANGED vars PROVE UNCHANGED Bytes!vars
    BY <2>3 DEF vars, Bytes!vars
  <2> QED
    BY <2>1, <2>2, <2>3 DEF Next, Bytes!Next
<1> QED
  BY <1>1, <1>2, InitIInv, NextIInv, PTL
     DEF Spec, ImplementsByteCounter, Bytes!Spec
==============================================================================
