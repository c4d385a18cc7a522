-------------------------- MODULE ProofRuntimeProofs --------------------------
(***************************************************************************)
(* For all operators, keys and values: the keys a chained proof is         *)
(* accepted for are those of its operators, in order.                      *)
(***************************************************************************)
EXTENDS ProofRuntime, TLAPS

Operators == {Decoded(op) : op \in Ops}

\* KeysMatchOperators with what makes it inductive: the shapes of the state, that
\* no operator runs before all are decoded, and that the last operator that took
\* a key ran.
Matching ==
  /\ status \in {"idle", "decode", "run", "accepted", "rejected", "panicked"}
  /\ proof \in Seq(Ops) /\ path \in Seq(Keys) /\ keys \in Seq(Keys)
  /\ poz \in Seq(Operators) /\ pos \in Nat /\ usedBy \in Seq(Nat)
  /\ pos <= Len(poz) /\ Len(poz) <= Len(proof)
  /\ \A j \in 1..Len(usedBy) : usedBy[j] \in 1..pos
  /\ status \in {"idle", "decode"} => pos = 0
  /\ status = "idle" => Len(poz) = 0
  /\ status \in {"run", "accepted"} => Len(poz) = Len(proof)
  /\ KeysMatchOperators

\* What it is to put an element in front of a sequence.
LEMMA Cons ==
  ASSUME NEW S, NEW e \in S, NEW s \in Seq(S)
  PROVE  /\ <<e>> \o s \in Seq(S)
         /\ Len(<<e>> \o s) = Len(s) + 1
         /\ (<<e>> \o s)[1] = e
         /\ \A j \in 1..Len(s) : (<<e>> \o s)[j + 1] = s[j]
  OBVIOUS

\* Before the first call nothing is left to match.
LEMMA InitMatching == RuntimeInit => Matching
  <1> SUFFICES ASSUME RuntimeInit PROVE Matching
    OBVIOUS
  <1>1. {usedBy[j] : j \in 1..Len(usedBy)} = {} /\ {p \in 1..pos : poz[p].key # <<>>} = {}
    BY DEF RuntimeInit
  <1> QED
    BY <1>1 DEF RuntimeInit, Matching, KeysMatchOperators

\* As long as no operator ran, none took a key.
LEMMA NoneUsed == ASSUME Matching, pos = 0 PROVE usedBy \in Seq(Nat) /\ Len(usedBy) = 0
  <1>1. Len(usedBy) \in Nat /\ \A j \in 1..Len(usedBy) : usedBy[j] \in 1..0
    BY DEF Matching
  <1>2. Len(usedBy) > 0 => 1 \in 1..Len(usedBy)
    BY <1>1
  <1> QED
    BY <1>1, <1>2 DEF Matching

\* Decoding an operator adds it behind those that ran, none.
LEMMA DecodeMatching == Matching /\ Decode => Matching'
  <1> SUFFICES ASSUME Matching, Decode PROVE Matching'
    OBVIOUS
  <1>4. pos = 0 /\ UNCHANGED <<decoders, call, pos, keys, args, usedBy>>
    BY DEF Matching, Decode
  <1>1. pos = 0 /\ Len(usedBy) = 0 /\ UNCHANGED <<decoders, call, pos, keys, args, usedBy>>
    BY <1>4, NoneUsed
  <1>2. CASE UNCHANGED poz /\ status' \in {"rejected", "panicked"}
    BY <1>1, <1>2 DEF Matching, KeysMatchOperators, call
  <1>3. CASE poz' = Append(poz, Decoded(proof[Len(poz) + 1])) /\ UNCHANGED status
    <2>1. poz' \in Seq(Operators) /\ Len(poz') = Len(poz) + 1 /\ Len(poz) < Len(proof)
      BY <1>3 DEF Matching, Decode, Operators
    <2>2. {usedBy'[j] : j \in 1..Len(usedBy')} = {} /\ {p \in 1..pos' : poz'[p].key # <<>>} = {}
      BY <1>1
    <2>3. status = "decode"
      BY DEF Decode
    <2> QED
      BY <1>1, <1>3, <2>1, <2>2, <2>3 DEF Matching, KeysMatchOperators, call
  <1> QED
    BY <1>2, <1>3 DEF Decode

\* An operator that runs takes the last key left, or none if it has none.
LEMMA RunMatching == Matching /\ RunNext => Matching'
  <1> SUFFICES ASSUME Matching, RunNext PROVE Matching'
    OBVIOUS
  <1> DEFINE op == poz[pos + 1]
             out == RunOperator(op, args)
  <1>1. status = "run" /\ pos < Len(poz) /\ UNCHANGED <<decoders, call, poz>>
    BY DEF RunNext
  <1>5. path' = path /\ proof' = proof /\ poz' = poz
    BY <1>1 DEF call
  <1>2. CASE status' = "rejected" /\ UNCHANGED <<keys, args, pos, usedBy>>
    <2>1. /\ path' = path /\ proof' = proof /\ poz' = poz /\ keys' = keys
          /\ pos' = pos /\ usedBy' = usedBy /\ status' = "rejected"
      BY <1>2, <1>5
    <2>2. {usedBy'[j] : j \in 1..Len(usedBy')} = {p \in 1..pos' : poz'[p].key # <<>>}
      BY <2>1 DEF Matching, KeysMatchOperators
    <2>3. KeysMatchOperators'
      BY <2>1, <2>2 DEF Matching, KeysMatchOperators
    <2> QED
      BY <2>1, <2>3 DEF Matching
  <1>3. CASE op.key = <<>> /\ UNCHANGED <<keys, usedBy, status>> /\ pos' = pos + 1
    <2>1. {p \in 1..pos' : poz[p].key # <<>>} = {p \in 1..pos : poz[p].key # <<>>}
      BY <1>3 DEF Matching
    <2> QED
      BY <1>1, <1>3, <2>1 DEF Matching, KeysMatchOperators, call
  <1>4. CASE /\ op.key # <<>> /\ KeyMatches(op)
             /\ keys' = SubSeq(keys, 1, Len(keys) - 1)
             /\ usedBy' = <<pos + 1>> \o usedBy
             /\ pos' = pos + 1 /\ UNCHANGED status
    <2>1. keys \in Seq(Keys) /\ Len(keys) \in Nat /\ Len(keys) > 0 /\ keys[Len(keys)] = op.key
      BY <1>4 DEF Matching, KeyMatches
    <2>2. /\ keys' \in Seq(Keys) /\ Len(keys') = Len(keys) - 1
          /\ \A j \in 1..Len(keys') : keys'[j] = keys[j]
      BY <1>4, <2>1
    <2>3. /\ usedBy' \in Seq(Nat) /\ Len(usedBy') = Len(usedBy) + 1 /\ usedBy'[1] = pos + 1
          /\ \A j \in 1..Len(usedBy) : usedBy'[j + 1] = usedBy[j]
      BY <1>4, Cons DEF Matching
    <2>4. /\ Len(usedBy) \in Nat /\ pos \in Nat
          /\ \A j \in 1..Len(usedBy) : usedBy[j] \in 1..pos
      BY DEF Matching
    <2>12. /\ Len(path) = Len(keys) + Len(usedBy)
           /\ \A j \in 1..Len(keys) : path[j] = keys[j]
           /\ \A j \in 1..Len(usedBy) : path[Len(keys) + j] = poz[usedBy[j]].key
      BY DEF Matching, KeysMatchOperators
    <2>5. ASSUME NEW j \in 1..Len(usedBy')
          PROVE  j = 1 \/ (j - 1 \in 1..Len(usedBy) /\ usedBy'[j] = usedBy[j - 1])
      <3>1. j # 1 => j - 1 \in 1..Len(usedBy) /\ (j - 1) + 1 = j
        BY <2>3, <2>4
      <3> QED
        BY SMTT(30), <3>1, <2>3
    <2>6. \A j \in 1..Len(usedBy') : usedBy'[j] \in 1..pos'
      <3> SUFFICES ASSUME NEW j \in 1..Len(usedBy') PROVE usedBy'[j] \in 1..pos'
        OBVIOUS
      <3>1. CASE j = 1
        BY <3>1, <1>4, <2>3, <2>4
      <3>2. CASE j - 1 \in 1..Len(usedBy) /\ usedBy'[j] = usedBy[j - 1]
        BY <3>2, <1>4, <2>4
      <3> QED
        BY <3>1, <3>2, <2>5
    <2>7. \A j \in 1..Len(keys') : path'[j] = keys'[j]
      BY <1>5, <2>1, <2>2, <2>12
    <2>8. \A j \in 1..Len(usedBy') : path'[Len(keys') + j] = poz'[usedBy'[j]].key
      <3> SUFFICES ASSUME NEW j \in 1..Len(usedBy')
                   PROVE  path'[Len(keys') + j] = poz'[usedBy'[j]].key
        OBVIOUS
      <3>1. CASE j = 1
        <4>1. Len(keys') + j = Len(keys) /\ Len(keys) \in 1..Len(keys)
          BY <3>1, <2>1, <2>2
        <4> QED
          BY <3>1, <4>1, <1>5, <2>1, <2>3, <2>12
      <3>2. CASE j - 1 \in 1..Len(usedBy) /\ usedBy'[j] = usedBy[j - 1]
        <4>1. Len(keys') + j = Len(keys) + (j - 1)
          BY <2>1, <2>2, <2>3, <2>4
        <4> QED
          BY <3>2, <4>1, <1>5, <2>12
      <3> QED
        BY <3>1, <3>2, <2>5
    <2>9. \A j \in 1..(Len(usedBy') - 1) : usedBy'[j] > usedBy'[j + 1]
      <3> SUFFICES ASSUME NEW j \in 1..(Len(usedBy') - 1)
                   PROVE  usedBy'[j] > usedBy'[j + 1]
        OBVIOUS
      <3>1. j \in 1..Len(usedBy') /\ j \in 1..Len(usedBy) /\ usedBy'[j + 1] = usedBy[j]
        BY <2>3, <2>4
      <3>2. CASE j = 1
        BY <3>1, <3>2, <2>3, <2>4
      <3>3. CASE j - 1 \in 1..Len(usedBy) /\ usedBy'[j] = usedBy[j - 1]
        <4>1. j - 1 \in 1..(Len(usedBy) - 1) /\ (j - 1) + 1 = j
          BY <3>1, <3>3, <2>4
        <4>2. usedBy[j - 1] > usedBy[(j - 1) + 1]
          BY <4>1 DEF Matching, KeysMatchOperators
        <4> QED
          BY <3>1, <3>3, <4>1, <4>2
      <3> QED
        BY <3>1, <3>2, <3>3, <2>5
    <2>10. {usedBy'[j] : j \in 1..Len(usedBy')} = {p \in 1..pos' : poz'[p].key # <<>>}
      <3> DEFINE Used == {usedBy[j] : j \in 1..Len(usedBy)}
                 Keyed == {p \in 1..pos : poz[p].key # <<>>}
      <3>1. {usedBy'[j] : j \in 1..Len(usedBy')} = {pos + 1} \cup Used
        <4>1. \A j \in 1..Len(usedBy') : usedBy'[j] \in {pos + 1} \cup Used
          BY <2>3, <2>5
        <4>2. \A j \in 1..Len(usedBy) : j + 1 \in 1..Len(usedBy') /\ usedBy'[j + 1] = usedBy[j]
          BY <2>3, <2>4
        <4>3. 1 \in 1..Len(usedBy') /\ usedBy'[1] = pos + 1
          BY <2>3, <2>4
        <4> QED
          BY <4>1, <4>2, <4>3
      <3>2. Used = Keyed
        BY DEF Matching, KeysMatchOperators
      <3>3. {p \in 1..pos' : poz'[p].key # <<>>} = {pos + 1} \cup Keyed
        BY <1>5, <1>4, <2>4
      <3> QED
        BY <3>1, <3>2, <3>3
    <2>11. Len(path') = Len(keys') + Len(usedBy')
      BY <1>5, <2>1, <2>2, <2>3, <2>4, <2>12
    <2>13. KeysMatchOperators'
      BY <1>1, <1>4, <2>7, <2>8, <2>9, <2>10, <2>11 DEF KeysMatchOperators
    <2>14. /\ proof' \in Seq(Ops) /\ path' \in Seq(Keys) /\ poz' \in Seq(Operators)
           /\ pos' \in Nat /\ pos' <= Len(poz') /\ Len(poz') = Len(proof')
           /\ status' = "run"
      BY <1>1, <1>4, <1>5 DEF Matching
    <2> QED
      BY <2>2, <2>3, <2>6, <2>13, <2>14 DEF Matching
  <1> QED
    BY <1>1, <1>2, <1>3, <1>4 DEF RunNext

\* The steps that run no operator.
LEMMA OtherMatching ==
  ASSUME Matching,
         \/ \E typ \in Types : RegisterOpDecoder(typ)
         \/ \E pf \in Proofs, rt \in Roots, ks \in Paths, vs \in Arguments :
              VerifyFromKeys(pf, rt, ks, vs)
         \/ DecodeDone \/ Compare \/ UNCHANGED runtimeVars
  PROVE  Matching'
  <1>1. CASE \E typ \in Types : RegisterOpDecoder(typ)
    BY <1>1 DEF Matching, KeysMatchOperators, RegisterOpDecoder, call
  <1>2. CASE \E pf \in Proofs, rt \in Roots, ks \in Paths, vs \in Arguments :
               VerifyFromKeys(pf, rt, ks, vs)
    <2>1. PICK pf \in Proofs, rt \in Roots, ks \in Paths, vs \in Arguments :
            VerifyFromKeys(pf, rt, ks, vs)
      BY <1>2
    <2>2. pf \in Seq(Ops) /\ ks \in Seq(Keys)
      BY RuntimeAssumption
    <2>3. Len(usedBy) = 0 /\ pos = 0 /\ Len(poz) = 0
      BY <2>1, NoneUsed DEF Matching, VerifyFromKeys
    <2> QED
      BY <2>1, <2>2, <2>3 DEF Matching, KeysMatchOperators, VerifyFromKeys
  <1>3. CASE DecodeDone
    BY <1>3 DEF Matching, KeysMatchOperators, DecodeDone, call
  <1>4. CASE Compare
    BY <1>4 DEF Matching, KeysMatchOperators, Compare, call
  <1>5. CASE UNCHANGED runtimeVars
    <2>1. /\ path' = path /\ proof' = proof /\ poz' = poz /\ pos' = pos
          /\ keys' = keys /\ status' = status /\ usedBy' = usedBy
      BY <1>5 DEF runtimeVars, call
    <2>3. {usedBy'[j] : j \in 1..Len(usedBy')} = {p \in 1..pos' : poz'[p].key # <<>>}
      BY <2>1 DEF Matching, KeysMatchOperators
    <2>4. status' = "accepted" => keys' = <<>> /\ pos' = Len(proof')
      BY <2>1 DEF Matching, KeysMatchOperators
    <2>5. \A j \in 1..(Len(usedBy') - 1) : usedBy'[j] > usedBy'[j + 1]
      BY <2>1 DEF Matching, KeysMatchOperators
    <2>6. /\ Len(path') = Len(keys') + Len(usedBy')
          /\ \A j \in 1..Len(keys') : path'[j] = keys'[j]
          /\ \A j \in 1..Len(usedBy') : path'[Len(keys') + j] = poz'[usedBy'[j]].key
      BY <2>1 DEF Matching, KeysMatchOperators
    <2>2. KeysMatchOperators'
      BY <2>3, <2>4, <2>5, <2>6 DEF KeysMatchOperators
    <2> QED
      BY <2>1, <2>2 DEF Matching
  <1> QED
    BY <1>1, <1>2, <1>3, <1>4, <1>5

\* In every verification (the loop of ProofOperators.VerifyFromKeys) the path is
\* what is left of it and the keys of the operators that ran, so that a proof is
\* accepted only for the path its operators spell.
THEOREM KeysAlwaysMatch == RuntimeSpec => []KeysMatchOperators
  <1>1. Matching /\ [RuntimeNext]_runtimeVars => Matching'
    BY DecodeMatching, RunMatching, OtherMatching DEF RuntimeNext
  <1>2. Matching => KeysMatchOperators
    BY DEF Matching
  <1> QED
    BY <1>1, <1>2, InitMatching, PTL DEF RuntimeSpec
==============================================================================
