----------------------------- MODULE ProofRuntime -----------------------------
(***************************************************************************)
(* Chained Merkle proofs: ProofRuntime and ProofOperators                  *)
(* (src/merkle/proof_op.go) with the value operator (proof_value.go).      *)
(*                                                                         *)
(* A runtime knows decoders for types of operators.  Verification decodes  *)
(* the operators of a proof, then runs them one after the other, each on   *)
(* what the one before returned, taking the keys of the path from its end; *)
(* each turn of the two loops is a step.  Verify gets its keys from        *)
(* KeyPathToKeys (see KeyPath), VerifyFromKeys is given them.              *)
(*                                                                         *)
(* `usedBy` is not in the code: the positions of the operators that took a *)
(* key, the last one first.                                                *)
(***************************************************************************)
EXTENDS ProofOps

CONSTANTS
  Types,      \* the types of operators decoders may be registered for
  Ops,        \* the wire operators proofs are made of
  Proofs,     \* the proofs to verify, sequences of them
  Keys,       \* the keys paths are made of
  Paths,      \* the paths, sequences of them
  Roots,      \* the root hashes
  Arguments   \* the lists of values; VerifyAbsence passes the empty one

ASSUME RuntimeAssumption ==
  /\ \A pf \in Proofs : pf \in Seq(Ops)
  /\ \A ks \in Paths : ks \in Seq(Keys)

VARIABLES
  decoders,   \* the types registered
  proof, path, root, value,   \* what the verifier is called with
  poz,        \* the operators decoded
  pos,        \* how many of them ran
  keys, args, \* the keys left and what the next operator gets
  status,     \* "idle", "decode", "run", "accepted", "rejected" or "panicked"
  usedBy

call == <<proof, path, root, value>>
runtimeVars == <<decoders, call, poz, pos, keys, args, status, usedBy>>

ProofOpValue == "simple:v"

RuntimeInit ==
  /\ decoders = {}
  /\ proof = <<>> /\ path = <<>> /\ root = NoHash /\ value = <<>>
  /\ poz = <<>> /\ pos = 0 /\ keys = <<>> /\ args = <<>>
  /\ status = "idle" /\ usedBy = <<>>

\* DefaultProofRuntime registers the value operator.
RegisterOpDecoder(typ) ==
  /\ status = "idle"
  /\ \/ typ \notin decoders /\ decoders' = decoders \cup {typ} /\ UNCHANGED status
     \/ typ \in decoders /\ status' = "panicked" /\ UNCHANGED decoders
  /\ UNCHANGED <<call, poz, pos, keys, args, usedBy>>

VerifyFromKeys(pf, rt, ks, vs) ==
  /\ status = "idle" /\ status' = "decode"
  /\ proof' = pf /\ root' = rt /\ path' = ks /\ value' = vs
  /\ keys' = ks /\ args' = vs
  /\ UNCHANGED <<decoders, poz, pos, usedBy>>

------------------------------------------------------------------------------
\* The code reads the type of an operator before it asks whether it is nil.
NilOp == [nil |-> TRUE]

\* What a decoder makes of a wire operator.  ValueOpDecoder takes the key from
\* the operator and the proof from its data, where it is checked; operators of
\* other types are external, and here map one list of values to another.
Decodes(op) == op.Type = ProofOpValue => ProofFromProto(op.Data).ok

Decoded(op) ==
  [type |-> op.Type, key |-> op.Key,
   Proof |-> IF op.Type = ProofOpValue THEN ProofFromProto(op.Data).sp ELSE op.Data]

Decode ==
  LET op == proof[Len(poz) + 1] IN
  /\ status = "decode" /\ Len(poz) < Len(proof)
  /\ \/ /\ op # NilOp /\ op.Type \in decoders /\ Decodes(op)
        /\ poz' = Append(poz, Decoded(op)) /\ UNCHANGED status
     \/ /\ op # NilOp /\ ~(op.Type \in decoders /\ Decodes(op))
        /\ status' = "rejected" /\ UNCHANGED poz
     \/ op = NilOp /\ status' = "panicked" /\ UNCHANGED poz
  /\ UNCHANGED <<decoders, call, pos, keys, args, usedBy>>

DecodeDone ==
  /\ status = "decode" /\ Len(poz) = Len(proof)
  /\ status' = "run"
  /\ UNCHANGED <<decoders, call, poz, pos, keys, args, usedBy>>

------------------------------------------------------------------------------
\* The number of bytes of a string, and encodeByteSlice.
ByteLen(bz) == Len(bz) + 31 * Cardinality({i \in 1..Len(bz) : DOMAIN bz[i] = {"sha"}})

encodeByteSlice(bz) == <<Byte(ByteLen(bz))>> \o bz

\* The leaf a SimpleMap tree has for a key and its value.
KVPair(key, val) == encodeByteSlice(key) \o encodeByteSlice(hash(val))

RunError == [ok |-> FALSE, args |-> <<>>]
Returned(as) == [ok |-> TRUE, args |-> as]

\* ValueOp.Run.
RunValueOp(op, as) ==
  IF \/ Len(as) # 1
     \/ leafHash(KVPair(op.key, as[1])) # op.Proof.LeafHash
     \/ computeRootHash(op.Proof) = NoHash
  THEN RunError
  ELSE Returned(<<computeRootHash(op.Proof)>>)

RunOperator(op, as) ==
  IF op.type = ProofOpValue THEN RunValueOp(op, as)
  ELSE IF as = op.Proof.input THEN Returned(op.Proof.output) ELSE RunError

\* The key an operator asks for is the last one left; one without a key takes
\* none.
KeyMatches_First(op) == op.key = <<>> \/ (keys # <<>> /\ Head(keys) = op.key)

KeyMatches(op) == op.key = <<>> \/ (keys # <<>> /\ keys[Len(keys)] = op.key)

RunNext ==
  LET op == poz[pos + 1]
      out == RunOperator(op, args)
  IN  /\ status = "run" /\ pos < Len(poz)
      /\ \/ /\ KeyMatches(op) /\ out.ok
            /\ keys' = IF op.key = <<>> THEN keys ELSE SubSeq(keys, 1, Len(keys) - 1)
            /\ usedBy' = IF op.key = <<>> THEN usedBy ELSE <<pos + 1>> \o usedBy
            /\ args' = out.args /\ pos' = pos + 1
            /\ UNCHANGED status
         \/ /\ ~(KeyMatches(op) /\ out.ok)
            /\ status' = "rejected" /\ UNCHANGED <<keys, args, pos, usedBy>>
      /\ UNCHANGED <<decoders, call, poz>>

\* Behind the loop: args[0] is out of range when the last operator returned
\* nothing, or none ran and no value was given.
Compare_KeysLeft ==
  /\ status = "run" /\ pos = Len(poz)
  /\ status' = IF args = <<>> THEN "panicked"
               ELSE IF root = args[1] THEN "accepted" ELSE "rejected"
  /\ UNCHANGED <<decoders, call, poz, pos, keys, args, usedBy>>

Compare ==
  /\ status = "run" /\ pos = Len(poz)
  /\ status' = IF args = <<>> THEN "panicked"
               ELSE IF root = args[1] /\ keys = <<>> THEN "accepted" ELSE "rejected"
  /\ UNCHANGED <<decoders, call, poz, pos, keys, args, usedBy>>

RuntimeNext ==
  \/ \E typ \in Types : RegisterOpDecoder(typ)
  \/ /\ status = "idle"
     /\ \E pf \in Proofs, rt \in Roots, ks \in Paths, vs \in Arguments :
          VerifyFromKeys(pf, rt, ks, vs)
  \/ Decode \/ DecodeDone \/ RunNext \/ Compare

RuntimeSpec == RuntimeInit /\ [][RuntimeNext]_runtimeVars

------------------------------------------------------------------------------
\* At every point of a verification the path is the keys still to be matched
\* followed by those of the operators that ran and have one, the last operator
\* first.  An accepted proof has used up the path: the operators' keys are the
\* path from its end, each matched once and in order.
KeysMatchOperators ==
  /\ Len(path) = Len(keys) + Len(usedBy)
  /\ \A j \in 1..Len(keys) : path[j] = keys[j]
  /\ \A j \in 1..Len(usedBy) : path[Len(keys) + j] = poz[usedBy[j]].key
  /\ \A j \in 1..(Len(usedBy) - 1) : usedBy[j] > usedBy[j + 1]
  /\ {usedBy[j] : j \in 1..Len(usedBy)} = {p \in 1..pos : poz[p].key # <<>>}
  /\ status = "accepted" => keys = <<>> /\ pos = Len(proof)
==============================================================================
