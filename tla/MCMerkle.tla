------------------------------- MODULE MCMerkle -------------------------------
(***************************************************************************)
(* Packages merkle and namespace.  Their components have no state in       *)
(* common: a behaviour is one of one component, `part`, while the others   *)
(* rest in an initial state.                                               *)
(*                                                                         *)
(* Tree: lists of up to 33 different items: levels of every parity, five   *)
(* passes.  Proofs: lists of up to five items, with trails of different    *)
(* lengths in one tree, and proofs with up to three fields changed, enough *)
(* to shorten a trail by one and adjust total and leaf to it, or to change *)
(* the size of an aunt and then other fields with it.  Key paths:          *)
(* all keys of up to two of the bytes x : / % 4 and some of three that     *)
(* look like an escape or a hex mark.  Namespaces: IDs of three bytes, one *)
(* of them zero in version 0; sub IDs of two bytes cross the limit of the  *)
(* reserved namespaces as those of ten do.                                 *)
(*                                                                         *)
(* Runtime: two trees of key-value pairs, one of which is a value of the   *)
(* other, as the store of an application and one of its substores.  Proofs *)
(* are all chains of up to two operators of theirs, of a proof that        *)
(* ValidateBasic refuses, of operators of a type that may or may not be    *)
(* registered, one of which returns no value, and of a nil operator.       *)
(***************************************************************************)
EXTENDS MerkleTree, MerkleProofs, ProofRuntime, KeyPath, Namespaces

CONSTANT MaxLeaves   \* bound: items of a list the iterative algorithm hashes

VARIABLE part

UpToMaxLeaves == {[i \in 1..n |-> <<Byte(i)>>] : n \in 0..MaxLeaves}

KeyBytes == {120, 58, Slash, Percent, 52}
SomeNames ==
  UNION {[1..n -> KeyBytes] : n \in 0..2}
    \cup {<<Percent, 52, 52>>, <<120, 58, 52>>, <<52, 120, 58>>, <<Percent, 52, Slash>>}

SomeBytes == {0, 1, 254, 255}

------------------------------------------------------------------------------
Key(n) == <<Byte(n)>>
Val(n) == <<Byte(n)>>

\* A tree is a sequence of key-value pairs; the empty key is one of them.
Substore == << <<Key(1), Val(7)>>, <<Key(2), Val(8)>>, << <<>>, Val(7)>> >>

LeavesOf(tree) == [i \in 1..Len(tree) |-> KVPair(tree[i][1], tree[i][2])]
SubstoreRoot == HashFromByteSlices(LeavesOf(Substore))

Store == << <<Key(2), SubstoreRoot>>, <<Key(1), Val(7)>> >>

StoreRoot == HashFromByteSlices(LeavesOf(Store))

\* ValueOp.ProofOp.
ProofOpOf(tree, i) ==
  [Type |-> ProofOpValue, Key |-> tree[i][1],
   Data |-> ToProto(ProofsFromByteSlices(LeavesOf(tree))[i])]

BadOp == [ProofOpOf(Store, 2) EXCEPT !.Data.leaf_hash = Val(7)]
OtherOp == [Type |-> "other", Key |-> <<>>,
            Data |-> [input |-> <<Val(7)>>, output |-> <<Val(8)>>]]
DropOp == [OtherOp EXCEPT !.Data.output = <<>>]

SomeTypes == {ProofOpValue, "other"}
SomeOps == {ProofOpOf(Substore, i) : i \in 1..3} \cup {ProofOpOf(Store, i) : i \in 1..2}
             \cup {BadOp, OtherOp, DropOp, NilOp}
SomeProofs == UNION {[1..n -> SomeOps] : n \in 0..2}
SomeKeys == {Key(1), Key(2), <<>>}
SomePaths == UNION {[1..n -> SomeKeys] : n \in 0..2}
SomeRoots == {StoreRoot, SubstoreRoot, Val(7)}
SomeArguments == {<<>>, <<Val(7)>>}

------------------------------------------------------------------------------
\* What the trees hold: from a root, a key leads to a value, for which the tree
\* has an operator.  The value may be the root of the next tree.
Held == UNION {{[root |-> t[2], key |-> t[1][i][1], val |-> t[1][i][2],
                 op |-> ProofOpOf(t[1], i)] : i \in 1..Len(t[1])} :
                 t \in {<<Store, StoreRoot>>, <<Substore, SubstoreRoot>>}}

Reached(rt, ks) ==
  LET from[n \in 0..Len(ks)] ==
        IF n = 0 THEN {rt}
        ELSE {h.val : h \in {h \in Held : h.root \in from[n - 1] /\ h.key = ks[n]}}
  IN  from[Len(ks)]

\* A path with the empty key put in at some places.
WithEmpty(ks) ==
  {ks} \cup {SubSeq(ks, 1, i) \o << <<>> >> \o SubSeq(ks, i + 1, Len(ks)) : i \in 0..Len(ks)}

OnlyValueOps == \A i \in 1..Len(proof) : proof[i].Type = ProofOpValue

\* The value given is the one the keys of the path lead to from the root.
StoredAtPath == value # <<>> /\ \E ks \in WithEmpty(path) : value[1] \in Reached(root, ks)

\* The proof has one operator for each tree on the way from the root to the value.
ProvesPath ==
  /\ Len(proof) = 2 /\ Len(path) = 2 /\ value # <<>>
  /\ \E low, high \in Held :
       /\ proof = <<low.op, high.op>> /\ path = <<high.key, low.key>>
       /\ value = <<low.val>> /\ high.val = low.root /\ root = high.root

\* What a proof of value operators is accepted for is stored; so none shows that
\* a key is absent: VerifyAbsence, which passes no value, is refused or, without
\* operators, panics.  The other way round, a value that is stored has a proof
\* that is accepted once the value operator is registered; only a key that is
\* empty must be left out of the path.
AcceptedIffStored ==
  /\ (status = "accepted" /\ OnlyValueOps) => StoredAtPath
  /\ (status = "rejected" /\ ProofOpValue \in decoders /\ ProvesPath) => path[2] = <<>>

------------------------------------------------------------------------------
Init ==
  /\ part \in {"tree", "proofs", "runtime", "path", "namespaces"}
  /\ TreeInit /\ (part # "tree" => input = <<>>)
  /\ ProofInit /\ (part # "proofs" => Len(list) = 1)
  /\ RuntimeInit /\ PathInit /\ NamespaceInit

TreeStep == part = "tree" /\ TreeNext
              /\ UNCHANGED <<part, proofVars, runtimeVars, pth, namespaceVars>>

ProofStep == part = "proofs" /\ ProofNext
               /\ UNCHANGED <<part, treeVars, runtimeVars, pth, namespaceVars>>

RuntimeStep == part = "runtime" /\ RuntimeNext
                 /\ UNCHANGED <<part, treeVars, proofVars, pth, namespaceVars>>

PathStep == part = "path" /\ PathNext
              /\ UNCHANGED <<part, treeVars, proofVars, runtimeVars, namespaceVars>>

NamespaceStep == part = "namespaces" /\ NamespaceNext
                   /\ UNCHANGED <<part, treeVars, proofVars, runtimeVars, pth>>

Next == TreeStep \/ ProofStep \/ RuntimeStep \/ PathStep \/ NamespaceStep

vars == <<part, treeVars, proofVars, runtimeVars, pth, namespaceVars>>

Spec == Init /\ [][Next]_vars
==============================================================================
