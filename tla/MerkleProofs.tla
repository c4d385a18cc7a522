----------------------------- MODULE MerkleProofs -----------------------------
(***************************************************************************)
(* What a Merkle proof proves (src/merkle/proof.go): the life of a proof   *)
(* between ProofsFromByteSlices and Verify.                                *)
(*                                                                         *)
(* A proof of one item of a list is taken, then some of its fields and the *)
(* leaf it is presented with change, and Verify judges it against the root *)
(* of the list.                                                            *)
(***************************************************************************)
EXTENDS ProofOps

CONSTANTS
  MaxItems,    \* bound: items of a list
  MaxChanges   \* bound: changes to a proof

VARIABLES
  list,        \* the items
  proved,      \* whether a proof was made
  sp, leaf,    \* the proof and what it is presented with
  changes      \* the changes made so far

proofVars == <<list, proved, sp, leaf, changes>>

\* Items that differ; one of them is empty.
ItemsOf(n) == [i \in 1..n |-> IF i = 1 THEN <<>> ELSE <<Byte(i)>>]

rootHash == HashFromByteSlices(list)

\* Leaves a proof may be presented with: those of the list, one that is not in
\* it, and the two digests an inner node of the tree is made of.
Leaves ==
  LET H == SubtreeHash(list)
      inner(lo, n) == H[lo, getSplitPoint(n)] \o H[lo + getSplitPoint(n), n - getSplitPoint(n)]
  IN  {list[i] : i \in 1..Len(list)} \cup {<<Byte(99)>>}
        \cup {inner(0, n) : n \in 2..Len(list)}

ProofInit ==
  /\ \E n \in 1..MaxItems : list = ItemsOf(n)
  /\ proved = FALSE /\ sp = Proof(0, 0, NoHash, <<>>) /\ leaf = <<>>
  /\ changes = 0

\* ProofsFromByteSlices is called and one of its proofs taken.
Prove ==
  /\ ~proved /\ proved' = TRUE
  /\ \E i \in 1..Len(list) : sp' = ProofsFromByteSlices(list)[i] /\ leaf' = list[i]
  /\ UNCHANGED <<list, changes>>

Change(newProof, newLeaf) ==
  /\ proved /\ changes < MaxChanges /\ changes' = changes + 1
  /\ sp' = newProof /\ leaf' = newLeaf
  /\ UNCHANGED <<list, proved>>

ChangeIndex == \E i \in -1..MaxItems : Change([sp EXCEPT !.Index = i], leaf)

ChangeTotal == \E n \in -1..(MaxItems + 1) : Change([sp EXCEPT !.Total = n], leaf)

\* The leaf alone, or together with its hash in the proof.
ChangeLeaf ==
  \E l \in Leaves : \/ Change(sp, l)
                    \/ Change([sp EXCEPT !.LeafHash = leafHash(l)], l)

DropAunt ==
  \E i \in 1..Len(sp.Aunts) :
    Change([sp EXCEPT !.Aunts = SubSeq(@, 1, i - 1) \o SubSeq(@, i + 1, Len(@))], leaf)

RepeatAunt ==
  \E i \in 1..Len(sp.Aunts) : Change([sp EXCEPT !.Aunts = Append(@, @[i])], leaf)

SwapAunts ==
  /\ Len(sp.Aunts) >= 2
  /\ Change([sp EXCEPT !.Aunts = <<@[2], @[1]>> \o SubSeq(@, 3, Len(@))], leaf)

\* An aunt that is no digest: too short, too long, or with the digest of the leaf
\* in front, as an inner node has them.
ResizeAunt ==
  \E i \in 1..Len(sp.Aunts) :
    \E bz \in {<<>>, <<Byte(99)>>, Append(sp.Aunts[i], Byte(99)), sp.LeafHash \o sp.Aunts[i]} :
      Change([sp EXCEPT !.Aunts[i] = bz], leaf)

ProofNext == Prove \/ ChangeIndex \/ ChangeTotal \/ ChangeLeaf \/ DropAunt
          \/ RepeatAunt \/ SwapAunts \/ ResizeAunt

ProofSpec == ProofInit /\ [][ProofNext]_proofVars

------------------------------------------------------------------------------
\* A proof as it was made is accepted with its own item, and with no other: the
\* trail through the recursive tree is the one the verifier computes back from
\* index and total alone.  It also passes ValidateBasic, and comes back from its
\* protobuf form.
ProofsAreAccepted ==
  (proved /\ changes = 0) =>
    /\ \A l \in Leaves : Verify(sp, rootHash, l) <=> l = leaf
    /\ ProofFromProto(ToProto(sp)) = [ok |-> TRUE, sp |-> sp]

\* Whatever is accepted is an item of the list, never the content of an inner
\* node; and when the total is that of the list, it is the item at the index.  An
\* accepted proof has as many aunts as the way of its index up a tree of its
\* total, so that no proof can be made longer; it passes ValidateBasic too,
\* though Verify looks at the size of no aunt: an aunt of another size, or the two
\* digests of an inner node in place of one, leads to another root.
AcceptedIsIncluded ==
  Verify(sp, rootHash, leaf) =>
    /\ \E i \in 1..Len(list) : list[i] = leaf
    /\ sp.Total = Len(list) => list[sp.Index + 1] = leaf
    /\ ValidateBasic(sp) /\ sp.Index < sp.Total
    /\ Len(sp.Aunts) =
         Len(FlattenAunts([i \in 1..sp.Total |-> <<>>], sp.Index))
==============================================================================
