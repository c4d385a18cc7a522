------------------------------- MODULE ProofOps -------------------------------
(***************************************************************************)
(* Merkle inclusion proofs (src/merkle/proof.go) on the byte strings of    *)
(* MerkleOps.                                                              *)
(***************************************************************************)
EXTENDS MerkleOps, FiniteSets

MaxAunts == 100

Proof(total, index, leaf, aunts) ==
  [Total |-> total, Index |-> index, LeafHash |-> leaf, Aunts |-> aunts]

\* trailsFromByteSlices and FlattenAunts: the trail of an item leads from its
\* leaf to the root, and the sibling of every node on it is an aunt.
FlattenAunts_RootFirst(items, index) ==
  LET H == SubtreeHash(items)
      trail[lo \in 0..Len(items), n \in 1..Len(items)] ==
        IF n = 1 THEN <<>>
        ELSE LET k == getSplitPoint(n)
             IN  IF index < lo + k THEN <<H[lo + k, n - k]>> \o trail[lo, k]
                 ELSE <<H[lo, k]>> \o trail[lo + k, n - k]
  IN  trail[0, Len(items)]

FlattenAunts(items, index) ==
  LET H == SubtreeHash(items)
      trail[lo \in 0..Len(items), n \in 1..Len(items)] ==
        IF n = 1 THEN <<>>
        ELSE LET k == getSplitPoint(n)
             IN  IF index < lo + k THEN Append(trail[lo, k], H[lo + k, n - k])
                 ELSE Append(trail[lo + k, n - k], H[lo, k])
  IN  trail[0, Len(items)]

ProofsFromByteSlices(items) ==
  [i \in 1..Len(items) |->
     Proof(Len(items), i - 1, leafHash(items[i]), FlattenAunts(items, i - 1))]

\* computeHashFromAunts; the error result is NoHash.
NoHash == <<>>

computeHashFromAunts(index, total, leaf, aunts) ==
  LET up[ix \in 0..total, n \in 0..total, k \in 0..Len(aunts)] ==
        IF n = 1 THEN IF k # 0 THEN NoHash ELSE leaf
        ELSE IF k = 0 THEN NoHash
        ELSE LET numLeft == getSplitPoint(n)
                 left == up[ix, numLeft, k - 1]
                 right == up[ix - numLeft, n - numLeft, k - 1]
             IN  IF ix < numLeft
                 THEN IF left = NoHash THEN NoHash ELSE innerHash(left, aunts[k])
                 ELSE IF right = NoHash THEN NoHash ELSE innerHash(aunts[k], right)
  IN  IF index >= total \/ index < 0 \/ total <= 0 THEN NoHash
      ELSE up[index, total, Len(aunts)]

computeRootHash(sp) == computeHashFromAunts(sp.Index, sp.Total, sp.LeafHash, sp.Aunts)

\* Whether Verify returns no error.  A nil root hash is refused before all else.
Verify(sp, rootHash, leaf) ==
  /\ rootHash # NoHash
  /\ sp.Total >= 0 /\ sp.Index >= 0
  /\ sp.LeafHash = leafHash(leaf)
  /\ computeRootHash(sp) # NoHash /\ computeRootHash(sp) = rootHash

\* A digest is the one symbol hash makes.
IsDigest(bz) == Len(bz) = 1 /\ DOMAIN bz[1] = {"sha"}

ValidateBasic(sp) ==
  /\ sp.Total >= 0 /\ sp.Index >= 0
  /\ IsDigest(sp.LeafHash)
  /\ Len(sp.Aunts) <= MaxAunts
  /\ \A i \in 1..Len(sp.Aunts) : IsDigest(sp.Aunts[i])

\* ToProto and ProofFromProto copy every field; a proof that ValidateBasic
\* refuses does not come back.
ToProto(sp) == [total |-> sp.Total, index |-> sp.Index, leaf_hash |-> sp.LeafHash,
                aunts |-> sp.Aunts]

ProofFromProto(pb) ==
  LET sp == Proof(pb.total, pb.index, pb.leaf_hash, pb.aunts)
  IN  [ok |-> ValidateBasic(sp), sp |-> sp]
==============================================================================
