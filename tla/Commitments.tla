----------------------------- MODULE Commitments -----------------------------
(***************************************************************************)
(* CreateCommitments (src/inclusion/commitment.go): a blob is split into   *)
(* shares, the shares into subtrees, and the commitment is the Merkle root *)
(* of the roots of those.  One step is one turn of its loop.               *)
(*                                                                         *)
(* Hashes are the terms of MerkleOps; merkleRootFn is HashFromByteSlices,  *)
(* which the callers pass.                                                 *)
(***************************************************************************)
EXTENDS SparseShares, CommitmentRules

CONSTANTS
  Blobs,          \* the blobs commitments are made for
  MaxCommitted,   \* bound on the blobs of a call
  Threshold       \* the subtree root threshold

Merkle == INSTANCE MerkleOps

VARIABLES
  blobs,         \* the blobs of the call so far
  commitments,   \* their commitments
  commitErr      \* the error returned, "none" without one

commitVars == <<blobs, commitments, commitErr>>

------------------------------------------------------------------------------
\* The parts of the shares, of treeSizes each.
LeafSets_FullTrees(shares, width) ==
  [i \in 1..(Len(shares) \div width) |-> SubSeq(shares, (i - 1) * width + 1, i * width)]

LeafSets(shares, width) ==
  LET treeSizes == MerkleMountainRangeSizes(Len(shares), width)
      cursor[i \in 0..Len(treeSizes)] == IF i = 0 THEN 0 ELSE cursor[i - 1] + treeSizes[i]
  IN  [i \in 1..Len(treeSizes) |-> SubSeq(shares, cursor[i - 1] + 1, cursor[i])]

\* The root of a namespaced Merkle tree over leaves of one namespace: that
\* namespace twice, and the root of the tree of the leaves.
NmtRoot(ns, leaves) ==
  <<Merkle!Byte(ns), Merkle!Byte(ns)>> \o Merkle!HashFromByteSlices(leaves)

SubTreeRoot(ns, leafSet) ==
  NmtRoot(ns, [i \in 1..Len(leafSet) |-> <<Merkle!Byte(ns), leafSet[i]>>])

CreateCommitment(blob) ==
  LET shares == WriteBlob(blob)
      leafSets == LeafSets(shares, SubTreeWidth(Len(shares), Threshold))
  IN  Merkle!HashFromByteSlices(
        [i \in 1..Len(leafSets) |-> SubTreeRoot(blob.ns, leafSets[i])])

------------------------------------------------------------------------------
CommitInit == blobs = <<>> /\ commitments = <<>> /\ commitErr = "none"

Commit(blob) ==
  /\ commitErr = "none" /\ Len(blobs) < MaxCommitted
  /\ blobs' = Append(blobs, blob)
  /\ \/ /\ WriteError(blob) = "none"
        /\ commitments' = Append(commitments, CreateCommitment(blob)) /\ UNCHANGED commitErr
     \/ /\ WriteError(blob) # "none"
        /\ commitments' = <<>> /\ commitErr' = WriteError(blob)

CommitNext == \E blob \in Blobs : Commit(blob)

CommitSpec == CommitInit /\ [][CommitNext]_commitVars

------------------------------------------------------------------------------
\* A commitment binds its blob: two blobs have the same one only if they have the
\* same namespace and the same data, however many shares and subtrees they take
\* and whatever zeros they end with, which look like the padding of their last
\* share.
CommitmentsBind ==
  \A i, j \in 1..Len(commitments) : commitments[i] = commitments[j] => blobs[i] = blobs[j]
==============================================================================
