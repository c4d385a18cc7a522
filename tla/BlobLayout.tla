------------------------------ MODULE BlobLayout ------------------------------
(***************************************************************************)
(* inclusion.BlobSharesUsedNonInteractiveDefaults: blobs laid out one      *)
(* after the other from a cursor, each moved up to the next index the      *)
(* commitment rules allow; and CreateCommitment's split of each blob into  *)
(* the subtrees whose roots make up its share commitment.                  *)
(***************************************************************************)
EXTENDS CommitmentRules, FiniteSetsExt

CONSTANTS
  BlobShareLens,   \* the share lengths blobs may have
  Thresholds,      \* the subtree root thresholds considered
  Starts,          \* the cursors the layout may start from
  MaxBlobs         \* bound: the number of blobs laid out

ASSUME LayoutAssumption ==
  /\ BlobShareLens \subseteq Nat /\ Starts \subseteq Nat
  /\ Thresholds \subseteq Nat \ {0} /\ MaxBlobs \in Nat

VARIABLES
  subtreeRootThreshold,
  start,       \* the cursor the caller passed
  cursor,
  placed       \* the blobs laid out: where each starts and its share length

layoutVars == <<subtreeRootThreshold, start, cursor, placed>>

LayoutInit ==
  /\ subtreeRootThreshold \in Thresholds
  /\ start \in Starts
  /\ cursor = start
  /\ placed = <<>>

\* One turn of the loop of BlobSharesUsedNonInteractiveDefaults.
PlaceBlob(blobLen) ==
  LET index == NextShareIndex(cursor, blobLen, subtreeRootThreshold) IN
  /\ Len(placed) < MaxBlobs
  /\ placed' = Append(placed, [index |-> index, len |-> blobLen])
  /\ cursor' = index + blobLen
  /\ UNCHANGED <<subtreeRootThreshold, start>>

LayoutNext == \E blobLen \in BlobShareLens : PlaceBlob(blobLen)

LayoutSpec == LayoutInit /\ [][LayoutNext]_layoutVars

sharesUsed == cursor - start

------------------------------------------------------------------------------
\* The subtree sizes of a blob's commitment and where each subtree begins
\* within the blob (the leafSets of CreateCommitment).
treeSizes(blobLen) ==
  MerkleMountainRangeSizes(blobLen, SubTreeWidth(blobLen, subtreeRootThreshold))

leafSetStart(sizes, i) == MapThenSumSet(LAMBDA j : sizes[j], 1..(i - 1))

\* Square sides a blob can be committed to: every power of two that could hold
\* it, up to twice the smallest one that could hold the whole layout.
SquareSides(blobLen) ==
  {k \in PowersOfTwo : BlobMinSquareSize(blobLen) <= k
                       /\ k <= 2 * BlobMinSquareSize(cursor)}

\* The reason for the commitment rules (ADR-013): wherever the rules put a
\* blob, every subtree of its commitment is a complete subtree of a row tree,
\* in every square large enough to hold the blob.  It starts at a multiple of
\* its size, a power of two, and it does not run over the end of a row.  The
\* commitment can then be checked against the row roots without knowing the
\* square's size.  The subtrees cover the blob exactly, none larger than the one
\* before: CreateCommitment slices past neither end of the blob's shares.
SubtreesAreRowSubtrees ==
  \A b \in DOMAIN placed :
    LET sizes == treeSizes(placed[b].len) IN
    /\ leafSetStart(sizes, Len(sizes) + 1) = placed[b].len
    /\ \A i \in DOMAIN sizes :
         LET first == placed[b].index + leafSetStart(sizes, i)
             last == first + sizes[i] - 1
         IN  /\ IsPowerOfTwo(sizes[i]) /\ first % sizes[i] = 0
             /\ i > 1 => sizes[i - 1] >= sizes[i]
             /\ \A k \in SquareSides(placed[b].len) : first \div k = last \div k

\* The allowance square.Builder makes for a blob before it knows the final
\* order, its shares and SubTreeWidth - 1 of padding (newElement), is enough
\* for the whole layout from any cursor, blobs never overlap, and
\* BlobMinSquareSize is the least power-of-two side that holds the layout.
LayoutFits ==
  LET k == BlobMinSquareSize(cursor)
  IN  /\ sharesUsed <= MapThenSumSet(
           LAMBDA b : placed[b].len
                        + SubTreeWidth(placed[b].len, subtreeRootThreshold) - 1,
           DOMAIN placed)
      /\ \A b \in 2..Len(placed) :
           placed[b - 1].index + placed[b - 1].len <= placed[b].index
      /\ k * k >= cursor
      /\ \A p \in PowersOfTwo : p < k => p * p < cursor
==============================================================================
