------------------------------- MODULE MCShares -------------------------------
(***************************************************************************)
(* Packages shares and inclusion.  Their components have no state in       *)
(* common: a behaviour is one of one component, `part`, while the others   *)
(* rest in an initial state.                                               *)
(*                                                                         *)
(* A share has sixteen bytes: a compact one holds ten of content if it is  *)
(* the first of its sequence and twelve otherwise, a sparse one twelve and *)
(* fourteen.                                                               *)
(*                                                                         *)
(* Layout: two blobs of up to 40 shares; with thresholds from 1 to 8 both  *)
(* limits on the subtree width, the threshold and the blob's own square,   *)
(* apply to some of them, and widths range from 1 to 8.  Sparse: blobs     *)
(* that are empty, shorter than the first share, fill it exactly, run one  *)
(* byte over, fill the second exactly and need a third; all but the last   *)
(* end in a zero byte, as padding does.  A cut blob misses 1, 14 or 15     *)
(* bytes.  Commitments: blobs of up to eight shares, those next to the end *)
(* of a share among them, of zeros and of zeros with a one at an end.      *)
(* Loops: integers of 8 and 16 bits, and every length of 8 bits; content   *)
(* sizes of sparse shares are even, as in the code.  Ranges: lists of up   *)
(* to seven shares of five namespaces, one of which cannot be read.        *)
(* Transactions: wrappers that take 13 and 11 bytes with their delimiter,  *)
(* a plain transaction that fills a share, one that is a message of        *)
(* another type and one that breaks off a message.                         *)
(***************************************************************************)
EXTENDS BlobLayout, SparseSplitter, Commitments, CountingLoops, ShareRanges, SplitTxs

VARIABLE part

SmallBlobs == 0..20 \cup {32, 33, 40}
SmallThresholds == {1, 2, 3, 5, 8}
SmallStarts == {0, 1, 3, 6}

Bytes(len) == [i \in 1..len |-> IF i = len /\ len # 27 THEN 0 ELSE i]
OfNamespace(ns, len, version) == [ns |-> ns, data |-> Bytes(len), version |-> version]

BoundaryBlobs ==
  {OfNamespace(300, len, 0) : len \in {0, 1, 12, 13, 26}}
    \cup {OfNamespace(301, 27, 0), OfNamespace(301, 3, 1), OfNamespace(301, 3, 256),
          OfNamespace(UnsupportedNamespace, 13, 0)}

PaddingCounts == {-1, 0, 2}
SomeSpares == {0, 1, 14}

Lengths == {0, 1, 11, 12, 13, 25, 26, 27, 40, 54, 55, 68, 82, 96, 97, 110}
DataOfLength(n) == {[i \in 1..n |-> 0], [i \in 1..n |-> IF i = n THEN 1 ELSE 0],
                    [i \in 1..n |-> IF i = 1 THEN 1 ELSE 0]}

CommittedBlobs ==
  [ns : {300}, data : UNION {DataOfLength(n) : n \in Lengths}, version : {0}]
    \cup [ns : {301}, data : UNION {DataOfLength(n) : n \in {1, 27}}, version : {0, 1, 256}]

LoopInputs ==
  [CompactSharesNeeded |-> 0..(UintSize - 1),
   SparseSharesNeeded |-> 0..(UintSize - 1),
   RoundUpPowerOfTwo |-> 0..UintSize \cup {IntSize \div 4 - 1, IntSize \div 4,
                                           IntSize \div 4 + 1, IntSize \div 2 - 1},
   RawTxSize |-> 1..UintSize]

SomeNamespaces == {TxNamespace, PayForBlobNamespace, 300, UnsupportedNamespace,
                   TailPaddingNamespace}

Wrappers == {MarshalIndexWrapper(<<5>>, <<3>>), MarshalIndexWrapper(<<6>>, <<>>)}
Plains == {[i \in 1..9 |-> 7], MarshalField(1, <<9, 9>>), <<10, 3>>}
SomeTxs == Wrappers \cup Plains

------------------------------------------------------------------------------
Init ==
  /\ part \in {"layout", "sparse", "commitments", "loops", "ranges", "txs"}
  /\ LayoutInit /\ (part # "layout" => subtreeRootThreshold = 1 /\ start = 0)
  /\ SparseInit /\ CommitInit /\ LoopInit /\ RangesInit /\ SplitInit

LayoutStep == part = "layout" /\ LayoutNext
                /\ UNCHANGED <<part, sparseVars, commitVars, loopVars, list, splitVars>>

SparseStep == part = "sparse" /\ SparseNext
                /\ UNCHANGED <<part, layoutVars, commitVars, loopVars, list, splitVars>>

CommitStep == part = "commitments" /\ CommitNext
                /\ UNCHANGED <<part, layoutVars, sparseVars, loopVars, list, splitVars>>

LoopStep == part = "loops" /\ LoopNext
              /\ UNCHANGED <<part, layoutVars, sparseVars, commitVars, list, splitVars>>

RangesStep == part = "ranges" /\ RangesNext
                /\ UNCHANGED <<part, layoutVars, sparseVars, commitVars, loopVars, splitVars>>

SplitStep == part = "txs" /\ SplitNext
               /\ UNCHANGED <<part, layoutVars, sparseVars, commitVars, loopVars, list>>

Next == LayoutStep \/ SparseStep \/ CommitStep \/ LoopStep \/ RangesStep \/ SplitStep

vars == <<part, layoutVars, sparseVars, commitVars, loopVars, list, splitVars>>

\* Once called, a counting loop is not left alone: nothing in it blocks.
Spec == Init /\ [][Next]_vars /\ WF_vars(pc # "idle" /\ LoopStep)
==============================================================================
