------------------------------- MODULE MCSquare -------------------------------
(***************************************************************************)
(* Build, Construct and Deconstruct on all lists of a few transactions for *)
(* a square of 4 x 4, with shares of sixteen bytes and varints of base 16. *)
(* The largest share index takes two bytes and those handed out one, so    *)
(* that wrappers shrink between being counted and being written.  Regular  *)
(* transactions fill a compact share exactly or spill; blobs take one full *)
(* share, two, and five, which are placed on multiples of four; a blob     *)
(* transaction has its blobs out of order; Export refuses the empty blob.  *)
(***************************************************************************)
EXTENDS Proposal, Deconstruct

B(ns, len) == [ns |-> ns, len |-> len, version |-> ShareVersionZero]

SomeTxLens == {9, 14}
SomeSpares == {0, 14}

SomeBlobTxs ==
  { [tx |-> 2, blobs |-> <<B(300, 12)>>],
    [tx |-> 5, blobs |-> <<B(301, 13), B(300, 1)>>],
    [tx |-> 1, blobs |-> <<B(301, 60)>>],
    [tx |-> 2, blobs |-> <<B(301, 0)>>] }
==============================================================================
