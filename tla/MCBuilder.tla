------------------------------ MODULE MCBuilder ------------------------------
(***************************************************************************)
(* square.Builder with the share layout of src/shares/consts.go.           *)
(***************************************************************************)
EXTENDS BuilderProperties

B(ns, len) == [ns |-> ns, len |-> len, version |-> ShareVersionZero]

\* A square of 4 x 4 and blobs of 1, 2 and 5 shares, whose subtree widths with a
\* threshold of 1 are 1, 2 and 4.  An empty blob and one of an unsupported share
\* version are refused by Export only; behind one of an unreadable namespace
\* Export cannot pad.  A regular transaction fills a compact share exactly or
\* takes two.
SmallTxLens == {472, 600}

SmallBlobTxs ==
  { [tx |-> 100, blobs |-> <<B(300, 100)>>],
    [tx |-> 100, blobs |-> <<B(301, 500), B(300, 100)>>],
    [tx |-> 460, blobs |-> <<B(301, 100), B(301, 2000)>>],
    [tx |-> 100, blobs |-> <<B(301, 0)>>],
    [tx |-> 100, blobs |-> <<[B(300, 100) EXCEPT !.version = 1]>>],
    [tx |-> 100, blobs |-> <<B(UnsupportedNamespace, 100), B(UnsupportedNamespace, 500)>>] }

\* A square of 16 x 16, where the largest share index takes two bytes and the
\* indexes handed out may take one.  With the largest indexes the wrapper of
\* the first transaction fills a compact share and one byte of the next; behind
\* the 127 shares of the second's blob its real indexes are as long, and both
\* wrappers then fill two shares and one byte.
WideTxLens == {100}

WideBlobTxs ==
  { [tx |-> 458, blobs |-> <<B(301, 100), B(300, 500)>>],
    [tx |-> 464, blobs |-> <<B(300, 61000)>>] }
==============================================================================
