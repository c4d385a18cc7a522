--------------------------- MODULE CompactSplitter ---------------------------
(***************************************************************************)
(* A CompactShareSplitter in use: units are written to it and its shares   *)
(* are exported.  `counter` is the CompactShareCounter the square builder  *)
(* keeps in step with a splitter.                                          *)
(*                                                                         *)
(* Every caller in the repository writes first and exports then; the       *)
(* splitter also has code for writing on after an Export, which Reopen     *)
(* allows.                                                                 *)
(***************************************************************************)
EXTENDS CompactShares

CONSTANTS
  Units,     \* the byte sequences WriteTx is called with
  MaxUnits,  \* bound: no more calls of WriteTx than this
  Reopen     \* whether WriteTx is called after an Export

ASSUME SplitterAssumption ==
  /\ Units \subseteq Seq(0..(2 * VarintBase - 1))
  /\ MaxUnits \in Nat /\ Reopen \in BOOLEAN

VARIABLES
  css,      \* the splitter
  written,  \* the units written, in order
  counter   \* a counter that was added the same units

vars == <<css, written, counter>>

Init ==
  /\ css = NewCompactShareSplitter(TxNamespace)
  /\ written = <<>> /\ counter = NewCompactShareCounter

WriteTx(tx) ==
  /\ Len(written) < MaxUnits /\ (css.done => Reopen)
  /\ css' = WriteUnit(css, tx)
  /\ written' = Append(written, tx) /\ counter' = Add(counter, Len(tx))

Export == css' = Exported(css) /\ UNCHANGED <<written, counter>>

Next == (\E tx \in Units : WriteTx(tx)) \/ Export

Spec == Init /\ [][Next]_vars

------------------------------------------------------------------------------
\* The bytes of all units written, delimiters included.
TotalBytes == EndOfUnit(written, Len(written))

\* Count, the counter of the square builder and CompactSharesNeeded agree after
\* any sequence of units: the three ways the code computes how many shares its
\* compact units take, before any share exists, while they are written, and
\* from the bytes alone.
CountsAgree ==
  Count(css) = Size(counter) /\ Count(css) = CompactSharesNeeded(TotalBytes)

\* The sequence length Export writes into the first share is, as sequenceLen
\* says, the length of all units written with their delimiters.
SequenceLenIsTotal == css.done => css.shares[1].sequenceLen = TotalBytes

\* Parsing the exported shares returns the units that were written.
ParseReturnsUnits == css.done => parseCompactShares(css.shares) = written

\* The range WriteTx records for a unit is, end exclusive, exactly the shares
\* with a byte of its last occurrence, whatever was already in the pending
\* share and whether or not the unit ends with its share.
RangesExact ==
  \A k \in 1..Len(written) :
    (\A j \in (k + 1)..Len(written) : written[j] # written[k]) =>
      css.shareRanges[written[k]]
        = UnitRange(written, k)

\* The units that lie entirely within shares i to j.
UnitsWithin(i, j) ==
  LET inside == {k \in 1..Len(written) :
                   FirstShareOf(written, k) >= i /\ LastShareOf(written, k) <= j}
      first == IF inside = {} THEN 1 ELSE Min(inside)
  IN  [n \in 1..Cardinality(inside) |-> written[first + n - 1]]

\* Shares parsed out of the context of their sequence give the units that lie
\* entirely within them, provided a unit begins in the first of them: its
\* reserved bytes lead past the end of the unit before.
SubrangeParse ==
  css.done => \A i \in 1..Len(css.shares) : \A j \in i..Len(css.shares) :
            css.shares[i].reserved # 0 =>
              parseCompactShares(SubSeq(css.shares, i, j)) = UnitsWithin(i, j)

\* What the tests of out of context parsing and extractRawData say: any run of
\* consecutive shares gives the complete units it holds.
AnySubrangeParse ==
  css.done => \A i \in 1..Len(css.shares) : \A j \in i..Len(css.shares) :
            parseCompactShares(SubSeq(css.shares, i, j)) = UnitsWithin(i, j)
==============================================================================
