------------------------------ MODULE MCSplitter ------------------------------
(***************************************************************************)
(* The splitter with a share of ten bytes: four of content in the first,   *)
(* six in the others, and varints of base four.  With their delimiters the *)
(* units fill less than the first share (2), exactly the first (4) or a    *)
(* continuation share (6), more than one (7), and more than three (14).    *)
(***************************************************************************)
EXTENDS CompactSplitter

Unit(len, byte) == [i \in 1..len |-> byte]

BoundaryUnits == {Unit(1, 1), Unit(3, 2), Unit(4, 1), Unit(5, 3), Unit(12, 2)}
ShortUnits == {Unit(1, 1), Unit(3, 2)}
WithEmptyUnit == {Unit(0, 0), Unit(1, 1)}
==============================================================================
