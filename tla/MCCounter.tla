------------------------------ MODULE MCCounter ------------------------------
(***************************************************************************)
(* The counter with the code's share layout and unit lengths on both sides *)
(* of every boundary: one- and two-byte delimiters (127, 128), an exactly  *)
(* full first share (472), an exactly full continuation share (476), two   *)
(* shares at once (950) and more.                                          *)
(***************************************************************************)
EXTENDS CompactShareCounter

BoundaryLens == {0, 1, 127, 128, 471, 472, 473, 476, 950, 1430}
==============================================================================
