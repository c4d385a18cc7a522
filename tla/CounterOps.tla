------------------------------ MODULE CounterOps ------------------------------
(***************************************************************************)
(* The operations of shares.CompactShareCounter (src/shares/counter.go) on *)
(* counter values.  A counter records how many compact shares are full and *)
(* how many bytes the last, partly filled one holds, and keeps a copy of   *)
(* the state before the last Add for Revert.                               *)
(***************************************************************************)
EXTENDS ShareFormat

Counter == [lastShares : Nat, lastRemainder : Nat, shares : Nat, remainder : Nat]

NewCompactShareCounter ==
  [lastShares |-> 0, lastRemainder |-> 0, shares |-> 0, remainder |-> 0]

\* The three stages of Add, each on the shares counted, the bytes in the last
\* share and the bytes still to be placed.
FillFirstShare(p) ==
  LET room == FirstCompactShareContentSize - p.remainder IN
  IF p.shares # 0 THEN p
  ELSE IF p.left >= room
       THEN [shares |-> 1, remainder |-> 0, left |-> p.left - room]
       ELSE [shares |-> 0, remainder |-> p.remainder + p.left, left |-> 0]

FillContinuationShare_TooEager(p) ==
  LET room == ContinuationCompactShareContentSize - p.remainder IN
  IF p.left >= room
  THEN [shares |-> p.shares + 1, remainder |-> 0, left |-> p.left - room]
  ELSE [shares |-> p.shares, remainder |-> p.left, left |-> 0]

FillContinuationShare_Strict(p) ==
  LET room == ContinuationCompactShareContentSize - p.remainder IN
  IF p.left > room
  THEN [shares |-> p.shares + 1, remainder |-> 0, left |-> p.left - room]
  ELSE [shares |-> p.shares, remainder |-> p.remainder + p.left, left |-> 0]

FillContinuationShare(p) ==
  LET room == ContinuationCompactShareContentSize - p.remainder IN
  IF p.left >= room
  THEN [shares |-> p.shares + 1, remainder |-> 0, left |-> p.left - room]
  ELSE [shares |-> p.shares, remainder |-> p.remainder + p.left, left |-> 0]

DivideTheRest(p) ==
  IF p.left > 0
  THEN [shares |-> p.shares + p.left \div ContinuationCompactShareContentSize,
        remainder |-> p.left % ContinuationCompactShareContentSize,
        left |-> 0]
  ELSE p

Add(c, dataLen) ==
  LET p == DivideTheRest(FillContinuationShare(FillFirstShare(
             [shares |-> c.shares, remainder |-> c.remainder,
              left |-> DelimitedLen(dataLen)])))
  IN  [lastShares |-> c.shares, lastRemainder |-> c.remainder,
       shares |-> p.shares, remainder |-> p.remainder]

\* What Add returns, computed on the counter it leaves behind.
AddDiff(c) ==
  c.shares - c.lastShares
    + (IF c.lastRemainder = 0 /\ c.remainder > 0 THEN 1
       ELSE IF c.lastRemainder > 0 /\ c.remainder = 0 THEN -1 ELSE 0)

Revert(c) == [c EXCEPT !.shares = c.lastShares, !.remainder = c.lastRemainder]

Size_FullOnly(c) == c.shares

Size(c) == IF c.remainder = 0 THEN c.shares ELSE c.shares + 1

------------------------------------------------------------------------------
\* The bytes that fill `shares` compact shares and `remainder` of the next.
BytesOf(shares, remainder) ==
  IF shares = 0 THEN remainder
  ELSE FirstCompactShareContentSize
         + (shares - 1) * ContinuationCompactShareContentSize + remainder

\* A partly filled share is never full: `remainder` stays below what the share
\* it describes can hold.
Normalised(shares, remainder) ==
  /\ remainder >= 0
  /\ shares = 0 => remainder < FirstCompactShareContentSize
  /\ shares > 0 => remainder < ContinuationCompactShareContentSize
==============================================================================
