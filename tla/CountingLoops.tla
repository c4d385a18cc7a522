---------------------------- MODULE CountingLoops ----------------------------
(***************************************************************************)
(* The loops of CompactSharesNeeded and SparseSharesNeeded                 *)
(* (src/shares/share_sequence.go) and of RoundUpPowerOfTwo                 *)
(* (src/shares/powers_of_two.go) one turn at a time and with integers of a *)
(* width, against the closed forms ShareFormat and CommitmentRules have    *)
(* for them, and the inverse functions of src/shares/utils.go.             *)
(***************************************************************************)
EXTENDS ShareFormat, CommitmentRules

CONSTANT Inputs   \* what each function is called with

\* An int is twice as wide as a uint32, and signed.
IntSize == UintSize * UintSize
Int64(n) == ((n + IntSize \div 2) % IntSize) - IntSize \div 2

VARIABLES
  fn,               \* the function called
  input,            \* its argument
  bytesAvailable,   \* the variable its loop compares, `result` in RoundUpPowerOfTwo
  sharesNeeded,
  pc                \* "idle", "loop" or "done"

loopVars == <<fn, input, bytesAvailable, sharesNeeded, pc>>

LoopInit ==
  /\ fn = "none" /\ input = 0 /\ bytesAvailable = 0 /\ sharesNeeded = 0 /\ pc = "idle"

FirstSize(f) ==
  IF f = "CompactSharesNeeded" THEN FirstCompactShareContentSize
  ELSE FirstSparseShareContentSize

ContinuationSize(f) ==
  IF f = "CompactSharesNeeded" THEN ContinuationCompactShareContentSize
  ELSE ContinuationSparseShareContentSize

\* The bytes that fit in n shares.
AvailableBytesFromShares(f, n) ==
  IF n <= 0 THEN 0 ELSE (n - 1) * ContinuationSize(f) + FirstSize(f)

CallSharesNeeded(f, sequenceLen) ==
  /\ pc = "idle" /\ fn' = f /\ input' = sequenceLen
  /\ \/ /\ sequenceLen = 0 \/ sequenceLen < FirstSize(f)
        /\ sharesNeeded' = IF sequenceLen = 0 THEN 0 ELSE 1
        /\ pc' = "done" /\ UNCHANGED bytesAvailable
     \/ /\ sequenceLen > 0 /\ sequenceLen >= FirstSize(f)
        /\ bytesAvailable' = FirstSize(f) /\ sharesNeeded' = 1
        /\ pc' = "loop"

CallRoundUp_FromZero(n) ==
  /\ pc = "idle" /\ fn' = "RoundUpPowerOfTwo" /\ input' = n
  /\ bytesAvailable' = 0 /\ pc' = "loop" /\ UNCHANGED sharesNeeded

CallRoundUp(n) ==
  /\ pc = "idle" /\ fn' = "RoundUpPowerOfTwo" /\ input' = n
  /\ bytesAvailable' = 1 /\ pc' = "loop" /\ UNCHANGED sharesNeeded

RawTxSize(desiredSize) == desiredSize - DelimLen(desiredSize)

CallRawTxSize(n) ==
  /\ pc = "idle" /\ fn' = "RawTxSize" /\ input' = n
  /\ bytesAvailable' = RawTxSize(n) /\ pc' = "done" /\ UNCHANGED sharesNeeded

\* What the loop compares: SparseSharesNeeded makes a uint32 of it.
Compared == IF fn = "SparseSharesNeeded" THEN bytesAvailable % UintSize ELSE bytesAvailable

More_OrEqual == Compared <= input

More == Compared < input

CountShare ==
  /\ pc = "loop" /\ fn # "RoundUpPowerOfTwo" /\ More
  /\ bytesAvailable' = Int64(bytesAvailable + ContinuationSize(fn))
  /\ sharesNeeded' = Int64(sharesNeeded + 1)
  /\ UNCHANGED <<fn, input, pc>>

Double ==
  /\ pc = "loop" /\ fn = "RoundUpPowerOfTwo" /\ More
  /\ bytesAvailable' = Int64(2 * bytesAvailable)
  /\ UNCHANGED <<fn, input, sharesNeeded, pc>>

LoopReturn ==
  /\ pc = "loop" /\ ~More /\ pc' = "done"
  /\ UNCHANGED <<fn, input, bytesAvailable, sharesNeeded>>

LoopNext ==
  \/ \E f \in {"CompactSharesNeeded", "SparseSharesNeeded"} :
       \E n \in Inputs[f] : CallSharesNeeded(f, n)
  \/ \E n \in Inputs["RoundUpPowerOfTwo"] : CallRoundUp(n)
  \/ \E n \in Inputs["RawTxSize"] : CallRawTxSize(n)
  \/ CountShare \/ Double \/ LoopReturn

LoopSpec == LoopInit /\ [][LoopNext]_loopVars

------------------------------------------------------------------------------
\* What the loops return, if they return, is what the other modules compute
\* without a loop: the least number of shares whose room, as
\* AvailableBytesFromCompactShares and AvailableBytesFromSparseShares give it,
\* reaches the length, and the least power of two that reaches the input.  For a
\* length above LargestSparseLen SparseSharesNeeded does not: its sum wraps and it
\* counts too many.  A transaction of RawTxSize bytes takes, with its delimiter,
\* no more than the size asked for and at most one byte less.
CountsExact ==
  LET Room(n) == AvailableBytesFromShares(fn, n)
      leastShares == /\ input <= Room(sharesNeeded)
                     /\ sharesNeeded > 0 => input > Room(sharesNeeded - 1)
  IN  pc = "done" =>
        CASE fn = "CompactSharesNeeded" ->
               leastShares /\ sharesNeeded = CompactSharesNeeded(input)
          [] fn = "SparseSharesNeeded" /\ input <= LargestSparseLen ->
               leastShares /\ sharesNeeded = SparseSharesNeeded(input)
          [] fn = "SparseSharesNeeded" /\ input > LargestSparseLen ->
               sharesNeeded > SparseSharesNeeded(input)
          [] fn = "RoundUpPowerOfTwo" -> bytesAvailable = RoundUpPowerOfTwo(input)
          [] fn = "RawTxSize" -> DelimitedLen(bytesAvailable) \in {input - 1, input}

\* Inputs nothing the loop compares can reach: sums of even content sizes stay
\* below the largest uint32, and the powers of two below half the range of an
\* int are followed by a negative number and zeros.
OutOfReach ==
  \/ fn = "SparseSharesNeeded" /\ input = UintSize - 1
  \/ fn = "RoundUpPowerOfTwo" /\ input > IntSize \div 4

\* SparseSharesNeeded and RoundUpPowerOfTwo return for every input but those out
\* of reach, also where the sum wraps before it gets there, and
\* CompactSharesNeeded for every length a uint32 holds; for an input out of reach
\* the loop never ends.
LoopsEnd ==
  /\ (pc = "loop" /\ ~OutOfReach) ~> (pc = "done")
  /\ [](OutOfReach => pc # "done")
==============================================================================
