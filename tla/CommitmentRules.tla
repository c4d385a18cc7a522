--------------------------- MODULE CommitmentRules ---------------------------
(***************************************************************************)
(* Powers of two (src/shares/powers_of_two.go), the blob share commitment  *)
(* rules that decide where a blob may start in a square                    *)
(* (src/inclusion/blob_share_commitment_rules.go) and the sizes of the     *)
(* subtrees a share commitment is made of (src/inclusion/commitment.go).   *)
(***************************************************************************)
EXTENDS Integers, Sequences

\* 2^24 shares are more than the longest blob takes, whose length is a uint32.
LargestPowerOfTwo == 16777216

PowersOfTwo == {1, 2, 4, 8, 16, 32, 64, 128, 256, 512, 1024, 2048, 4096,
                8192, 16384, 32768, 65536, 131072, 262144, 524288,
                1048576, 2097152, 4194304, 8388608, LargestPowerOfTwo}

IsPowerOfTwo(input) == input \in PowersOfTwo

RoundUpPowerOfTwo(input) ==
  CHOOSE p \in PowersOfTwo :
    p >= input /\ \A q \in PowersOfTwo : q >= input => p <= q

\* With an input that is not positive the code returns 0 and an error.
RoundDownPowerOfTwo(input) ==
  LET roundedUp == RoundUpPowerOfTwo(input)
  IN  IF input <= 0 THEN 0
      ELSE IF roundedUp = input THEN roundedUp ELSE roundedUp \div 2

\* math.Ceil(math.Sqrt(n)): the least integer whose square reaches n.
CeilSqrt(n) == CHOOSE k \in 0..n : k * k >= n /\ \A j \in 0..n : j * j >= n => k <= j

BlobMinSquareSize(shareCount) == RoundUpPowerOfTwo(CeilSqrt(shareCount))

SubTreeWidth_Uncapped(shareCount, subtreeRootThreshold) ==
  RoundUpPowerOfTwo((shareCount + subtreeRootThreshold - 1)
                      \div subtreeRootThreshold)

SubTreeWidth(shareCount, subtreeRootThreshold) ==
  LET s == shareCount \div subtreeRootThreshold
             + (IF shareCount % subtreeRootThreshold # 0 THEN 1 ELSE 0)
      byThreshold == RoundUpPowerOfTwo(s)
      bySquare == BlobMinSquareSize(shareCount)
  IN  IF byThreshold < bySquare THEN byThreshold ELSE bySquare

RoundUpByMultipleOf_AlwaysUp(cursor, v) == ((cursor \div v) + 1) * v

RoundUpByMultipleOf(cursor, v) ==
  IF cursor % v = 0 THEN cursor ELSE ((cursor \div v) + 1) * v

NextShareIndex(cursor, blobShareLen, subtreeRootThreshold) ==
  RoundUpByMultipleOf(cursor, SubTreeWidth(blobShareLen, subtreeRootThreshold))

MerkleMountainRangeSizes(totalSize, maxTreeSize) ==
  LET sizes[left \in 0..totalSize] ==
        IF left = 0 THEN <<>>
        ELSE LET tree == IF left >= maxTreeSize THEN maxTreeSize
                         ELSE RoundDownPowerOfTwo(left)
             IN  <<tree>> \o sizes[left - tree]
  IN  sizes[totalSize]
==============================================================================
