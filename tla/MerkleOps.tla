------------------------------ MODULE MerkleOps ------------------------------
(***************************************************************************)
(* The hashes and the recursive tree of package merkle                     *)
(* (src/merkle/hash.go, tree.go).                                          *)
(*                                                                         *)
(* A byte string is a sequence of symbols.  A symbol is one byte, or the   *)
(* 32 bytes of a SHA-256 digest, which is taken to be as good as the       *)
(* string it was made of: two strings have the same digest only if they    *)
(* are the same.                                                           *)
(***************************************************************************)
EXTENDS Integers, Sequences

Byte(n) == [byte |-> n]

hash(bz) == <<[sha |-> bz]>>

leafPrefix == <<Byte(0)>>
innerPrefix == <<Byte(1)>>

emptyHash == hash(<<>>)

leafHash_InnerPrefix(leaf) == hash(innerPrefix \o leaf)

leafHash(leaf) == hash(leafPrefix \o leaf)

innerHash(left, right) == hash(innerPrefix \o left \o right)

------------------------------------------------------------------------------
\* Lists have at most 2^24 items, far below the range of an int.
MaxTreeSize == 16777216

TopBits == {1, 2, 4, 8, 16, 32, 64, 128, 256, 512, 1024, 2048, 4096, 8192, 16384,
            32768, 65536, 131072, 262144, 524288, 1048576, 2097152, 4194304,
            8388608, MaxTreeSize}

getSplitPoint_Half(length) == (length + 1) \div 2

\* bits.Len, as the number that has only the highest bit of `length`.
topBit(length) == CHOOSE p \in TopBits : p <= length /\ length < 2 * p

getSplitPoint(length) ==
  LET k == topBit(length) IN IF k = length THEN k \div 2 ELSE k

\* HashFromByteSlices of the n items that follow the first lo.
SubtreeHash(items) ==
  LET H[lo \in 0..Len(items), n \in 0..Len(items)] ==
        CASE n = 0 -> emptyHash
          [] n = 1 -> leafHash(items[lo + 1])
          [] OTHER -> LET k == getSplitPoint(n)
                      IN  innerHash(H[lo, k], H[lo + k, n - k])
  IN  H

HashFromByteSlices(items) == SubtreeHash(items)[0, Len(items)]
==============================================================================
