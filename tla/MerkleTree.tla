------------------------------ MODULE MerkleTree ------------------------------
(***************************************************************************)
(* HashFromByteSlicesIterative (src/merkle/tree.go): the tree is hashed    *)
(* level by level in one slice that is overwritten while it is read.  Each *)
(* turn of a loop is a step.                                               *)
(*                                                                         *)
(* Three variables are not in the code and tell what happened to the       *)
(* leaves: `spans` are the leaves below each item, `joins` the pairs that  *)
(* were hashed together, and `width` the leaves below a full item of the   *)
(* level being read.                                                       *)
(***************************************************************************)
EXTENDS MerkleOps

CONSTANT Inputs   \* the lists of byte slices to hash

ASSUME InputsAssumption == \A input \in Inputs : Len(input) \in 0..MaxTreeSize

VARIABLES
  input, items, size, rp, wp,
  pc,           \* "switch", "pass" or "returned"
  result,       \* what was returned
  spans, joins, width

code == <<input, items, size, rp, wp, pc, result>>
treeVars == <<code, spans, joins, width>>

Span(lo, hi) == [lo |-> lo, hi |-> hi]

\* The call up to its outer loop.
TreeInit ==
  /\ input \in Inputs
  /\ items = [i \in 1..Len(input) |-> leafHash(input[i])]
  /\ size = Len(input) /\ rp = 0 /\ wp = 0
  /\ pc = "switch" /\ result = <<>>
  /\ spans = [i \in 1..Len(input) |-> Span(i - 1, i)]
  /\ joins = {} /\ width = 1

Return ==
  /\ pc = "switch" /\ size <= 1
  /\ result' = IF size = 0 THEN emptyHash ELSE items[1]
  /\ pc' = "returned"
  /\ UNCHANGED <<input, items, size, rp, wp, spans, joins, width>>

StartPass ==
  /\ pc = "switch" /\ size > 1
  /\ rp' = 0 /\ wp' = 0 /\ pc' = "pass"
  /\ UNCHANGED <<input, items, size, result, spans, joins, width>>

Pair_WriteAhead ==
  LET left == spans[rp + 1]
      right == spans[rp + 2]
  IN  /\ pc = "pass" /\ rp + 1 < size
      /\ items' = [items EXCEPT ![rp + 2] = innerHash(items[rp + 1], items[rp + 2])]
      /\ spans' = [spans EXCEPT ![rp + 2] = Span(left.lo, right.hi)]
      /\ joins' = joins \cup {[lo |-> left.lo, mid |-> right.lo, hi |-> right.hi]}
      /\ rp' = rp + 2 /\ wp' = wp + 1
      /\ UNCHANGED <<input, size, pc, result, width>>

Pair ==
  LET left == spans[rp + 1]
      right == spans[rp + 2]
  IN  /\ pc = "pass" /\ rp + 1 < size
      /\ items' = [items EXCEPT ![wp + 1] = innerHash(items[rp + 1], items[rp + 2])]
      /\ spans' = [spans EXCEPT ![wp + 1] = Span(left.lo, right.hi)]
      /\ joins' = joins \cup {[lo |-> left.lo, mid |-> right.lo, hi |-> right.hi]}
      /\ rp' = rp + 2 /\ wp' = wp + 1
      /\ UNCHANGED <<input, size, pc, result, width>>

Carry_Doubled ==
  /\ pc = "pass" /\ rp + 1 = size
  /\ items' = [items EXCEPT ![wp + 1] = innerHash(items[rp + 1], items[rp + 1])]
  /\ spans' = [spans EXCEPT ![wp + 1] = spans[rp + 1]]
  /\ rp' = rp + 1 /\ wp' = wp + 1
  /\ UNCHANGED <<input, size, pc, result, joins, width>>

\* The last item of a level with an odd number of them moves up as it is.
Carry ==
  /\ pc = "pass" /\ rp + 1 = size
  /\ items' = [items EXCEPT ![wp + 1] = items[rp + 1]]
  /\ spans' = [spans EXCEPT ![wp + 1] = spans[rp + 1]]
  /\ rp' = rp + 1 /\ wp' = wp + 1
  /\ UNCHANGED <<input, size, pc, result, joins, width>>

EndPass ==
  /\ pc = "pass" /\ rp >= size
  /\ size' = wp /\ pc' = "switch" /\ width' = 2 * width
  /\ UNCHANGED <<input, items, rp, wp, result, spans, joins>>

TreeNext == Return \/ StartPass \/ Pair \/ Carry \/ EndPass

TreeSpec == TreeInit /\ [][TreeNext]_treeVars

------------------------------------------------------------------------------
\* The two algorithms, which the code keeps side by side, agree on every list.
RootsAgree == pc = "returned" => result = HashFromByteSlices(input)

\* Two items are only ever hashed together where the recursive algorithm splits
\* the leaves below them, and the item that is left has all leaves below it: no
\* item was overwritten before it was read.
JoinsAreSplits ==
  /\ \A j \in joins : j.lo < j.mid /\ j.mid < j.hi
                      /\ j.mid - j.lo = getSplitPoint(j.hi - j.lo)
  /\ (pc = "returned" /\ input # <<>>) => spans[1] = Span(0, Len(input))

------------------------------------------------------------------------------
MinOf(a, b) == IF a <= b THEN a ELSE b

\* Item i of the level whose full items have w leaves below them.
Block(w, i) == Span((i - 1) * w, MinOf(i * w, Len(input)))

\* The inductive invariant behind JoinsAreSplits: the items already written in
\* a pass are those of the next level, and those still to be read are intact.
LevelsIntact ==
  /\ input \in Inputs
  /\ size \in 0..Len(input) /\ width \in TopBits
  /\ (size - 1) * width < Len(input) /\ Len(input) <= size * width
  /\ DOMAIN spans = 1..Len(input)
  /\ pc \in {"switch", "pass", "returned"}
  /\ pc # "pass" => /\ \A i \in 1..size : spans[i] = Block(width, i)
                    /\ pc = "returned" => size <= 1
  /\ pc = "pass" =>
       /\ size > 1 /\ rp \in 0..size /\ wp \in Nat
       /\ rp = MinOf(2 * wp, size) /\ 2 * wp <= size + 1
       /\ \A i \in 1..wp : spans[i] = Block(2 * width, i)
       /\ \A i \in (rp + 1)..size : spans[i] = Block(width, i)
==============================================================================
