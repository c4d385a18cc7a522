# Verification of go-square

TLA+ models of go-square, the library that lays transactions and blobs out in
Celestia's data square: what its parts promise, TLC runs that check the promises
on small instances, and TLAPS proofs of the central ones for every instance.

The library is sequential. Nothing in it is concurrent, persisted or sent over
a network, so what is hard is not interleaving but **long sequences of calls on
mutable objects** (append, export, append again), **estimates made before the
facts are known** (padding before sorting, varints before indexes), and
**boundaries** (a unit that ends exactly with a share, a square that is exactly
full).

## The system and its parts

| Part | State and operations | What is hard about it | What makes it correct |
|---|---|---|---|
| share format (`shares/consts.go`, `utils.go`, `share_sequence.go`) | none; sizes, varint lengths, shares needed for a length | exact fits | one count of shares, however computed |
| compact share counter (`shares/counter.go`) | shares, remainder and a saved copy; `Add`, `Revert`, `Size` | carry between share and remainder; one level of undo | counts bytes; `Revert` undoes the last `Add` |
| commitment rules (`inclusion/blob_share_commitment_rules.go`, `shares/powers_of_two.go`) | none; where a blob may start | two limits on the subtree width | commitment subtrees are row subtrees |
| share commitment (`inclusion/commitment.go`) | none; splits a blob into subtrees | slicing by computed sizes | sizes cover the blob |
| square builder (`square/builder.go`) | transactions, wrappers, blobs, two counters, size estimate, `done`; `AppendTx`, `AppendBlobTx`, `Export`, queries | rejected appends; estimates; in-place sort; stale indexes | the exported square fits and is what the indexes say |
| square (`square/square.go`) | `WriteSquare`, `Build`, `Construct`, `Deconstruct` | the first two must agree; round trip | everybody gets the proposer's square; `Deconstruct` inverts it |
| compact splitter and parser (`shares/split_compact_shares.go`, `share_builder.go`, `parse_compact_shares.go`) | finished shares, pending share, ranges; `WriteTx`, `Export` | exact fits, reserved bytes, writing after an export, parsing out of context | parsing returns what was written |
| sparse splitter and parser (`shares/split_sparse_shares.go`, `parse_sparse_shares.go`) | shares; `Write`, padding | trimming by a stored length | parsing returns the blobs |
| splitting and ranges (`shares/share_splitting.go`, `namespace.go`, `range.go`) | two compact splitters; `SplitTxs`, `GetShareRangeForNamespace` | offsets known only at the end | positions are exact |
| blobs and index wrappers (`blob/blob.go`) | encodings | size before the indexes are known | told from other transactions |
| namespaces (`namespace/`) | encodings and order | reserved limits, versions | order and round trip |
| merkle (`merkle/tree.go`, `proof.go`) | two tree hashes, proofs | odd numbers of leaves, in-place hashing, shape from index and total | the hashes agree; a proof verifies exactly for its leaf |
| proof operators (`merkle/proof_op.go`, `proof_value.go`, `proof_key_path.go`) | registered decoders; chained verification, key paths | keys consumed from the end, empty keys | what is accepted is stored |

The builder counts with the counter, places blobs with the commitment rules and
writes with the two splitters. Its counters have to predict, before any share
exists, what the splitters will produce. `Build` and `Construct` run a builder,
and `Deconstruct` reads its square with the parsers. Hazards are listed in
`PROJECT.json`, each at its line, with the properties that guard it.

## Modules

| Module | Models |
|---|---|
| `ShareFormat` | sizes of a share's parts as constants; `DelimLen`, `CompactSharesNeeded`, `SparseSharesNeeded` in closed form |
| `CountingLoops` | the loops behind these and `RoundUpPowerOfTwo`, turn by turn with integers of a width; `RawTxSize`, `AvailableBytesFrom...` |
| `CounterOps` | the counter's operations on counter values; `Add` in its three stages |
| `CompactShareCounter` | a counter under any calls of `Add` and `Revert` |
| `ByteCounter` | abstract specification: a byte total with one level of undo |
| `CommitmentRules` | powers of two, `SubTreeWidth`, `NextShareIndex`, `MerkleMountainRangeSizes` |
| `BlobLayout` | `BlobSharesUsedNonInteractiveDefaults` and the subtree sizes of a commitment |
| `Commitments` | `CreateCommitments`: blob, shares, subtrees, root |
| `SquareBuilder` | `square.Builder`, `WriteSquare`; composes counters, rules and splitters |
| `BuilderProperties` | the queries, and what the builder promises |
| `Proposal` | `Build` and `Construct`, one on the answer of the other; composes builders |
| `FirstFit` | abstract specification of which transactions they keep |
| `ShareOps` | a share's fields, the share builder, info byte and padding |
| `CompactShares`, `CompactSplitter` | compact splitter and parser on bytes; the splitter in use |
| `SparseShares`, `SparseSplitter` | sparse splitter, `ParseBlobs`, `ParseShares` on bytes; the splitter in use |
| `IndexWrappers`, `SplitTxs` | index wrappers as bytes; `SplitTxs` over two compact splitters |
| `RangeOps`, `ShareRanges` | `Range`, `GetShareRangeForNamespace`; a list of shares it is used on |
| `Deconstruct` | `Deconstruct` and `WrappedPFBs` on the builder's squares; composes the builder, both splitters and all parsers |
| `Namespaces` | package `namespace` |
| `MerkleOps`, `MerkleTree` | hashes and the recursive tree; the iterative one, turn by turn |
| `ProofOps`, `MerkleProofs` | making and verifying proofs; a proof that changes before it is verified |
| `ProofRuntime`, `KeyPath` | chained verification; key paths as strings |
| `MC*` | constants for TLC; `MCShares` and `MCMerkle` put components side by side |
| `Arithmetic` and the modules ending in `Proofs` (not `MerkleProofs`) | proofs |

### How state and actions correspond to the code

*Counter.* The record has the struct's four fields. `AddUnit` and `RevertLast`
are the two methods; `diff` is what `Add` returned.

*Square builder.* The variables carry the names of the struct's fields. A
transaction is its length, a blob its namespace (a number, in the order of the
real ones), its length and its share version, a share its namespace and which
part of which blob it holds. Indexes count from 1 where Go's count from 0. `AppendTx` is one action.
`AppendBlobTx` and `Export` contain loops and are a chain of actions, one per
turn, with `pc` saying where the running call is:

    AppendBlobTx:  AppendBlobTx -> AddElement* -> FinishBlobTx
    Export:        ExportEmpty, or
                   StartExport -> SortStep* -> Sorted -> WriteTx* -> TxsWritten
                     -> PlaceBlob* -> BlobsPlaced -> WritePfb* -> FinishExport

A call begins only when `pc = "ready"`, since a builder is not shared between
goroutines. `app` and `exp` are the locals of the running call. Every early
return of `Export` is kept: `PlaceBlob` and `FinishExport` record the reason in
`err`, leave `done` alone, and leave behind what the code leaves behind (sorted
blobs, share indexes already overwritten). `sort.SliceStable` is external: it
exchanges neighbours that are strictly out of order until there are none, which
leaves exactly its result. The compact splitters appear as the bytes written to
them; that their `Count` is `CompactSharesNeeded` of those bytes is the property
`CountsAgree` of `CompactSplitter`. `proto.Size` of an index wrapper is computed
field by field, with the real varint lengths. A failure to marshal a protobuf
message is not modelled. `AppendBlobTx` does not look into blobs, so that some
cannot be written: `SparseShareSplitter.Write` refuses a blob without data or of
an unsupported share version, and `WriteNamespacePaddingShares` fails behind a
blob whose namespace `namespace.From` does not read. Share indexes and blob
lengths are cut to a `uint32` (`UintSize`) where the code does so.

*Build and Construct.* `Proposal` takes the steps of `SquareBuilder` for its own
builder and adds the loop over the list, with `status` saying where the call is.
`UnmarshalBlobTx` is external: whether a transaction is a blob transaction is
part of it. `Proposal` first calls either function on any list, and then the
other on the list the first answered with. `FirstFit` has none of the counters:
a transaction is kept if all that is kept fits, counted afresh.

*Splitters and parsers.* A share is its header fields and its content bytes.
`WriteTx`, `Write` and `WriteNamespacePaddingShares` are one action each, the
loop over shares, the stacking of a full share and the recording of a range
included. Parsers are operators that return an error and a value, and the
properties apply them to the shares at hand. The header fields stay fields; the
bytes of lengths are counted, not spelled out. A namespace is a number in the
order of the real ones, one of which `namespace.From` refuses. The parser of
blobs cuts its data to a length it trusts, `Data[:sequenceLen]`, which Go allows
up to the capacity of the slice: how much capacity `append` left is a parameter,
`spare`, and the properties hold for all its values.

*Deconstruct.* The layout `Export` left is written out through the splitters, so
that the parsers work on bytes. The bytes of a transaction or blob tell it from
all others, and blobs end in a zero byte.

*Counting loops.* `bytesAvailable` wraps where the code's `int` does, to negative
numbers, and is compared modulo `UintSize` where the code converts to `uint32`.

*Merkle.* A digest is the string it was made of, so equal digests mean equal
strings. Each turn of the iterative hash is a step; `spans`, `joins` and `width`
are not in the code and record which leaves an item stands for. `MerkleProofs`
makes a proof, changes fields of it, and applies `Verify`. In `ProofRuntime`
each turn of the decoding and of the running loop is a step; `usedBy`, which
operators took a key, is not in the code. The other operator type there is
external, and may return no values; an operator may be nil. Paths and names of `KeyPath` are real bytes, with the
escaping of `url.PathEscape` as the code relies on it.

## Runs

Seven runs are expected to pass. Those of the counter, the builder, the compact
splitter and the square have a module each:

| Run | Checks | Bounds |
|---|---|---|
| `counter` | the counter implements `ByteCounter`, stays normalised, and agrees with `CompactSharesNeeded` | real share layout; ten unit lengths on both sides of the delimiter's and the shares' boundaries; adding stops above 4 shares (`MaxShares`), which takes it through the first share, a continuation share and several at once from many remainders |
| `builder` | no defensive error, the square fits, the accounting is exact, indexes say where the blobs are and are aligned, namespaces and priorities are in order, exporting again changes nothing, an export fails only because of a blob that cannot be written or padded, and never returns a square with one that cannot be written | real layout, 4 x 4, threshold 1, at most 3 accepted transactions (`MaxTxs`) of 2 lengths and 6 blob transactions: full squares, rejected appends, blobs out of order, three subtree widths, an empty blob, one of an unsupported version, two of an unreadable namespace, appends after an export and after a failed one |
| `builder_wide` | the errors and the namespaces where indexes have one- or two-byte varints | real layout, 16 x 16, threshold 64, `MaxTxs` 4; a wrapper that fills one byte of a second share with the largest indexes and not with the real ones, so that reserved padding appears; a blob of 127 shares behind which the real indexes are as long as the largest |
| `splitter` | three share counts agree; ranges and sequence length are exact; parsing returns the units, also from any share on in which a unit begins | a share of ten bytes (four of content in the first, six in the others), varints of base four, up to 5 units (`MaxUnits`) of 5 lengths that fill less than, exactly, and more than a share, and more than three |
| `square` | `Build` and `Construct` return the same square from each other's lists, and implement `FirstFit`; the queries (ranges of transactions included) say what the square holds; `Deconstruct` inverts it, and wrappers and sequences in it are what was written | 4 x 4, shares of 16 bytes, varints of base 16 so that wrappers shrink once the indexes are known; all lists of up to 4 transactions (`MaxTxs`) of 6 kinds: lists that do not fit, regular ones behind blob transactions, blobs of one share, two and five, an empty blob |

The other two, `shares` and `merkle`, are for components that have no state in
common. A behaviour of `MCShares` or `MCMerkle` is one of a single component,
named by `part`; the others rest in an initial state. So every component is
checked as if it were alone.

| Run, part | Checks | Bounds |
|---|---|---|
| `shares`, layout | commitment subtrees are row subtrees in every square that holds the blob; sizes cover the blob; the builder's allowance suffices; the square size is minimal | two blobs (`MaxBlobs`) of 0..20, 32, 33 or 40 shares from four cursors, five thresholds: each limit on the width applies to some |
| `shares`, sparse | parsing returns the blobs, each where it was counted to be; sequences are blobs; what both parsers make of every run of shares that cuts a blob or cannot be read | a share of 16 bytes; up to 4 calls (`MaxCalls`) with blobs on both sides of each boundary, of unsupported versions, 256 included, and of an unreadable namespace; padding counts -1, 0, 2; a capacity of 0, 1 or 14 bytes to spare (`Spares`), where cut blobs miss 1, 14 or 15 |
| `shares`, commitments | different blobs have different commitments | calls with up to two blobs (`MaxCommitted`) of up to eight shares, most of which differ in zeros at their end; threshold 2 |
| `shares`, loops | for which inputs the loops end, and that they return the closed forms, the least number of shares, wherever no sum wraps; `RawTxSize` never overshoots and misses by at most a byte | a `uint32` of 8 bits (`UintSize`) and an `int` of 16, every length, and the numbers around the largest power of two; sparse shares hold an even number of bytes, as in the code |
| `shares`, ranges | the range of a namespace is exactly its shares | sorted lists of up to 7 shares (`MaxShares`) of 5 namespaces, one unreadable |
| `shares`, txs | `SplitTxs` loses no transaction; the merged map has the shares of each | up to 5 transactions (`MaxTxs`): two wrappers, one that fills a share, and two that look like wrappers at their start |
| `merkle`, tree | iterative and recursive hash agree; nothing is overwritten before it is read | every number of leaves up to 33, past the fifth power of two |
| `merkle`, proofs | proofs are accepted; what is accepted is in the list, with one aunt for every level | lists of up to 5 items (`MaxItems`), with trails of different lengths; up to 3 changes (`MaxChanges`), enough to shorten a trail and adjust total and leaf to it; aunts that are shorter or longer than a digest or have another in front |
| `merkle`, runtime | keys match operators in order; what is accepted is stored and the reverse; absence is never accepted | all chains of up to two of nine operators, five of them of two nested trees, one nil and one that returns nothing, paths of up to two of three keys, the empty one included |
| `merkle`, path | which paths come back from their string | up to two keys (`MaxKeys`): all of up to two of the bytes `x : / % 4`, and some of three |
| `merkle`, namespaces | sub IDs keep their order; blob namespaces lie between the reserved ones; bytes come back | IDs of three bytes, one of them zero in version 0; bytes 0, 1, 254, 255; two namespaces at a time (`MaxMade`) |

All lengths of the layout are constants of `ShareFormat`; models that hold every
byte give them small values. Deadlock is checked where the system is meant to go
on; a call that returned, or a list that has reached its bound, ends the other
runs.

Fairness: `shares` assumes weak fairness of the steps that continue a counting
loop. Nothing in a call blocks or waits, so a call that was entered runs on; new
calls need not come. Under it `LoopsEnd` says which calls return. No other
property needs fairness.

### Where the code and its comments disagree

Five runs are expected to find a violation. Each checks one statement of a
comment.

- `builder_inclusive`: `FindTxShareRange` says both indexes are inclusive; the
  end is exclusive (as `TxShareRange` and `Range` say).
- `builder_errors`: `Build` says errors should not occur; `AppendBlobTx` accepts
  a blob without data, and `Export` fails on it. A blob of an unsupported share
  version fails in the same way, and so does padding behind a blob whose namespace
  cannot be read. These are the errors left, and all of them are the blobs' fault:
  see `BlobsAtFault` and the theorem `ExportMeetsItsChecks`.
- `splitter_reopen`: after an `Export` that padded the last share, `write` means
  to take that share back, but the test it makes is never true. The padding
  stays in the sequence and in its length. No caller in the repository does this.
- `splitter_context`: a share with reserved bytes of 0 is taken to be the last of
  its sequence. When a unit spans three shares or more, parsing from its second
  share on reads the inside of the unit as units. `SubrangeParse`, which holds,
  is what remains true: parsing may start at a share in which a unit begins.
- `splitter_empty`: a transaction of length zero is written, and ends parsing.

Two statements of the package comment of `merkle` are out of date, and passing
properties show it:

- The comment says that the implementation by itself does not prevent second
  pre-image attacks (`src/merkle/doc.go:10`, and the TODO in line 28). Leaves and
  inner nodes are hashed with different prefixes (`src/merkle/hash.go`), and
  `AcceptedIsIncluded` says that the content of an inner node is never accepted as
  a leaf. That is under the assumption on digests made above, in trees of up to
  five items. Without the prefix it fails: hashing a leaf as an inner node is
  the change that property is tried against.
- The comment says that both sides of the tree are of the same size or the left
  one greater by one (`src/merkle/doc.go:4`). `getSplitPoint` gives the left side
  the largest power of two below the number of leaves: of five leaves it has
  four. `JoinsAreSplits` says that both algorithms split there, and halving
  instead is the change it is tried against.

`Blob.Validate` refuses a share version above 255 and says in its error that it is
above `MaxShareVersion`, which is 127 (`src/blob/blob.go:52`). Nothing comes of it,
since `Write` accepts version 0 only.

Some properties say where the code does not do what one would expect of it:

- `PathsRoundTrip`: keys in URL encoding that start with `x:` never come back,
  since `KeyPathToKeys` reads them as hex (`src/merkle/proof_key_path.go:94`),
  although all encodings are said to work compatibly (line 39).
- `CountsExact` and `LoopsEnd`: for lengths less than a share below the largest
  `uint32` the sum that `SparseSharesNeeded` compares
  (`src/shares/share_sequence.go:136`) can wrap. It then returns too many shares,
  and for the largest `uint32` it never returns, as all its sums are even.
  `RoundUpPowerOfTwo` does not return for inputs above the largest power of two
  of the type (`src/shares/powers_of_two.go:12`). No blob or square comes near
  these numbers.
- `CutRuns`: `ParseShares` refuses shares that end inside a blob. `ParseBlobs`
  does not notice: it panics or, if the slice has the capacity, returns the blob
  with zeros in place of the bytes that are missing
  (`src/shares/parse_sparse_shares.go:78`). `Deconstruct` takes as many shares as
  the PFB declares, and `DeconstructInverts` shows that these are all.
- `CountsExact` allows a transaction of `RawTxSize` bytes to be one byte short of
  the size asked for, as it is where the delimiter grows
  (`src/shares/utils.go:21`).

## Proofs

The theorems about the counter and the builder hold for every share layout that
leaves room for a byte of content, every positive threshold, every set of
transaction lengths (`ShareFormatAssumption`, `CounterAssumption`,
`BuilderAssumption`), and

- every power of two as `maxSquareSize` whose square is less than `UintSize`, that
  is up to 2^15 with the code's `uint32`. `NewBuilder` does not ask for this. From
  2^16 on the largest share index is cut to 0 (`src/square/builder.go:417`), and
  wrappers are counted shorter than they are written;
- blobs of every share version and every namespace but the two of compact shares,
  unreadable ones included, and of every length for which `SparseSharesNeeded`
  does not wrap (`LargestSparseLen`) and which takes at most 2^24 shares, more
  than a blob whose length is a `uint32` can have.

| Theorem | States |
|---|---|
| `TypeCorrect`, `NormalisedAlways`, `SizeAlwaysSharesNeeded` | the counter's invariants |
| `CounterRefinement` | `CompactShareCounter` implements `ByteCounter` |
| `BuilderTypeCorrect` | the builder's type invariant |
| `ExportMeetsItsChecks` | no defensive error of `Export` or `WriteSquare` occurs, whatever blobs are appended; what errors remain are those of `Write` and of padding |
| `SquareWithinMaximum` | an exported square fits its maximum and all that was accepted |
| `RangeIsExact`, `RangesAlwaysExact` | `GetShareRangeForNamespace` returns exactly the shares of a namespace, for every sorted list |
| `LevelsAlwaysIntact`, `JoinsAlwaysSplits` | in-place hashing overwrites nothing it still needs, and joins leaves exactly where the recursive algorithm splits them |
| `KeysAlwaysMatch` | an accepted chained proof used every key of its path, once and in order |

*Counter.* The inductive invariant is the type invariant with `AlwaysNormalised`:
it has to speak of the saved copy too, since a `Revert` makes that the counter.
Each stage of `Add` keeps the bytes counted plus the bytes still to place
(`FillFirstShareCorrect`, `FillContinuationShareCorrect`,
`DivideTheRestCorrect`), which gives the refinement; the share count as a
function of bytes needs the division lemmas of `Arithmetic`.

*Builder.* `NoDefensiveError` is not inductive: why the checks succeed lies in
how `currentSize` was made up. The inductive invariant `IInv` of
`SquareBuilderProofs` says, phase by phase, that

1. `TxCounter` and `PfbCounter` are normalised and count the bytes of `Txs` and
   of the wrappers with the largest indexes, and `currentSize` is their shares
   plus the sum of what each blob can take at most, and at most
   `maxSquareSize` squared;
2. every element has `SubTreeWidth - 1` as its padding allowance, and every index
   in a wrapper is at most `maxSquareSize` squared;
3. while a call appends, the counter holds one `Add` more than `currentSize`, and
   its saved copy is the one to restore;
4. while `Export` writes transactions or wrappers, the bytes written are those of
   the first `k`, for wrappers at most what was counted;
5. while `Export` places blobs, the cursor is at most the reserved shares plus
   what the first `k` blobs can take.

Sums over sequences are described without induction, by sequences of partial
sums that an append extends and that exchanging neighbours changes in one place:
that is how sorting keeps 5 true. The last blob then ends within `currentSize`,
and `currentSize` within the square that `BlobMinSquareSize` chooses; padding
stays within its allowance because rounding up to a multiple moves a cursor by
less than the multiple (`CommitmentRulesProofs`). Wrappers with real indexes are
no longer than with the largest, since a smaller number has no longer varint.

*Ranges.* `GetShareRangeForNamespace` relies on order, so the invariant is that
the list is sorted (`Ordered`); the theorem about a single call then describes
the shares found by their least and greatest index. It holds for any set of
namespaces.

*Iterative tree.* `JoinsAreSplits` speaks of what was joined; why it is right lies
in the items not yet joined. `LevelsIntact` says that in a pass the items already
written are those of the next level and those still to be read are those of this
one, each a block of `width` leaves of which the last may be shorter. A pair is
then joined at a multiple of a power of two, and that is the largest one below
the number of leaves of the pair. It holds for lists of up to `MaxTreeSize`
items, a bound on lengths that lets powers of two be a set instead of a
recursion.

*Chained proofs.* `Matching` adds to `KeysMatchOperators` the shapes of the state,
that no operator runs before all are decoded, and that the last operator that
took a key has run. It holds for all operators, keys and values, with the
results of operators unconstrained.

Only model-checked: liveness; everything on bytes (`CompactShares`,
`SparseShares`, `Deconstruct`, `SplitTxs`), whose parsers read an unbounded list
and would need induction over it; that the two Merkle roots are equal and what
`Verify` accepts, for the same reason; `FirstFit` and the other properties of
`Proposal`; and the properties of `BuilderProperties` and `BlobLayout`.

## Not modelled

- Generated protobuf code, and the wire form of blob transactions:
  `UnmarshalBlobTx` is a flag. Failures of `proto.Marshal` do not occur in it.
- SHA-256, and the roots of the external `nmt`: both are terms.
- The aliasing an `append` to a slice of somebody else's buffer can cause. Spare
  capacity holds zeros here, as in a slice that `append` has grown.
- Blobs in the two namespaces of compact shares, which `UnmarshalBlobTx` does not
  refuse.
- A threshold of zero, where `SubTreeWidth` divides by zero, is outside the
  assumptions.
- `FlipSequenceStart`, `Equals`, the `Must` variants and getters without state;
  random data for tests.
