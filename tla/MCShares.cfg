CONSTANTS
  ShareSize = 16
  NamespaceSize = 1
  ShareInfoBytes = 1
  SequenceLenBytes = 2
  CompactShareReservedBytes = 2
  VarintBase = 16
  BlobShareLens <- SmallBlobs
  Thresholds <- SmallThresholds
  Starts <- SmallStarts
  MaxBlobs = 2
  BlobsOffered <- BoundaryBlobs
  Counts <- PaddingCounts
  Spares <- SomeSpares
  MaxCalls = 4
  Blobs <- CommittedBlobs
  MaxCommitted = 2
  Threshold = 2
  UintSize = 256
  Inputs <- LoopInputs
  Namespaces <- SomeNamespaces
  MaxShares = 7
  TxsOffered <- SomeTxs
  MaxTxs = 5
SPECIFICATION Spec
CHECK_DEADLOCK FALSE
INVARIANTS
  SubtreesAreRowSubtrees LayoutFits
  BlobsWhereCounted CutRuns
  CommitmentsBind CountsExact RangesExact SplitExact
PROPERTY LoopsEnd
