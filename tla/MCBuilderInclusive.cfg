CONSTANTS
  ShareSize = 512
  NamespaceSize = 29
  ShareInfoBytes = 1
  SequenceLenBytes = 4
  CompactShareReservedBytes = 4
  VarintBase = 128
  UintSize = 1073741824
  maxSquareSize = 4
  subtreeRootThreshold = 1
  TxLens <- SmallTxLens
  BlobTxs <- SmallBlobTxs
  MaxTxs = 3
SPECIFICATION Spec
INVARIANT TxRangesInclusive
