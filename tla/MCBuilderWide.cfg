CONSTANTS
  ShareSize = 512
  NamespaceSize = 29
  ShareInfoBytes = 1
  SequenceLenBytes = 4
  CompactShareReservedBytes = 4
  VarintBase = 128
  UintSize = 1073741824
  maxSquareSize = 16
  subtreeRootThreshold = 64
  TxLens <- WideTxLens
  BlobTxs <- WideBlobTxs
  MaxTxs = 4
SPECIFICATION Spec
INVARIANTS
  NoDefensiveError NamespacesOrdered
