CONSTANTS
  ShareSize = 16
  NamespaceSize = 1
  ShareInfoBytes = 1
  SequenceLenBytes = 2
  CompactShareReservedBytes = 2
  VarintBase = 16
  UintSize = 1073741824
  maxSquareSize = 4
  subtreeRootThreshold = 1
  TxLens <- SomeTxLens
  BlobTxs <- SomeBlobTxs
  Spares <- SomeSpares
  MaxTxs = 4
SPECIFICATION Proposals
CHECK_DEADLOCK FALSE
INVARIANTS
  BuildAgreesWithConstruct QueriesMatchSquare DeconstructInverts SequencesInSquare
PROPERTY ImplementsFirstFit
