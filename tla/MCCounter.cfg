SPECIFICATION Spec
CONSTANTS
  ShareSize = 512
  NamespaceSize = 29
  ShareInfoBytes = 1
  SequenceLenBytes = 4
  CompactShareReservedBytes = 4
  VarintBase = 128
  UintSize = 1073741824
  DataLens <- BoundaryLens
  MaxShares = 4
INVARIANTS AlwaysNormalised SizeIsSharesNeeded
PROPERTY ImplementsByteCounter
