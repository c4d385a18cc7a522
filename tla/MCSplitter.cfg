SPECIFICATION Spec
CONSTANTS
  ShareSize = 10
  NamespaceSize = 1
  ShareInfoBytes = 1
  SequenceLenBytes = 2
  CompactShareReservedBytes = 2
  VarintBase = 4
  UintSize = 1073741824
  Units <- BoundaryUnits
  MaxUnits = 5
  Reopen = FALSE
INVARIANTS CountsAgree SequenceLenIsTotal RangesExact SubrangeParse
