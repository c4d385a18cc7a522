CONSTANTS
  Inputs <- UpToMaxLeaves
  MaxLeaves = 33
  MaxItems = 5
  MaxChanges = 3
  Types <- SomeTypes
  Ops <- SomeOps
  Proofs <- SomeProofs
  Keys <- SomeKeys
  Paths <- SomePaths
  Roots <- SomeRoots
  Arguments <- SomeArguments
  Names <- SomeNames
  MaxKeys = 2
  NamespaceIDSize = 3
  NamespaceVersionZeroPrefixSize = 1
  Bytewise <- SomeBytes
  MaxMade = 2
SPECIFICATION Spec
CHECK_DEADLOCK FALSE
INVARIANTS
  RootsAgree JoinsAreSplits LevelsIntact
  ProofsAreAccepted AcceptedIsIncluded
  KeysMatchOperators AcceptedIffStored
  PathsRoundTrip NamespaceOrderKept
