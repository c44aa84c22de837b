CONSTANTS
  Pose <- Permutations3
  Mul <- Compose
  Inv <- Inverse3
  Id <- Identity3
  SmallError <- MCSmallError
  SmallUpdate <- MCSmallUpdate
  Motions <- MCMotions
  CurrentSpacing = 2
  HistoricalSpacing = 2
  MinSeparation = 1
  MaxKeyframes = 4
SPECIFICATION Spec
INVARIANTS
  BridgeMatchesGraph
  LoopEdgesAreAccepted
  ReferenceIsImmutable
  LoopEdgesSpaced
PROPERTY
  ImplementsAtomicLoops
