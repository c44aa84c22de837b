CONSTANTS
  RefinementModes = {"off", "sync", "async"}
  LoopStride = 0
  MaxKeyframes = 3
  MaxSessions = 2
SPECIFICATION FairSpec
INVARIANTS
  TypeOK
  KeyframesInOrder
  RefinedLayerIsCurrent
  ResultsMatchHistory
  RevisionsAgree
  StopLeavesNothingBehind
PROPERTIES
  ImplementsRefinedLayer
  StopTerminates
  QueueDrains
  ReadyTakenWithNextKeyframe
