CONSTANTS
  RefinementModes = {"off"}
  LoopStride = 1
  MaxKeyframes = 3
  MaxSessions = 1
  Uses <- MCLioUses
SPECIFICATION OutputSpec
INVARIANT
  SingleWriterKeepsLayerCurrent
