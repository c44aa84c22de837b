CONSTANTS
  RefinementModes = {"async"}
  LoopStride = 1
  MaxKeyframes = 3
  MaxSessions = 1
  Uses <- MCUses
SPECIFICATION OutputSpec
INVARIANTS
  ReadersSeeOneGraph
