CONSTANTS
  RefinementModes = {"off"}
  LoopStride = 1
  MaxKeyframes = 2
  MaxSessions = 1
  Uses <- MCQuietUse
SPECIFICATION OutputSpec
PROPERTY
  SaveExportsForcedLayer
