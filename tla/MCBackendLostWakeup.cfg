CONSTANTS
  RefinementModes = {"async"}
  LoopStride = 1
  MaxKeyframes = 2
  MaxSessions = 1
SPECIFICATION FairSpec
PROPERTY
  ReadyIsTaken
