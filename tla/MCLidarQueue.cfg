SPECIFICATION FairSpec
CONSTANTS
  Nodes = {"lio", "lo"}
  Scans <- MCScans
  Stamps = {1, 2, 3}
  MaxQueue = 2
  InitSamples = 1
  History = 1
  MaxFrames = 3
INVARIANTS
  LidarTypeOK
  OwnedFrameIsFront
  WaitingAreNewest
  FramesAreAccounted
  HistoryReachesFilter
PROPERTIES
  HandledInOrder
  FrontIsHandled
  TimedWaitEnds
