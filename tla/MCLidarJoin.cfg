SPECIFICATION FairSpec
CONSTANTS
  Nodes = {"lio"}
  Scans <- ShortScans
  Stamps = {1, 2}
  MaxQueue = 2
  InitSamples = 1
  History = 1
  MaxFrames = 1
PROPERTIES
  DestructorJoins
