CONSTANTS
  CurrentGap = 2
  HistoricalGap = 1
  MinProposals = 3
  MaxError = 1
  MaxHistory = 3
  Historical <- MCHistorical
  Offsets <- MCOffsets
  MaxKeyframes = 6
SPECIFICATION Spec
INVARIANTS
  AcceptedRestsOnThree
  SteadyLoopIsAccepted
