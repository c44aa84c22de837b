CONSTANTS
  BlockSize = 2
  Threshold = 1
  Steps = {1}
  Moves <- MCMoves
  Corrections = {3, 1}
  MaxKeyframes = 3
  MaxOptimised = 3
SPECIFICATION Spec
INVARIANTS
  MapTypeOK
  MapFollowsGraph
  RefinedShowsOverrides
