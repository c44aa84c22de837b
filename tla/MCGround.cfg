CONSTANTS
  Bootstrap = 2
  Spread = 8
  Required = 5
  Consistency = 12
  Trigger = 18
  SlopeDelta = 12
  HardTrigger = 42
  GravityTilt = 18
  Tilts <- MCTilts
  Gravities <- MCGravities
  MaxPieces = 2
  MaxSubmaps = 2
SPECIFICATION Spec
INVARIANTS
  GroundTypeOK
  PendingIsFresh
  SteadySlopeIsAdopted
PROPERTY
  PiecesDiffer
