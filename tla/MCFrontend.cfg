CONSTANTS
  Configs <- MCConfigs
  Nodes = {"lo", "lio"}
  MaxScans = 7
SPECIFICATION Spec
INVARIANTS
  FrontendTypeOK
  ConsecutiveSubmapsOverlap
  PromotionIsPrepared
  CommittedTogether
  OwnersAreOldest
  FinishedSubmapsDelivered
  MotionSpansNoRejection
