SPECIFICATION Spec
CONSTANTS
  VbeGrid <- VbePoints
  PdGrid <- PdPoints
  TrustGrid <- TrustPoints
INVARIANTS
  ZeroOnlyOutside
  LessTrustLess
PROPERTIES
  SetPointFollowsBus
CHECK_DEADLOCK FALSE
