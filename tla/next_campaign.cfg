SPECIFICATION Spec
CONSTANTS
  b1 = b1
  s1 = s1
  Limits = {b1}
  SellLimits = {}
  MaxCampaigns = 2
  PlanModes = {"LONG_GRID"}
  Adversary = {"rejected","drop","crash","stop","alarm"}
INVARIANT FailedOpenHasNoExposure
PROPERTY StartsClean
PROPERTY RecoveryAcceptsProtected
CHECK_DEADLOCK FALSE
