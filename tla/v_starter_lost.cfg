SPECIFICATION Spec
CONSTANTS
  b1 = b1
  s1 = s1
  Limits = {b1}
  SellLimits = {}
  MaxCampaigns = 1
  PlanModes = {"LONG_GRID"}
  Adversary = {"lost"}
INVARIANT FailedOpenHasNoExposure
CHECK_DEADLOCK FALSE
