SPECIFICATION Spec
CONSTANTS
  b1 = b1
  s1 = s1
  Limits = {b1, s1}
  SellLimits = {s1}
  MaxCampaigns = 1
  PlanModes = {"NEUTRAL_GRID"}
  Adversary = {"drop"}
PROPERTY RecoveryAcceptsProtected
CHECK_DEADLOCK FALSE
