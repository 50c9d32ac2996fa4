SPECIFICATION FairSpec
CONSTANTS
  b1 = b1
  s1 = s1
  Limits = {b1, s1}
  SellLimits = {s1}
  MaxCampaigns = 1
  PlanModes = {"LONG_GRID", "NEUTRAL_GRID"}
  Adversary = {"expire"}
INVARIANT DegradedHalts
PROPERTY FlatCampaignCloses
PROPERTY OppositeEntriesGo
PROPERTY PositionGetsExits
PROPERTY FlipHalts
CHECK_DEADLOCK FALSE
