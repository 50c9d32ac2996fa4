SPECIFICATION Spec
CONSTANTS
  Prices = {1, 2, 3, 4, 5}
  LadderLevels = 2
  NeutralLevels = 1
  Spacing = 2
  TargetDistance = 3
  StopDistance = 3
  Ttl = 1
  MaxTime = 3
  MaxQueue = 2
  MaxCampaigns = 2
INVARIANT PaperTypeOK
INVARIANT FillsInsideStop
INVARIANT ResultMatchesReason
INVARIANT BudgetKept
INVARIANT OpensAfterClose
INVARIANT StatsBalance
PROPERTY ExitsPrompt
