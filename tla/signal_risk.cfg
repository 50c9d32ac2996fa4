SPECIFICATION Spec
CONSTANTS
  sA = sA
  sB = sB
  long = long
  range = range
  Symbols = {sA, sB}
  Setups = {long, range}
  NeutralSetups = {range}
  Scaled = {2}
  Deployments <- SmallDeployments
  MaxTotal = 2
  MaxTrade = 2
  MinInterval = 1
  MaxAge = 1
  Debounce = 2
  Skew = 0
  MaxLag = 0
  MaxTime = 3
  MaxWaiting = 2
  MaxPlans = 2
INVARIANT OneTaskPerSymbol
INVARIANT PositionsCapped
PROPERTY NotionalCapped
INVARIANT CampaignIdsDiffer
SYMMETRY SymbolPermutations
CHECK_DEADLOCK FALSE
