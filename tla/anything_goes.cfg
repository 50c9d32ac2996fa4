SPECIFICATION Spec
CONSTANTS
  b1 = b1
  s1 = s1
  Limits = {b1, s1}
  SellLimits = {s1}
  MaxCampaigns = 1
  PlanModes = {"LONG_GRID", "SHORT_GRID", "NEUTRAL_GRID"}
  Adversary <- MostAdversary
INVARIANT TypeOK
INVARIANT GateClosedWhenHalted
INVARIANT ActiveHasExits
INVARIANT NoneLeftOpening
INVARIANT StarterKeepsStop
PROPERTY EntryOnlyReconciled
PROPERTY GateOpensProtected
PROPERTY ImplementsLifecycle
PROPERTY ClosesFlat
CHECK_DEADLOCK FALSE
