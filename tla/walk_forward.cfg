SPECIFICATION FairSpec
CONSTANTS
  Bars = 7
  Candidates = 2
  Configs <- SmallConfigs
INVARIANT NextBarEntry
INVARIANT SelectionBlind
INVARIANT OosInTestWindow
INVARIANT OosCountedOnce
PROPERTY WalkEnds
CHECK_DEADLOCK FALSE
