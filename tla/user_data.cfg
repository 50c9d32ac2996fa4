SPECIFICATION Spec
CONSTANTS
  Quantity = 2
  Channels = {"ordered", "lossy", "shuffled"}
  MaxTime = 3
  MaxEvents = 8
  MaxShuffled = 7
INVARIANT RowsNewest
INVARIANT PositionNewest
INVARIANT NoFalseHalt
CHECK_DEADLOCK FALSE
