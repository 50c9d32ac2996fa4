SPECIFICATION FairSpec
CONSTANTS
  Symbols = {"BTC", "DOGE"}
  Universe = {"BTC"}
  ByHand = {"DOGE"}
  MaxPolls = 2
  MaxFaults = 1
INVARIANT CleanWhenDone
PROPERTY ExitsUntilFlat
PROPERTY HandsOff
PROPERTY EndsClean
CHECK_DEADLOCK FALSE
