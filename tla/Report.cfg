SPECIFICATION FairSpec
CONSTANTS
  Reports = 3
  ChanCap = 1
  MaxTime = 3
  Expiration = 1
  MaxFailures = 2
  MaxEnds = 1
  Nothing = Nothing
INVARIANTS TypeOK   OnePlace
PROPERTIES   StopEnds
CHECK_DEADLOCK FALSE
