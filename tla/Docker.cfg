SPECIFICATION FairSpec
CONSTANTS
  Container = {c}
  Method = {"polling", "events"}
  Attempts = 2
  Capacity = 1
  MaxEvents = 5
  MaxFailures = 1
  MaxEnds = 1
INVARIANTS TypeOK Agrees
PROPERTIES Appears StopEnds
CHECK_DEADLOCK FALSE
