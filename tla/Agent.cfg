SPECIFICATION FairSpec
CONSTANTS
  Hash = {a, b}
  Lists <- AllLists
  Installed = {a}
  MaxPublish = 2
  MaxFailures = 1
  Attempts = 2
INVARIANTS TypeOK Noticed MissesExplained WithinLists 
PROPERTIES Learns
CHECK_DEADLOCK FALSE
