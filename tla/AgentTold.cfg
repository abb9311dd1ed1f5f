SPECIFICATION FairSpec
CONSTANTS
  Hash = {a, b}
  Lists <- AllLists
  Installed = {a}
  MaxPublish = 1
  MaxFailures = 0
  Attempts = 1
PROPERTIES Told
CHECK_DEADLOCK FALSE
