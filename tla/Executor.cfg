SPECIFICATION FairSpec
CONSTANTS
  Plugin <- MCPlugin
  Order <- MCOrder
  Cat <- MCCat
  PluginInterval <- MCPluginInterval
  Feeds <- MCFeeds
  Interval = 2
  NewIntervals = {1}
  NewPlugins <- MCNewPlugins
  Categories = 2
  MaxStart = 7
  MaxNow = 10
  MaxBatches = 1
  BatchTimes = {3, 5}
  StopTimes = {3, 5}
INVARIANTS TypeOK NothingMissed  CalmStopIsClean
PROPERTY StopEnds
CHECK_DEADLOCK FALSE
