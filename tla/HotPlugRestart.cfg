SPECIFICATION FairSpec
CONSTANTS
  Hash <- MCHash
  Category <- MCCategory
  Kind <- MCKind
  Cat <- MCCat
  Name <- MCName
  Loads <- MCLoads
  Rank <- MCRank
  Preinstalled = {"a1", "b1"}
  FirstConfig = "j0"
  Histories <- AnyHistories
  MaxCrashes = 1
  None = None
PROPERTIES Recovers
CHECK_DEADLOCK FALSE
