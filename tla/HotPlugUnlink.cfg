SPECIFICATION Spec
CONSTANTS
  Hash <- MCHash
  Category <- MCCategory
  Kind <- MCKind
  Cat <- MCCat
  Name <- MCName
  Loads <- MCLoads
  Rank <- MCRank
  Preinstalled = {"a1", "b1"}
  FirstConfig = "j0"
  Histories <- ForwardHistories
  MaxCrashes = 0
  None = None
PROPERTIES UnlinksOnlyListed
