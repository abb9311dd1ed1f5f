SPECIFICATION Spec
CONSTANTS
  Hash <- MCHash
  Category <- MCCategory
  Kind <- MCKind
  Cat <- MCCat
  Name <- MCName
  Loads <- MCLoads
  Rank <- MCRank
  Preinstalled = {"a1", "b1"}
  FirstConfig = "j0"
  Histories <- AnyHistories
  MaxCrashes = 1
  None = None
INVARIANTS TypeOK OneToken LockExclusive WholeBatch OnePerName 
CHECK_DEADLOCK FALSE
