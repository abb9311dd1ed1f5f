SPECIFICATION FairSpec
CONSTANTS
  Item = {m, n}
  Indicator = {cpu}
  MaxWrites = 2
  MaxTime = 3
  Late = 1
  CacheExpiration = 1
  DbExpiration = 1
  MaxFailures = 1
  MaxEnds = 1
  None = None
INVARIANTS TypeOK FieldsAgree 
PROPERTIES FirstStays  ExpiredGoes
CHECK_DEADLOCK FALSE
