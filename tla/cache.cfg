SPECIFICATION FairSpec
CONSTANTS
  Threads = {t1, t2}
  Paths = {"t0"}
  DataSize <- SizeOf
  FetchChoices = {TRUE, FALSE}
  SizeLimit <- SizeLimits
  ItemLimit <- ItemLimits
  DefaultItemHi = 4
  Relocks = {"throws", "proceeds"}
  SizeMax = 15
  MaxObjects = 4
INVARIANTS
  TypeOK
  BytesExact
PROPERTIES
  OldestFirst
  EvictsOnlyExcess
  CallsEnd
CHECK_DEADLOCK FALSE
