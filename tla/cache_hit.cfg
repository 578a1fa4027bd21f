SPECIFICATION Spec
CONSTANTS
  Threads = {t1}
  Paths = {"t0", "survey"}
  DataSize <- SizeOf
  FetchChoices = {TRUE}
  SizeLimit <- SizeLimits
  ItemLimit <- ItemLimits
  DefaultItemHi = 4
  Relocks = {"throws"}
  SizeMax = 15
  MaxObjects = 4
PROPERTIES
  CachedIsFound
CHECK_DEADLOCK FALSE
