SPECIFICATION Spec
CONSTANTS
  Threads = {t1}
  Paths = {"t0", "survey"}
  DataSize <- SizeOf
  FetchChoices = {FALSE}
  SizeLimit <- SizeLimits
  ItemLimit <- ItemLimits
  DefaultItemHi = 10
  Relocks = {"proceeds"}
  SizeMax = 15
  MaxObjects = 4
INVARIANTS
  WithinLimits
CHECK_DEADLOCK FALSE
