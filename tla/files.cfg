SPECIFICATION FairSpec
CONSTANTS
  Threads = {"uploader", "reader", "other"}
  Process <- ProcessOf
  Getters = {"reader"}
  Payloads = {"first", "late", "rival"}
  Teams <- TeamsOf
  Owner <- OwnerOf
  Key <- KeyOf
  Bad = {"first"}
  MaxTime = 2
CHECK_DEADLOCK FALSE
INVARIANTS
  TypeOK
  StoredStays
  StoredOnce
  FoundWhole
PROPERTIES
  SchemaHolds
  CallsEnd
