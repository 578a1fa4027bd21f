SPECIFICATION FairSpec
CONSTANTS
  Uploads = {"one", "rival"}
  Key <- SameKey
  Contents <- Mixtures
  Adapters <- HttpThenDb
  MaxCalls <- CallsOf
  MaxRetries = 1
INVARIANTS
  TypeOK
  NoOrphanData
  StoredIsReadable
PROPERTIES
  AtomicSpec
  CallsReturn
CHECK_DEADLOCK FALSE
