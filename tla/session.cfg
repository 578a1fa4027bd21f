SPECIFICATION FairSpec
CONSTANTS
  Threads = {t1, t2}
  Modes = {"get", "set"}
  Nodes <- NodesOf
  Initial = "get"
INVARIANTS
  TypeOK
  RightSession
  OnlyDatabaseFails
  NodesIntact
PROPERTIES
  CallsEnd
