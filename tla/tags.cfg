SPECIFICATION Spec
CONSTANTS
  Tags = {"a", "a/s", "a/S"}
  Above <- AboveOf
  Table <- TableOf
  Clients = {d, h}
  HttpClients = {h}
  Importers = {d}
  File <- Export
  IfNotExists = FALSE
  MaxCalls <- CallsOf
  MaxRetries = 1
INVARIANTS
  TypeOK
  NoOrphans
  OwnTables
PROPERTIES
  TreeSpec
