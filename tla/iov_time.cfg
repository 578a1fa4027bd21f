SPECIFICATION Spec
CONSTANTS
  Ids = {i1, i2, i3}
  Flavors = {"ofl"}
  FlavorOrder <- OneFlavor
  Coords <- TimeCoords
  Mode = 1
  Writers = {w1}
  Readers = {r1}
  Asks <- TimeAsks
  MaxTime = 2
  Skew = 0
  Disciplined = TRUE
  None = None
SYMMETRY Symmetry
INVARIANTS
  TypeOK
  ReadRepeatable
  EndHonest
  EndTight
PROPERTIES
  SettledAnswersStable
CHECK_DEADLOCK FALSE
