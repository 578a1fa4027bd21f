SPECIFICATION Spec
CONSTANTS
  Ids = {i1, i2}
  Flavors = {"sim", "ofl"}
  FlavorOrder <- TwoFlavors
  Coords <- RunCoords
  Mode = 2
  Writers = {w1, w2}
  Readers = {r1}
  Asks <- RunAsks
  MaxTime = 3
  Skew = 1
  Disciplined = TRUE
  None = None
SYMMETRY Symmetry
INVARIANTS
  ReadRepeatable
PROPERTIES
  SettledAnswersStable
CHECK_DEADLOCK FALSE
