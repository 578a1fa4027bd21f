SPECIFICATION Spec
CONSTANTS
  Flavors = {"ofl", "simu"}
  FlavorOrder <- Order
  Directories <- DirectoriesOf
  Arrivals <- ArrivalsOf
  Asks <- AsksOf
  None = None
CHECK_DEADLOCK FALSE
INVARIANTS
  BestOfFlavor
  AgreesWithDatabase
