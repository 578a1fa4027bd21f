SPECIFICATION FairSpec
CONSTANTS
  Names <- AllNames
  Modules <- AllModules
  Hard <- HardOf
  Soft <- SoftOf
  RequestedThreads = 10
  HardwareThreads = 2
  NTimes = 2
PROPERTIES
  FailureAborts
CHECK_DEADLOCK FALSE
