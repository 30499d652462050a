SPECIFICATION FairSpec
CONSTANTS
  Capacity = 1
  MaxSignals = 1
PROPERTIES
  ShimExits
  InputEnds
  OutputFlows
CHECK_DEADLOCK FALSE
