SPECIFICATION Spec
CONSTANTS
  Capacity = 1
  MaxSignals = 1
INVARIANTS
  OutputArrives
CHECK_DEADLOCK FALSE
