SPECIFICATION Spec
CONSTANTS
  Operations = {upgrade, patch}
  Upgrade = upgrade
  Targets = {t1, t2}
  Flags = {plain}
  Calls = {c1, c2, c3}
  Watchers = {c3}
  RunIds = {r1, r2}
  NoRun = NoRun
SYMMETRY Symmetry
INVARIANTS
  NoStaleState
  OthersCannotAbort
  FailureReachesCalls
PROPERTIES
  RefusedOnlyForLiveRun
  ImplementsLease
CHECK_DEADLOCK FALSE
