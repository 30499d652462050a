SPECIFICATION Spec
CONSTANTS
  Operations = {upgrade}
  Upgrade = upgrade
  Targets = {t1}
  Flags = {plain}
  Calls = {c1, c2}
  Watchers = {}
  RunIds = {r1, r2}
  NoRun = NoRun
INVARIANTS
  SuccessMeansSuccess
CHECK_DEADLOCK FALSE
