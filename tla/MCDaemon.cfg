SPECIFICATION FairDaemonSpec
CONSTANTS
  Operations = {upgrade}
  Upgrade = upgrade
  Targets = {t1}
  Flags = {plain}
  Calls = {c1, c2, tick}
  Watchers = {c2}
  TickCalls = {tick}
  Stallers = {c2}
  RunIds = {r1}
  NoRun = NoRun
  MaxExits = 1
INVARIANTS
  OrderlyStopCutsNoStream
PROPERTIES
  DrainEnds
  CallsReturn
CHECK_DEADLOCK FALSE
