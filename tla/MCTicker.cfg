SPECIFICATION Spec
CONSTANTS
  Apps = {a1}
  CLIs = {k1, k2}
  Watched = {k1}
  NoTarget = NoTarget
INVARIANTS
  FastAfterDeferral
PROPERTIES
  StoppedForLoadIsDeferred
  StopEndsLoop
  MonitorsEnd
