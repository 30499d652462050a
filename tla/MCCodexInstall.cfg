SPECIFICATION FairSpec
CONSTANTS
  Installers = {p, q}
  NoOwner = NoOwner
  Modes = {"release", "local-fast"}
  MaxHead = 2
  MaxTag = 2
  MaxRuns = 3
  MaxFaults = 1
  MaxCrashes = 1
INVARIANTS
  SuccessInstallsItsBuild
  BumpAdvancesMtime
PROPERTIES
  ReplacedByReady
  WaitersGetOn
CHECK_DEADLOCK FALSE
