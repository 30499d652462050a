SPECIFICATION ResetSpec
CONSTANTS
  Procs = {p1, p2}
  Versions = {"v1", "v2"}
  MaxAttempts = 3
  MaxFaults = 1
  MaxCrashes = 2
SYMMETRY Symmetry
INVARIANTS
  FailureRestores
  SuccessInstalls
  CommitFollowsFreshCheck
  NeverWithoutBundle
  OnlyVendorBundles
PROPERTIES
  ResetForgetsApp
CHECK_DEADLOCK FALSE
