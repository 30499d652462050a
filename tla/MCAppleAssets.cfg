SPECIFICATION Spec
CONSTANTS
  MaxCerts = 3
  MaxRuns = 3
  MaxFaults = 2
  MaxCrashes = 1
  MaxLosses = 2
INVARIANTS
  AssetsFitTogether
PROPERTIES
  CertificateIsKept
CHECK_DEADLOCK FALSE
