SPECIFICATION Spec
CHECK_DEADLOCK FALSE
CONSTANTS
  Policies <- MCPolicies
  MaxRuns = 3
  MaxFaults = 2
  MaxCrashes = 1
  MaxChanges = 2
INVARIANTS VendorBinaryKept OnlyTheseRefuse SuccessFinishesItsPlan HelpersTrustLocal EnvironmentFindsInjector CliComesBack
PROPERTIES KeychainTouchedLast
