\* cmd/llm-gateway with its smoke check, two vendors and two requests.
CONSTANTS
  MaxInt = 3
  NumProviders = 2
  MaxAttemptsPerProvider = 2
  AttemptTimeout = TRUE
  Backoff <- MCBackoff
  FallbackEnabled = TRUE
  MaxProviders = 2
  VendorFailures <- MCVendorFailures
  VendorUsages <- MCVendorUsages
  PublisherConfigured = FALSE
  Clients = {c1, c2}
  SmokeCheck = TRUE
  ForcedShutdownIsFatal = TRUE
  ServesBeforeNotify = TRUE
SPECIFICATION ProcessFairSpec
INVARIANTS
  ProcessTypeOK
  OnlyAWorkingGatewayServes
  SuccessLeavesNobodyBehind
PROPERTIES
  StartupEnds
  SignalEndsTheProcess
