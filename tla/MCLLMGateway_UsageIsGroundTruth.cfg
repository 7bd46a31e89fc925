\* The gateway of MCLLMGateway against one documented claim.
CONSTANTS
  MaxInt = 3
  NumProviders = 2
  MaxAttemptsPerProvider = 2
  AttemptTimeout = TRUE
  Backoff <- MCBackoff
  FallbackEnabled = TRUE
  MaxProviders = 2
  VendorFailures <- MCSentinels
  VendorUsages <- MCVendorUsages
  PublisherConfigured = TRUE
SPECIFICATION GatewaySpec
INVARIANT UsageIsGroundTruth
