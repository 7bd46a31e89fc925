\* The gateway with a usage publisher, as its tests build it, and a third
\* vendor that the policy does not allow.
CONSTANTS
  MaxInt = 3
  NumProviders = 3
  MaxAttemptsPerProvider = 2
  AttemptTimeout = TRUE
  Backoff <- MCBackoff
  FallbackEnabled = TRUE
  MaxProviders = 2
  VendorFailures <- MCVendorFailures
  VendorUsages <- MCVendorUsages
  PublisherConfigured = TRUE
SPECIFICATION GatewayFairSpec
INVARIANTS
  CancellationIsTheCallers
  CallerReasonIsReported
PROPERTIES
  GatewayIsAService
  RequestIsAnswered
