\* A request over the abstract provider: two vendors, at most two calls.
CONSTANTS
  MaxInt = 3
  Vendors = {1, 2}
  CallBudget = 2
  VendorUsages <- MCVendorUsages
  PublisherConfigured = TRUE
SPECIFICATION FairSpec
INVARIANTS
  TypeOK
  NoEventWithoutACall
  PreflightVerdictsAreFree
  AuditedAttempts
  TrustedResult
  EventAgreesWithMetadata
  PublishedUsageIsExact
PROPERTIES
  EventReachesPublisher
