\* Three vendors, all of them allowed by default, up to three attempts each.
CONSTANTS
  MaxInt = 3
  NumProviders = 3
  MaxAttemptsPerProvider = 3
  AttemptTimeout = TRUE
  Backoff <- MCBackoff
  FallbackEnabled = TRUE
  MaxProviders = 0
  VendorFailures <- MCVendorFailures
  VendorUsages <- MCVendorUsages
SPECIFICATION FairSpec
INVARIANTS
  TypeOK
  AttemptsAreTheCallsMade
  AtMostOneLateCall
  CallerErrorWins
  CompletionIsKept
  FailureHasACause
PROPERTIES
  TerminalVerdictEndsTheCall
  LoopsAreBounded
  CompleteReturns
  DepartedCallerReturns
  RouterIsAProvider
