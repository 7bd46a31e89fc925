\* cmd/stream-ingestion and cmd/hello against their log "stopped cleanly".
CONSTANTS
  Clients = {c1, c2}
  SmokeCheck = FALSE
  ForcedShutdownIsFatal = FALSE
  ServesBeforeNotify = FALSE
SPECIFICATION Spec
INVARIANT SuccessLeavesNobodyBehind
