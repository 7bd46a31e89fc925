\* The tasks of MCCompletionTask against one documented claim.
CONSTANTS
  MaxInt = 3
  Vendors = {1}
  CallBudget = 1
  VendorUsages = {}
  PublisherConfigured = TRUE
  ShipmentIDs = {"SH-1", "SH-2"}
  MaxEvidenceReferences = 1
  MaxTime = 2
  Commands <- MCCommands
  Answers <- MCAnswers
  Failures <- MCFailures
SPECIFICATION TaskSpec
INVARIANT NoTrailingData
