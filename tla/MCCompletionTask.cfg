\* Two shipments; one evidence reference at most; two points of time and a
\* deadline beyond them.
CONSTANTS
  MaxInt = 3
  Vendors = {1}
  CallBudget = 1
  VendorUsages = {}
  PublisherConfigured = TRUE
  ShipmentIDs = {"SH-1", "SH-2"}
  MaxEvidenceReferences = 1
  MaxTime = 2
  Commands <- MCCommands
  Answers <- MCAnswers
  Failures <- MCFailures
SPECIFICATION TaskFairSpec
INVARIANTS
  TaskTypeOK
  VendorSeesGovernedRequests
  OnlyActionableAnswersAreTrusted
  CallEndsWithItsCaller
  NoDeadlineIsEarly
PROPERTIES
  TaskIsAService
  FirstDeadlineEndsTheCall
