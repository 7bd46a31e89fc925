--------------------------- MODULE GatewayService ---------------------------
(***************************************************************************)
(* One Service.Complete call (application/service.go): the eight stages of *)
(* a completion request over an abstract provider (ProviderPort), the      *)
(* metadata returned on every path, and the goroutine that hands the usage *)
(* event to the publisher.                                                 *)
(*                                                                         *)
(* What a stage computes from the request's or the vendor's text is        *)
(* abstracted to its verdict; what it does about the verdict is not.       *)
(*                                                                         *)
(* As in ProviderRouter, X_Y is X with the plausible bug Y.                *)
(***************************************************************************)
EXTENDS Integers, Sequences, ProviderErrors, UsageEvent

CONSTANTS
  Vendors,              \* as in ProviderPort
  CallBudget,           \* as in ProviderPort
  VendorUsages,         \* as in ProviderPort
  PublisherConfigured   \* usagePublisher # nil

ASSUME PortAssumption      == Vendors \subseteq Nat \ {0} /\ CallBudget \in Nat
ASSUME UsagesAssumption    == VendorUsages \subseteq Usages
ASSUME PublisherAssumption == PublisherConfigured \in BOOLEAN

VARIABLES
  ctx, calls, lateCalls, outcome,  \* the provider call, as in ProviderPort
  stage,      \* the stage the request is about to run
  defects,    \* which preflight checks this request fails
  metadata,   \* ExecutionMetadata
  returned,   \* "nothing" yet, then a trusted "result" or an "error"
  attempted,  \* history: publishUsageEventAsync was called
  event       \* the usage event: NoEvent, or its content and where it is

portVars    == <<ctx, calls, lateCalls, outcome>>
serviceVars == <<stage, defects, metadata, returned, attempted, event>>
vars        == <<portVars, serviceVars>>

Port == INSTANCE ProviderPort

-----------------------------------------------------------------------------
(* Stages 1 to 4, in order: the defect each one detects and how it fails.  *)
Preflight == <<
  [defect |-> "shape",    kind |-> "invalid_argument",  status |-> "preflight_failed"],
  [defect |-> "policy",   kind |-> "contract_mismatch", status |-> "preflight_failed"],
  [defect |-> "task",     kind |-> "unsupported_task",  status |-> "unsupported_task"],
  [defect |-> "contract", kind |-> "contract_mismatch", status |-> "preflight_failed"] >>

Defects  == {Preflight[i].defect : i \in DOMAIN Preflight}
Stages   == {"preflight", "context", "provider", "decode", "done"}
Statuses == {"preflight_failed", "unsupported_task", "request_canceled",
             "deadline_exceeded", "provider_failed", "validation_failed", "succeeded"}
Kinds    == {"none", "invalid_argument", "contract_mismatch", "unsupported_task",
             "request_canceled", "deadline_exceeded", "provider_unavailable",
             "validation_failed"}

NoEvent == [at |-> "nowhere"]

Init ==
  /\ Port!Init
  /\ stage = "preflight"
  /\ defects \in SUBSET Defects
  /\ metadata = [status |-> "preflight_failed", kind |-> "none", validation |-> "not_run",
                 provider |-> 0, attempts |-> 0, usage |-> NoUsage]
  /\ returned = "nothing"
  /\ attempted = FALSE
  /\ event = NoEvent

FailWith_Publishes(m, kind, status) ==
  /\ metadata' = [m EXCEPT !.kind = kind, !.status = status]
  /\ returned' = "error"
  /\ stage' = "done"
  /\ attempted' = TRUE
  /\ UNCHANGED event

FailWith_ForgetsStatus(m, kind, status) ==
  /\ metadata' = [m EXCEPT !.kind = kind]
  /\ returned' = "error"
  /\ stage' = "done"
  /\ UNCHANGED <<attempted, event>>

\* The fail closure, on the metadata known so far.  It publishes nothing.
FailWith(m, kind, status) ==
  /\ metadata' = [m EXCEPT !.kind = kind, !.status = status]
  /\ returned' = "error"
  /\ stage' = "done"
  /\ UNCHANGED <<attempted, event>>

RejectPreflight ==
  /\ stage = "preflight"
  /\ \E i \in DOMAIN Preflight :
       /\ Preflight[i].defect \in defects
       /\ \A j \in 1 .. i - 1 : Preflight[j].defect \notin defects
       /\ FailWith(metadata, Preflight[i].kind, Preflight[i].status)
  /\ UNCHANGED <<portVars, defects>>

PassPreflight ==
  /\ stage = "preflight" /\ defects = {}
  /\ stage' = "context"
  /\ UNCHANGED <<portVars, defects, metadata, returned, attempted, event>>

RejectDeadCaller_OneReason ==
  /\ stage = "context" /\ ctx # "alive"
  /\ FailWith(metadata, "deadline_exceeded", "deadline_exceeded")
  /\ UNCHANGED <<portVars, defects>>

\* Stage 5.  ctx is the call's context: the caller's, bounded by the
\* command's deadline as well.
RejectDeadCaller ==
  /\ stage = "context" /\ ctx # "alive"
  /\ IF ctx = "canceled"
     THEN FailWith(metadata, "request_canceled", "request_canceled")
     ELSE FailWith(metadata, "deadline_exceeded", "deadline_exceeded")
  /\ UNCHANGED <<portVars, defects>>

InvokeProvider ==
  /\ stage = "context" /\ ctx = "alive"
  /\ stage' = "provider"
  /\ UNCHANGED <<portVars, defects, metadata, returned, attempted, event>>

Reported_RetriesOnly ==
  [metadata EXCEPT !.provider = outcome.provider,
                   !.attempts = outcome.attempts - 1,
                   !.usage    = outcome.usage]

\* Stage 6: what the provider reports is copied before its error is looked at.
Reported ==
  [metadata EXCEPT !.provider = outcome.provider,
                   !.attempts = outcome.attempts,
                   !.usage    = outcome.usage]

ProviderFailed_BeforeCopying ==
  /\ stage = "provider" /\ outcome # Port!Pending /\ outcome.err # NilError
  /\ FailWith(metadata, "provider_unavailable", "provider_failed")
  /\ UNCHANGED <<portVars, defects>>

ProviderFailed_AnyContextError ==
  /\ stage = "provider" /\ outcome # Port!Pending /\ outcome.err # NilError
  /\ IF outcome.err \cap ContextErrors # {}
     THEN FailWith(Reported, "request_canceled", "request_canceled")
     ELSE FailWith(Reported, "provider_unavailable", "provider_failed")
  /\ UNCHANGED <<portVars, defects>>

ProviderFailed ==
  /\ stage = "provider" /\ outcome # Port!Pending /\ outcome.err # NilError
  /\ LET m == Reported IN
       CASE "canceled" \in outcome.err -> FailWith(m, "request_canceled", "request_canceled")
         [] "canceled" \notin outcome.err /\ "deadline" \in outcome.err ->
              FailWith(m, "deadline_exceeded", "deadline_exceeded")
         [] OTHER -> FailWith(m, "provider_unavailable", "provider_failed")
  /\ UNCHANGED <<portVars, defects>>

ProviderCompleted ==
  /\ stage = "provider" /\ outcome # Port!Pending /\ outcome.err = NilError
  /\ metadata' = Reported
  /\ stage' = "decode"
  /\ UNCHANGED <<portVars, defects, returned, attempted, event>>

\* publishUsageEventAsync: the event is built from the metadata and left to a
\* goroutine, or dropped: there is no publisher, no event ID could be drawn, or
\* the event does not validate.
PublishUsageEventAsync(m) ==
  /\ attempted' = TRUE
  /\ \/ /\ PublisherConfigured /\ Validates(m.usage)
        /\ event' = [at |-> "goroutine", provider |-> m.provider, attempts |-> m.attempts,
                     usage |-> m.usage, status |-> m.status, validation |-> m.validation]
     \/ UNCHANGED event

FinishDecode_PublishesFirst(validation, status, kind, reply) ==
  /\ stage = "decode"
  /\ PublishUsageEventAsync(metadata)
  /\ metadata' = [metadata EXCEPT !.validation = validation, !.status = status, !.kind = kind]
  /\ returned' = reply
  /\ stage' = "done"
  /\ UNCHANGED <<portVars, defects>>

\* Stages 7 and 8: the task's verdict on the output, then the event.
FinishDecode(validation, status, kind, reply) ==
  /\ stage = "decode"
  /\ LET m == [metadata EXCEPT !.validation = validation, !.status = status, !.kind = kind]
     IN  /\ PublishUsageEventAsync(m)
         /\ metadata' = m
  /\ returned' = reply
  /\ stage' = "done"
  /\ UNCHANGED <<portVars, defects>>

RejectOutput_ReturnsIt == FinishDecode("failed", "validation_failed", "validation_failed", "result")

RejectOutput == FinishDecode("failed", "validation_failed", "validation_failed", "error")
AcceptOutput == FinishDecode("passed", "succeeded", "none", "result")

DeliverEvent_CallersContext ==
  /\ event.at = "goroutine"
  /\ event' = IF ctx = "alive" THEN [event EXCEPT !.at = "publisher"] ELSE NoEvent
  /\ UNCHANGED <<portVars, stage, defects, metadata, returned, attempted>>

\* The goroutine hands the event to the publisher, whose error it ignores.
\* Its context is detached from the call's.
DeliverEvent ==
  /\ event.at = "goroutine"
  /\ event' = [event EXCEPT !.at = "publisher"]
  /\ UNCHANGED <<portVars, stage, defects, metadata, returned, attempted>>

CompleteStep ==
  \/ RejectPreflight
  \/ PassPreflight
  \/ RejectDeadCaller
  \/ InvokeProvider
  \/ ProviderFailed
  \/ ProviderCompleted
  \/ RejectOutput
  \/ AcceptOutput

-----------------------------------------------------------------------------
\* The provider runs while stage 6 waits for it; the caller leaves at any time.
ProviderStep ==
  /\ stage = "provider"
  /\ Port!CallVendor \/ Port!Complete \/ Port!Fail
  /\ UNCHANGED serviceVars

CallerLeaves == Port!CallerLeaves /\ UNCHANGED serviceVars

\* The request is over and its event, if any, is with the publisher.
Finished == stage = "done" /\ event.at # "goroutine" /\ UNCHANGED vars

Next == CompleteStep \/ DeliverEvent \/ ProviderStep \/ CallerLeaves \/ Finished

Spec == Init /\ [][Next]_vars

\* Goroutines run; the provider's own progress is its implementation's matter.
Fairness == WF_vars(CompleteStep) /\ WF_vars(DeliverEvent)

FairSpec == Spec /\ Fairness

-----------------------------------------------------------------------------
(* Properties.                                                             *)

TypeOK ==
  /\ stage \in Stages
  /\ defects \subseteq Defects
  /\ metadata \in [status : Statuses, kind : Kinds,
                   validation : {"not_run", "passed", "failed"},
                   provider : {0} \cup Vendors, attempts : Nat,
                   usage : VendorUsages \cup {NoUsage}]
  /\ returned \in {"nothing", "result", "error"}
  /\ attempted \in BOOLEAN
  /\ \/ event = NoEvent
     \/ event \in [at : {"goroutine", "publisher"}, provider : Vendors, attempts : Nat,
                   usage : VendorUsages \cup {NoUsage}, status : Statuses, validation : {"passed", "failed"}]

\* No vendor call, no usage event: a request turned away before stage 6, or whose
\* provider call never reached a vendor, is never billed.
NoEventWithoutACall == attempted => calls > 0

\* The metadata starts out as "preflight failed"; a request that reached a
\* vendor never ends with that status nor with another preflight verdict.
PreflightVerdictsAreFree ==
  stage = "done" /\ metadata.status \in {"preflight_failed", "unsupported_task"} =>
    calls = 0 /\ metadata.kind # "none"

\* The caller is told the number of vendor calls really made and the usage the
\* provider reported, on every path and also when that path is a failure.
AuditedAttempts ==
  stage = "done" => metadata.attempts = calls /\ metadata.usage = outcome.usage

\* A result is returned exactly when a vendor answered, its output passed the
\* trust boundary, and the metadata says so in all three of its fields.
TrustedResult ==
  stage = "done" =>
    LET trusted == /\ metadata.status = "succeeded"
                   /\ metadata.validation = "passed"
                   /\ metadata.kind = "none"
    IN  /\ returned = "result" <=> trusted
        /\ trusted => calls > 0 /\ outcome.err = NilError
        /\ metadata.validation # "not_run" <=> outcome # Port!Pending /\ outcome.err = NilError

\* The event billing sees says what the caller's metadata says, wherever the
\* goroutine that carries it has got to.
EventAgreesWithMetadata ==
  event # NoEvent =>
    /\ stage = "done"
    /\ event.status = metadata.status /\ event.validation = metadata.validation
    /\ event.provider = metadata.provider /\ event.attempts = metadata.attempts
    /\ event.usage = metadata.usage

\* Billing never sees a total that is not the true sum of its parts, nor a cost
\* it could not charge, whatever a vendor reports: machine arithmetic that wraps
\* around in the vendor's total wraps to a total that Validate refuses.
PublishedUsageIsExact == event # NoEvent => IsExact(event.usage)

\* An event left to the goroutine reaches the publisher even when the caller
\* is gone by then.
EventReachesPublisher == event.at = "goroutine" ~> event.at = "publisher"
=============================================================================
