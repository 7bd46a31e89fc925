------------------------ MODULE GatewayServiceProofs ------------------------
(***************************************************************************)
(* Theorems about GatewayService, for every set of vendors, every call     *)
(* budget, every width of machine integers and every usage that vendors    *)
(* may report.                                                             *)
(***************************************************************************)
EXTENDS GatewayService, TLAPS

\* The provider call keeps the types of its port.
PortTypeOK ==
  /\ ctx \in {"alive"} \cup ContextErrors
  /\ calls \in Nat
  /\ outcome \in [attempts : Nat, provider : {0} \cup Vendors, err : Errors,
                  usage : VendorUsages \cup {NoUsage}]

\* An outcome counts the calls made, and a completion comes from a vendor; with
\* no call nothing was consumed.
OutcomeReports ==
  /\ outcome # Port!Pending => outcome.attempts = calls
  /\ outcome # Port!Pending /\ outcome.err = NilError =>
       calls > 0 /\ outcome.provider \in Vendors
  /\ calls = 0 => outcome.usage = NoUsage

\* What holds while the request is under way: no verdict and no event yet, and
\* no provider call before stage 6.
UnderWay ==
  stage # "done" =>
    /\ returned = "nothing" /\ ~attempted /\ event = NoEvent
    /\ metadata.status = "preflight_failed" /\ metadata.kind = "none"
    /\ metadata.validation = "not_run"
    /\ stage # "decode" =>
         metadata.provider = 0 /\ metadata.attempts = 0 /\ metadata.usage = NoUsage
    /\ stage \in {"preflight", "context"} => calls = 0 /\ outcome = Port!Pending
    /\ stage = "decode" => outcome # Port!Pending /\ outcome.err = NilError /\ metadata = Reported

\* A request that is over either never called the provider or has its outcome.
Ended == stage = "done" => outcome # Port!Pending \/ calls = 0

SInv ==
  /\ TypeOK /\ PortTypeOK /\ OutcomeReports /\ UnderWay /\ Ended
  /\ NoEventWithoutACall /\ PreflightVerdictsAreFree /\ AuditedAttempts
  /\ TrustedResult /\ EventAgreesWithMetadata /\ PublishedUsageIsExact

-----------------------------------------------------------------------------
\* Machine arithmetic: a total that Validate accepts is the true sum, whatever
\* the width, because a sum of two counts that wraps around is negative.
LEMMA ValidUsageIsExact ==
  ASSUME NEW u \in Usages, Validates(u)
  PROVE  IsExact(u)
  BY MaxIntAssumption DEF Usages, MachineInt, Validates, Plus, IsExact

\* Every usage the metadata may carry is one of machine integers.
LEMMA ReportedUsagesAreUsages == VendorUsages \cup {NoUsage} \subseteq Usages
  BY UsagesAssumption, MaxIntAssumption DEF Usages, MachineInt, NoUsage

\* The port declares the vocabulary of the service once more.
LEMMA SamePort ==
  /\ Port!NoUsage = NoUsage
  /\ Port!NilError = NilError
  /\ Port!ContextErrors = ContextErrors
  /\ Port!Errors = Errors
  BY DEF Port!NoUsage, NoUsage, Port!NilError, NilError, Port!ContextErrors, ContextErrors,
         Port!Errors, Errors, Port!Links, Links, Port!ProviderFailureKinds, ProviderFailureKinds,
         Port!TransientKinds, TransientKinds, Port!TerminalKinds, TerminalKinds

LEMMA InitSInv == Init => SInv
  <1> SUFFICES ASSUME Init PROVE SInv
    OBVIOUS
  <1> USE SamePort DEF Init, Port!Init
  <1>1. NilError \in Errors
    BY DEF NilError, Errors
  <1>2. TypeOK /\ PortTypeOK
    BY <1>1 DEF TypeOK, PortTypeOK, Stages, Statuses, Kinds, Port!Pending
  <1>3. OutcomeReports /\ UnderWay /\ Ended
    BY DEF OutcomeReports, UnderWay, Ended, Port!Pending
  <1> QED
    BY <1>2, <1>3 DEF SInv, NoEventWithoutACall, PreflightVerdictsAreFree, AuditedAttempts,
       TrustedResult, EventAgreesWithMetadata, PublishedUsageIsExact

\* A preflight or context failure: nothing was called.
LEMMA EarlyFailure ==
  ASSUME SInv, stage \in {"preflight", "context"}, NEW kind \in Kinds \ {"none"},
         NEW status \in Statuses \ {"succeeded"}, FailWith(metadata, kind, status),
         UNCHANGED <<portVars, defects>>
  PROVE  SInv'
  <1> USE DEF SInv, FailWith, portVars
  <1>1. TypeOK' /\ PortTypeOK'
    BY DEF TypeOK, PortTypeOK, Stages
  <1>2. OutcomeReports' /\ UnderWay' /\ Ended'
    BY DEF OutcomeReports, UnderWay, Ended
  <1>3. calls = 0 /\ outcome = Port!Pending /\ ~attempted /\ event = NoEvent
        /\ metadata.validation = "not_run"
        /\ metadata.attempts = 0 /\ metadata.usage = NoUsage
    BY DEF UnderWay
  <1>4. metadata' = [metadata EXCEPT !.kind = kind, !.status = status]
        /\ metadata'.kind = kind /\ metadata'.status = status
        /\ metadata'.validation = "not_run"
        /\ metadata'.attempts = 0 /\ metadata'.usage = NoUsage
    BY <1>3 DEF TypeOK
  <1> QED
    BY <1>1, <1>2, <1>3, <1>4, SamePort DEF NoEventWithoutACall, PreflightVerdictsAreFree, AuditedAttempts,
       TrustedResult, EventAgreesWithMetadata, PublishedUsageIsExact, Port!Pending, UnderWay

\* What stage 6 copies from an outcome that is no longer pending.
LEMMA ReportedFacts ==
  ASSUME SInv, stage \in {"provider", "decode"}, outcome # Port!Pending
  PROVE  /\ Reported \in [status : Statuses, kind : Kinds,
                          validation : {"not_run", "passed", "failed"},
                          provider : {0} \cup Vendors, attempts : Nat,
                          usage : VendorUsages \cup {NoUsage}]
         /\ Reported.status = "preflight_failed" /\ Reported.kind = "none"
         /\ Reported.validation = "not_run" /\ Reported.provider = outcome.provider
         /\ Reported.attempts = calls /\ Reported.usage = outcome.usage
  BY DEF SInv, TypeOK, PortTypeOK, OutcomeReports, UnderWay, Reported

\* The provider failed: nobody's verdict on an output, and no event.
LEMMA LateFailure ==
  ASSUME SInv, stage = "provider", outcome # Port!Pending, outcome.err # NilError,
         NEW kind \in Kinds, NEW status \in {"request_canceled", "deadline_exceeded", "provider_failed"},
         FailWith(Reported, kind, status), UNCHANGED <<portVars, defects>>
  PROVE  SInv'
  <1> USE ReportedFacts DEF SInv, FailWith, portVars
  <1> DEFINE m == [Reported EXCEPT !.kind = kind, !.status = status]
  <1>1. /\ m \in [status : Statuses, kind : Kinds,
                  validation : {"not_run", "passed", "failed"},
                  provider : {0} \cup Vendors, attempts : Nat,
                  usage : VendorUsages \cup {NoUsage}]
        /\ m.status = status /\ m.validation = "not_run"
        /\ m.attempts = calls /\ m.usage = outcome.usage
    BY DEF Statuses
  <1>2. metadata' = m
    OBVIOUS
  <1> HIDE DEF m
  <1>3. TypeOK' /\ PortTypeOK'
    BY <1>1, <1>2 DEF TypeOK, PortTypeOK, Stages
  <1>4. OutcomeReports' /\ UnderWay' /\ Ended'
    BY DEF OutcomeReports, UnderWay, Ended
  <1>5. ~attempted /\ event = NoEvent
    BY DEF UnderWay
  <1> QED
    BY <1>1, <1>2, <1>3, <1>4, <1>5 DEF NoEventWithoutACall, PreflightVerdictsAreFree, AuditedAttempts,
       TrustedResult, EventAgreesWithMetadata, PublishedUsageIsExact

\* The output got its verdict: a trusted result or a refusal, and perhaps an event.
LEMMA OutputVerdict ==
  ASSUME SInv, NEW validation, NEW status, NEW kind, NEW reply,
         FinishDecode(validation, status, kind, reply),
         \/ /\ validation = "failed" /\ status = "validation_failed"
            /\ kind = "validation_failed" /\ reply = "error"
         \/ /\ validation = "passed" /\ status = "succeeded"
            /\ kind = "none" /\ reply = "result"
  PROVE  SInv'
  <1> USE DEF FinishDecode, portVars
  <1> DEFINE m == [metadata EXCEPT !.validation = validation, !.status = status, !.kind = kind]
  <1>1. /\ outcome # Port!Pending /\ outcome.err = NilError /\ calls > 0
        /\ outcome.provider \in Vendors
        /\ metadata = Reported /\ event = NoEvent
    BY DEF SInv, UnderWay, OutcomeReports
  <1>2. metadata.provider = outcome.provider /\ metadata.attempts = calls
        /\ metadata.usage = outcome.usage
    BY <1>1, ReportedFacts
  <1>3. /\ m \in [status : Statuses, kind : Kinds,
                  validation : {"not_run", "passed", "failed"},
                  provider : {0} \cup Vendors, attempts : Nat,
                  usage : VendorUsages \cup {NoUsage}]
        /\ m.status = status /\ m.validation = validation /\ m.kind = kind
        /\ m.provider \in Vendors /\ m.attempts = calls /\ m.usage = outcome.usage
    <2>1. status \in Statuses /\ kind \in Kinds /\ validation \in {"passed", "failed"}
      BY DEF Statuses, Kinds
    <2>2. metadata \in [status : Statuses, kind : Kinds,
                  validation : {"not_run", "passed", "failed"},
                  provider : {0} \cup Vendors, attempts : Nat,
                  usage : VendorUsages \cup {NoUsage}]
      BY DEF SInv, TypeOK
    <2> HIDE DEF FinishDecode
    <2> QED
      BY <1>1, <1>2, <2>1, <2>2
  <1>4. metadata' = m /\ attempted' /\ stage' = "done" /\ returned' = reply
    BY DEF PublishUsageEventAsync
  <1>p. PublishUsageEventAsync(m)
    OBVIOUS
  <1> HIDE DEF m
  <1>5. \/ event' = NoEvent
        \/ /\ Validates(m.usage)
           /\ event' = [at |-> "goroutine", provider |-> m.provider, attempts |-> m.attempts,
                        usage |-> m.usage, status |-> m.status, validation |-> m.validation]
    BY <1>1, <1>p DEF PublishUsageEventAsync
  <1>6. TypeOK' /\ PortTypeOK'
    BY <1>3, <1>4, <1>5 DEF SInv, TypeOK, PortTypeOK, Stages
  <1>7. OutcomeReports' /\ UnderWay' /\ Ended'
    BY <1>1, <1>4 DEF SInv, OutcomeReports, UnderWay, Ended
  <1>8. NoEventWithoutACall' /\ PreflightVerdictsAreFree' /\ AuditedAttempts'
    BY <1>1, <1>3, <1>4 DEF NoEventWithoutACall, PreflightVerdictsAreFree, AuditedAttempts
  <1>9. TrustedResult'
    BY <1>1, <1>3, <1>4 DEF TrustedResult
  <1>10. EventAgreesWithMetadata'
    <2>1. CASE event' = NoEvent
      BY <2>1 DEF EventAgreesWithMetadata
    <2>2. CASE event' = [at |-> "goroutine", provider |-> m.provider, attempts |-> m.attempts,
                         usage |-> m.usage, status |-> m.status, validation |-> m.validation]
      BY <1>4, <2>2 DEF EventAgreesWithMetadata
    <2> QED
      BY <1>5, <2>1, <2>2
  <1>11. PublishedUsageIsExact'
    <2>1. Validates(m.usage) => IsExact(m.usage)
      BY <1>3, ReportedUsagesAreUsages, ValidUsageIsExact
    <2> QED
      BY <1>3, <1>5, <2>1 DEF PublishedUsageIsExact
  <1> QED
    BY <1>6, <1>7, <1>8, <1>9, <1>10, <1>11 DEF SInv

\* A step of the provider behind its port.
LEMMA PortStep ==
  ASSUME SInv, ProviderStep
  PROVE  SInv'
  <1> USE SamePort DEF SInv, ProviderStep, serviceVars
  <1>1. stage = "provider" /\ stage' = "provider" /\ outcome = Port!Pending
    BY DEF Port!CallVendor, Port!Complete, Port!Fail
  <1>2. TypeOK'
    BY DEF TypeOK
  <1>3. PortTypeOK' /\ OutcomeReports'
    <2>1. CASE Port!CallVendor
      BY <2>1, <1>1 DEF PortTypeOK, OutcomeReports, Port!CallVendor, Port!Pending
    <2>2. CASE Port!Complete
      <3>1. /\ outcome'.attempts = calls /\ outcome'.provider \in Vendors
            /\ outcome'.err = NilError /\ outcome'.usage \in VendorUsages \cup {NoUsage}
            /\ calls > 0 /\ UNCHANGED <<ctx, calls>>
        BY <2>2 DEF Port!Complete
      <3>2. outcome' \in [attempts : Nat, provider : {0} \cup Vendors, err : Errors,
                          usage : VendorUsages \cup {NoUsage}]
        BY <2>2 DEF PortTypeOK, Port!Complete, NilError, Errors
      <3> QED
        BY <3>1, <3>2 DEF PortTypeOK, OutcomeReports
    <2>3. CASE Port!Fail
      BY <2>3 DEF PortTypeOK, OutcomeReports, Port!Fail
    <2> QED
      BY <2>1, <2>2, <2>3
  <1>4. UnderWay' /\ Ended'
    BY <1>1 DEF UnderWay, Ended
  <1> QED
    BY <1>1, <1>2, <1>3, <1>4 DEF UnderWay, NoEventWithoutACall, PreflightVerdictsAreFree, AuditedAttempts,
       TrustedResult, EventAgreesWithMetadata, PublishedUsageIsExact

LEMMA StepSInv == SInv /\ [Next]_vars => SInv'
  <1> SUFFICES ASSUME SInv, [Next]_vars PROVE SInv'
    OBVIOUS
  <1>1. CASE RejectPreflight
    <2>1. PICK i \in DOMAIN Preflight :
            /\ Preflight[i].kind \in Kinds \ {"none"}
            /\ Preflight[i].status \in Statuses \ {"succeeded"}
            /\ FailWith(metadata, Preflight[i].kind, Preflight[i].status)
      BY <1>1 DEF RejectPreflight, Preflight, Kinds, Statuses
    <2> QED
      BY <1>1, <2>1, EarlyFailure DEF RejectPreflight
  <1>2. CASE PassPreflight
    BY <1>2 DEF PassPreflight, portVars, SInv, TypeOK, PortTypeOK, Stages, OutcomeReports, UnderWay,
       Ended, NoEventWithoutACall, PreflightVerdictsAreFree, AuditedAttempts,
       TrustedResult, EventAgreesWithMetadata, PublishedUsageIsExact
  <1>3. CASE RejectDeadCaller
    <2>1. {"request_canceled", "deadline_exceeded"} \subseteq (Kinds \ {"none"}) \cap (Statuses \ {"succeeded"})
      BY DEF Kinds, Statuses
    <2> QED
      BY <1>3, <2>1, EarlyFailure DEF RejectDeadCaller
  <1>4. CASE InvokeProvider
    BY <1>4 DEF InvokeProvider, portVars, SInv, TypeOK, PortTypeOK, Stages, OutcomeReports, UnderWay,
       Ended, NoEventWithoutACall, PreflightVerdictsAreFree, AuditedAttempts,
       TrustedResult, EventAgreesWithMetadata, PublishedUsageIsExact
  <1>5. CASE ProviderFailed
    <2>1. {"request_canceled", "deadline_exceeded", "provider_unavailable"} \subseteq Kinds
      BY DEF Kinds
    <2>2. \/ FailWith(Reported, "request_canceled", "request_canceled")
          \/ FailWith(Reported, "deadline_exceeded", "deadline_exceeded")
          \/ FailWith(Reported, "provider_unavailable", "provider_failed")
      <3>1. CASE "canceled" \in outcome.err
        BY <1>5, <3>1 DEF ProviderFailed
      <3>2. CASE "canceled" \notin outcome.err /\ "deadline" \in outcome.err
        BY <1>5, <3>2 DEF ProviderFailed
      <3>3. CASE "canceled" \notin outcome.err /\ "deadline" \notin outcome.err
        BY <1>5, <3>3 DEF ProviderFailed
      <3> QED
        BY <3>1, <3>2, <3>3
    <2>3. stage = "provider" /\ outcome # Port!Pending /\ outcome.err # NilError
          /\ UNCHANGED <<portVars, defects>>
      BY <1>5 DEF ProviderFailed
    <2> QED
      BY <2>1, <2>2, <2>3, LateFailure
  <1>6. CASE ProviderCompleted
    <2> USE <1>6, ReportedFacts DEF ProviderCompleted, portVars, SInv
    <2>1. TypeOK' /\ PortTypeOK'
      BY DEF TypeOK, PortTypeOK, Stages
    <2>2. OutcomeReports' /\ Ended'
      BY DEF OutcomeReports, Ended
    <2>3. Reported' = metadata'
      <3>1. metadata' = Reported /\ outcome' = outcome
        OBVIOUS
      <3> QED
        BY <3>1 DEF Reported, TypeOK
    <2>4. UnderWay'
      BY <2>3 DEF UnderWay
    <2> QED
      BY <2>1, <2>2, <2>4 DEF UnderWay, NoEventWithoutACall, PreflightVerdictsAreFree, AuditedAttempts,
         TrustedResult, EventAgreesWithMetadata, PublishedUsageIsExact
  <1>7. CASE RejectOutput
    BY <1>7, OutputVerdict DEF RejectOutput
  <1>8. CASE AcceptOutput
    BY <1>8, OutputVerdict DEF AcceptOutput
  <1>9. CASE DeliverEvent
    <2> USE <1>9 DEF DeliverEvent, portVars, SInv
    <2>1. event \in [at : {"goroutine", "publisher"}, provider : Vendors, attempts : Nat,
                     usage : VendorUsages \cup {NoUsage}, status : Statuses,
                     validation : {"passed", "failed"}] /\ event # NoEvent
      BY DEF TypeOK, NoEvent
    <2>2. TypeOK' /\ PortTypeOK'
      BY <2>1 DEF TypeOK, PortTypeOK
    <2>3. OutcomeReports' /\ UnderWay' /\ Ended'
      BY <2>1 DEF OutcomeReports, UnderWay, Ended, Reported
    <2>4. EventAgreesWithMetadata' /\ PublishedUsageIsExact'
      BY <2>1 DEF EventAgreesWithMetadata, PublishedUsageIsExact
    <2> QED
      BY <2>2, <2>3, <2>4 DEF NoEventWithoutACall, PreflightVerdictsAreFree, AuditedAttempts,
         TrustedResult
  <1>10. CASE ProviderStep
    BY <1>10, PortStep
  <1>11. CASE CallerLeaves
    BY <1>11, SamePort DEF CallerLeaves, Port!CallerLeaves, serviceVars, SInv, TypeOK, PortTypeOK,
       OutcomeReports, UnderWay, Reported, Ended, NoEventWithoutACall, PreflightVerdictsAreFree,
       AuditedAttempts, TrustedResult, EventAgreesWithMetadata, PublishedUsageIsExact
  <1>12. CASE UNCHANGED vars
    BY <1>12 DEF vars, portVars, serviceVars, SInv, TypeOK, PortTypeOK,
       OutcomeReports, UnderWay, Reported, Ended, NoEventWithoutACall, PreflightVerdictsAreFree,
       AuditedAttempts, TrustedResult, EventAgreesWithMetadata, PublishedUsageIsExact
  <1> QED
    BY <1>1, <1>2, <1>3, <1>4, <1>5, <1>6, <1>7, <1>8, <1>9, <1>10, <1>11, <1>12
    DEF Next, CompleteStep, Finished

\* The inductive invariant of one completion request.
THEOREM ServiceInvariant == Spec => []SInv
  <1> QED
    BY InitSInv, StepSInv, PTL DEF Spec

\* Every variable of a request keeps its type: a trusted result or an event always
\* names a vendor.
THEOREM ServiceTypeCorrect == Spec => []TypeOK
  <1>1. SInv => TypeOK
    BY DEF SInv
  <1> QED
    BY <1>1, ServiceInvariant, PTL

\* publishUsageEventAsync runs only for a request that reached a vendor.
THEOREM EventsFollowCalls == Spec => []NoEventWithoutACall
  <1>1. SInv => NoEventWithoutACall
    BY DEF SInv
  <1> QED
    BY <1>1, ServiceInvariant, PTL

\* The preset status "preflight_failed" never survives a vendor call.
THEOREM PreflightIsFree == Spec => []PreflightVerdictsAreFree
  <1>1. SInv => PreflightVerdictsAreFree
    BY DEF SInv
  <1> QED
    BY <1>1, ServiceInvariant, PTL

\* The metadata of Service.Complete reports the calls made and the usage the provider
\* returned, on every path, for every budget.
THEOREM AttemptsAudited == Spec => []AuditedAttempts
  <1>1. SInv => AuditedAttempts
    BY DEF SInv
  <1> QED
    BY <1>1, ServiceInvariant, PTL

\* Service.Complete returns a result exactly when a vendor's output passed the trust
\* boundary.
THEOREM ResultsTrusted == Spec => []TrustedResult
  <1>1. SInv => TrustedResult
    BY DEF SInv
  <1> QED
    BY <1>1, ServiceInvariant, PTL

\* The event of publishUsageEventAsync never differs from the returned metadata.
THEOREM EventsAgree == Spec => []EventAgreesWithMetadata
  <1>1. SInv => EventAgreesWithMetadata
    BY DEF SInv
  <1> QED
    BY <1>1, ServiceInvariant, PTL

\* For integers of any width and vendors that report anything at all, the usage that
\* is published adds up without a wrap.
THEOREM PublishedUsageExact == Spec => []PublishedUsageIsExact
  <1>1. SInv => PublishedUsageIsExact
    BY DEF SInv
  <1> QED
    BY <1>1, ServiceInvariant, PTL
=============================================================================
