-------------------------- MODULE LLMGatewayProofs --------------------------
(***************************************************************************)
(* Theorems about LLMGateway: the service over the router is the service   *)
(* over any provider, and tells its caller the caller's own reason, for    *)
(* every configuration.                                                    *)
(***************************************************************************)
EXTENDS LLMGateway, ProviderRouterProofs

\* Metadata is a record, with the kinds of the service.
MetadataType ==
  metadata \in [status : Service!Statuses, kind : Service!Kinds,
                validation : {"not_run", "passed", "failed"},
                provider : 0 .. ProviderLimit, attempts : Nat,
                usage : VendorUsages \cup {NoUsage}]

\* The router runs in stage 6 only, and the later stages have its result.
Nesting ==
  /\ stage \in {"preflight", "context"} => calls = 0 /\ pc = "loop" /\ ~deadAtReturn
  /\ stage \in {"context", "provider", "decode"} => defects = {}
  /\ stage = "decode" => pc = "done" /\ result.err = NilError

\* The kind that reports the caller's own reason.
CallersKind == IF parent = "canceled" THEN "request_canceled" ELSE "deadline_exceeded"

\* How a valid request ended: before stage 6 because its caller was gone, or with
\* the router's result, whose context errors give the kind.
Reasons ==
  Over /\ defects = {} =>
    \/ calls = 0 /\ ~ParentAlive /\ metadata.kind = CallersKind
    \/ /\ pc = "done"
       /\ "canceled" \in result.err => metadata.kind = "request_canceled"
       /\ "canceled" \notin result.err /\ "deadline" \in result.err =>
            metadata.kind = "deadline_exceeded"

GInv == IInv /\ MetadataType /\ Nesting /\ Reasons

-----------------------------------------------------------------------------
\* The router sees each step of the gateway as one of its own, or as none.
LEMMA RouterView == [GatewayNext]_gatewayVars => [Next]_vars
  <1> SUFFICES ASSUME [GatewayNext]_gatewayVars PROVE [Next]_vars
    OBVIOUS
  <1> USE DEF vars, locals, history, routerVars
  <1>1. CASE ServiceStep
    BY <1>1 DEF ServiceStep, Service!CompleteStep, Service!RejectPreflight, Service!PassPreflight,
       Service!RejectDeadCaller, Service!InvokeProvider, Service!ProviderFailed,
       Service!ProviderCompleted, Service!RejectOutput, Service!AcceptOutput,
       Service!FinishDecode, Service!portVars
  <1>2. CASE EventStep
    BY <1>2 DEF EventStep, Service!DeliverEvent, Service!portVars
  <1>3. CASE ProviderStep
    BY <1>3 DEF ProviderStep, Next
  <1>4. CASE CallerStep
    BY <1>4 DEF CallerStep, Next
  <1>5. CASE Service!Finished /\ UNCHANGED routerVars
    BY <1>5 DEF Service!Finished, Service!vars, Service!portVars
  <1>6. CASE UNCHANGED gatewayVars
    BY <1>6 DEF gatewayVars
  <1> QED
    BY <1>1, <1>2, <1>3, <1>4, <1>5, <1>6 DEF GatewayNext

\* So the router's invariant holds of the gateway.
LEMMA RouterInvariantInGateway == GatewaySpec => []IInv
  <1>1. GatewayInit => IInv
    BY InitIInv DEF GatewayInit
  <1>2. IInv /\ [GatewayNext]_gatewayVars => IInv'
    BY RouterView, StepIInv
  <1> QED
    BY <1>1, <1>2, PTL DEF GatewaySpec

\* The service and its port declare the vocabulary of errors once more.
LEMMA SameServiceErrors ==
  /\ Service!NilError = NilError /\ Service!Port!NilError = NilError
  /\ Service!NoUsage = NoUsage /\ Service!Port!NoUsage = NoUsage
  /\ Service!ContextErrors = ContextErrors /\ Service!Port!ContextErrors = ContextErrors
  /\ Service!Port!Errors = Errors
  BY DEF Service!NilError, Service!Port!NilError, NilError,
     Service!NoUsage, Service!Port!NoUsage, NoUsage,
     Service!ContextErrors, Service!Port!ContextErrors, ContextErrors,
     Service!Port!Errors, Errors, Service!Port!Links, Links,
     Service!Port!ProviderFailureKinds, ProviderFailureKinds,
     Service!Port!TransientKinds, TransientKinds, Service!Port!TerminalKinds, TerminalKinds

\* The router's port and the service's are one.
LEMMA SamePorts ==
  /\ Port!Pending = Service!Port!Pending
  /\ Port!Init <=> Service!Port!Init
  /\ Port!CallerLeaves <=> Service!Port!CallerLeaves
  /\ Port!CallVendor <=> Service!Port!CallVendor
  /\ Port!Complete <=> Service!Port!Complete
  /\ Port!Fail <=> Service!Port!Fail
  <1> USE SameErrors, SameServiceErrors
  <1>1. Port!Pending = Service!Port!Pending
    BY DEF Port!Pending, Service!Port!Pending
  <1>2. Port!Init <=> Service!Port!Init
    BY <1>1 DEF Port!Init, Service!Port!Init
  <1>3. Port!CallerLeaves <=> Service!Port!CallerLeaves
    BY DEF Port!CallerLeaves, Service!Port!CallerLeaves
  <1>4. Port!CallVendor <=> Service!Port!CallVendor
    BY <1>1 DEF Port!CallVendor, Service!Port!CallVendor
  <1>5. Port!Complete <=> Service!Port!Complete
    BY <1>1 DEF Port!Complete, Service!Port!Complete
  <1>6. Port!Fail <=> Service!Port!Fail
    BY <1>1 DEF Port!Fail, Service!Port!Fail
  <1> QED
    BY <1>1, <1>2, <1>3, <1>4, <1>5, <1>6

-----------------------------------------------------------------------------
(* The gateway implements the service over the abstract provider.          *)

LEMMA InitService == GatewayInit => Service!Init
  BY DEF GatewayInit, Service!Init

LEMMA StepService == IInv /\ [GatewayNext]_gatewayVars => [Service!Next]_Service!vars
  <1> SUFFICES ASSUME IInv, [GatewayNext]_gatewayVars PROVE [Service!Next]_Service!vars
    OBVIOUS
  <1> USE DEF Service!vars, Service!portVars, Service!serviceVars, serviceVars
  <1>1. CASE ServiceStep \/ EventStep \/ (Service!Finished /\ UNCHANGED routerVars)
    BY <1>1 DEF ServiceStep, EventStep, Service!Next
  <1>2. CASE ProviderStep \/ CallerStep
    <2>1. [Port!Next]_Port!vars /\ UNCHANGED serviceVars
      BY <1>2, RouterView, StepPort DEF ProviderStep, CallerStep
    <2>2. CASE Port!CallerLeaves
      BY <2>1, <2>2, SamePorts DEF Service!Next, Service!CallerLeaves
    <2>3. CASE Port!CallVendor \/ Port!Complete \/ Port!Fail
      <3>1. stage = "provider"
        <4>1. CASE ProviderStep
          BY <4>1 DEF ProviderStep
        <4>2. CASE CallerStep
          <5>1. parent' # parent /\ UNCHANGED <<calls, result>>
            BY <4>2 DEF CallerStep, ParentDies, locals, history, ContextErrors
          <5> QED
            BY <2>3, <5>1 DEF Port!CallVendor, Port!Complete, Port!Fail
        <4> QED
          BY <1>2, <4>1, <4>2
      <3> QED
        BY <2>1, <2>3, <3>1, SamePorts DEF Service!Next, Service!ProviderStep
    <2>4. CASE UNCHANGED Port!vars
      BY <2>1, <2>4 DEF Port!vars
    <2> QED
      BY <2>1, <2>2, <2>3, <2>4 DEF Port!Next
  <1>3. CASE UNCHANGED gatewayVars
    BY <1>3 DEF gatewayVars, vars, locals, history
  <1> QED
    BY <1>1, <1>2, <1>3 DEF GatewayNext

\* With the router of NewProviderRouter behind it, in any configuration,
\* Service.Complete behaves as over the abstract Provider port.
THEOREM GatewayImplementsService == GatewaySpec => GatewayIsAService
  <1> QED
    BY InitService, StepService, RouterInvariantInGateway, PTL
    DEF GatewaySpec, GatewayIsAService, Service!Spec

-----------------------------------------------------------------------------
(* What is proved of the service holds of it over the router.              *)

ServiceProofs == INSTANCE GatewayServiceProofs WITH
                   ctx        <- parent,
                   outcome    <- result,
                   Vendors    <- 1 .. ProviderLimit,
                   CallBudget <- Attempts * ProviderLimit

\* The proofs' service and the gateway's are two instances of one module.
LEMMA SameServiceNext == ServiceProofs!Next <=> Service!Next
  <1>1. ServiceProofs!RejectPreflight <=> Service!RejectPreflight
    BY DEF Service!RejectPreflight, ServiceProofs!RejectPreflight, Service!FailWith,
       ServiceProofs!FailWith, Service!portVars, ServiceProofs!portVars, Service!Preflight,
       ServiceProofs!Preflight
  <1>2. ServiceProofs!PassPreflight <=> Service!PassPreflight
    BY DEF Service!PassPreflight, ServiceProofs!PassPreflight, Service!portVars,
       ServiceProofs!portVars
  <1>3. ServiceProofs!RejectDeadCaller <=> Service!RejectDeadCaller
    BY DEF Service!RejectDeadCaller, ServiceProofs!RejectDeadCaller, Service!FailWith,
       ServiceProofs!FailWith, Service!portVars, ServiceProofs!portVars
  <1>4. ServiceProofs!InvokeProvider <=> Service!InvokeProvider
    BY DEF Service!InvokeProvider, ServiceProofs!InvokeProvider, Service!portVars,
       ServiceProofs!portVars
  <1>5. ServiceProofs!ProviderFailed <=> Service!ProviderFailed
    BY DEF Service!ProviderFailed, ServiceProofs!ProviderFailed, Service!Reported,
       ServiceProofs!Reported, Service!FailWith, ServiceProofs!FailWith, Service!portVars,
       ServiceProofs!portVars, Service!Port!Pending, ServiceProofs!Port!Pending,
       Service!NilError, ServiceProofs!NilError, Service!Port!NilError,
       ServiceProofs!Port!NilError, Service!Port!NoUsage, ServiceProofs!Port!NoUsage
  <1>6. ServiceProofs!ProviderCompleted <=> Service!ProviderCompleted
    BY DEF Service!ProviderCompleted, ServiceProofs!ProviderCompleted, Service!Reported,
       ServiceProofs!Reported, Service!portVars, ServiceProofs!portVars, Service!Port!Pending,
       ServiceProofs!Port!Pending, Service!NilError, ServiceProofs!NilError,
       Service!Port!NilError, ServiceProofs!Port!NilError, Service!Port!NoUsage,
       ServiceProofs!Port!NoUsage
  <1>v. \A u : ServiceProofs!Validates(u) <=> Service!Validates(u)
    BY DEF Service!Validates, ServiceProofs!Validates, Service!Plus, ServiceProofs!Plus
  <1>d. \A v, s, k, r : ServiceProofs!FinishDecode(v, s, k, r) <=> Service!FinishDecode(v, s, k, r)
    BY <1>v DEF Service!FinishDecode, ServiceProofs!FinishDecode, Service!PublishUsageEventAsync,
       ServiceProofs!PublishUsageEventAsync, Service!portVars, ServiceProofs!portVars
  <1>7. ServiceProofs!RejectOutput <=> Service!RejectOutput
    BY <1>d DEF Service!RejectOutput, ServiceProofs!RejectOutput
  <1>8. ServiceProofs!AcceptOutput <=> Service!AcceptOutput
    BY <1>d DEF Service!AcceptOutput, ServiceProofs!AcceptOutput
  <1>9. ServiceProofs!DeliverEvent <=> Service!DeliverEvent
    BY DEF Service!DeliverEvent, ServiceProofs!DeliverEvent, Service!portVars,
       ServiceProofs!portVars
  <1>10. ServiceProofs!ProviderStep <=> Service!ProviderStep
    BY DEF Service!ProviderStep, ServiceProofs!ProviderStep, Service!serviceVars,
       ServiceProofs!serviceVars, Service!Port!CallVendor, ServiceProofs!Port!CallVendor,
       Service!Port!Complete, ServiceProofs!Port!Complete, Service!Port!Fail,
       ServiceProofs!Port!Fail, Service!Port!Pending, ServiceProofs!Port!Pending,
       Service!Port!NilError, ServiceProofs!Port!NilError, Service!Port!NoUsage,
       ServiceProofs!Port!NoUsage, Service!Port!Errors, ServiceProofs!Port!Errors,
       Service!Port!Links, ServiceProofs!Port!Links, Service!Port!ProviderFailureKinds,
       ServiceProofs!Port!ProviderFailureKinds, Service!Port!TransientKinds,
       ServiceProofs!Port!TransientKinds, Service!Port!TerminalKinds,
       ServiceProofs!Port!TerminalKinds, Service!Port!ContextErrors,
       ServiceProofs!Port!ContextErrors
  <1>11. ServiceProofs!CallerLeaves <=> Service!CallerLeaves
    BY DEF Service!CallerLeaves, ServiceProofs!CallerLeaves, Service!Port!CallerLeaves,
       ServiceProofs!Port!CallerLeaves, Service!Port!ContextErrors,
       ServiceProofs!Port!ContextErrors, Service!serviceVars, ServiceProofs!serviceVars
  <1>12. ServiceProofs!Finished <=> Service!Finished
    BY DEF Service!Finished, ServiceProofs!Finished, Service!vars, ServiceProofs!vars,
       Service!portVars, ServiceProofs!portVars, Service!serviceVars, ServiceProofs!serviceVars
  <1> QED
    BY <1>1, <1>2, <1>3, <1>4, <1>5, <1>6, <1>7, <1>8, <1>9, <1>10, <1>11, <1>12 DEF
       Service!Next, ServiceProofs!Next, Service!CompleteStep, ServiceProofs!CompleteStep

LEMMA SameServiceSpec == Service!Spec => ServiceProofs!Spec
  <1>1. Service!Init => ServiceProofs!Init
    BY DEF Service!Init, ServiceProofs!Init, Service!Port!Init, ServiceProofs!Port!Init,
       Service!Port!Pending, ServiceProofs!Port!Pending, Service!NilError, ServiceProofs!NilError,
       Service!Port!NilError, ServiceProofs!Port!NilError, Service!NoUsage, ServiceProofs!NoUsage,
       Service!Port!NoUsage, ServiceProofs!Port!NoUsage, Service!NoEvent, ServiceProofs!NoEvent,
       Service!Defects, ServiceProofs!Defects, Service!Preflight, ServiceProofs!Preflight
  <1>2. [Service!Next]_Service!vars => [ServiceProofs!Next]_ServiceProofs!vars
    BY SameServiceNext DEF Service!vars, ServiceProofs!vars, Service!portVars,
       ServiceProofs!portVars, Service!serviceVars, ServiceProofs!serviceVars
  <1> QED
    BY <1>1, <1>2, PTL DEF Service!Spec, ServiceProofs!Spec

\* The configuration that NewProviderRouter normalises is one the service may have.
LEMMA ServiceAssumptions ==
  /\ 1 .. ProviderLimit \subseteq Nat \ {0} /\ Attempts * ProviderLimit \in Nat
  /\ VendorUsages \subseteq ServiceProofs!Usages
  /\ PublisherConfigured \in BOOLEAN
  /\ MaxInt \in Nat \ {0}
  BY ConfigurationType, VendorUsagesAssumption, GatewayAssumption, MaxIntAssumption
  DEF Usages, ServiceProofs!Usages, MachineInt, ServiceProofs!MachineInt

\* What Service.Complete promises of a request, whatever provider is behind it.
ServicePromises ==
  /\ Service!TypeOK /\ Service!NoEventWithoutACall /\ Service!PreflightVerdictsAreFree
  /\ Service!AuditedAttempts /\ Service!TrustedResult /\ Service!EventAgreesWithMetadata
  /\ Service!PublishedUsageIsExact

\* The invariant proved of the service says so in the gateway's own words.
LEMMA SamePromises == ServiceProofs!SInv => ServicePromises
  <1>1. ServiceProofs!TypeOK <=> Service!TypeOK
    BY DEF Service!TypeOK, ServiceProofs!TypeOK, Service!Stages, ServiceProofs!Stages,
       Service!Statuses, ServiceProofs!Statuses, Service!Kinds, ServiceProofs!Kinds,
       Service!NoUsage, ServiceProofs!NoUsage, Service!NoEvent, ServiceProofs!NoEvent,
       Service!Defects, ServiceProofs!Defects, Service!Preflight, ServiceProofs!Preflight
  <1>2. /\ ServiceProofs!NoEventWithoutACall <=> Service!NoEventWithoutACall
        /\ ServiceProofs!PreflightVerdictsAreFree <=> Service!PreflightVerdictsAreFree
        /\ ServiceProofs!AuditedAttempts <=> Service!AuditedAttempts
    BY DEF Service!NoEventWithoutACall, ServiceProofs!NoEventWithoutACall,
       Service!PreflightVerdictsAreFree, ServiceProofs!PreflightVerdictsAreFree,
       Service!AuditedAttempts, ServiceProofs!AuditedAttempts
  <1>3. ServiceProofs!TrustedResult <=> Service!TrustedResult
    BY DEF Service!TrustedResult, ServiceProofs!TrustedResult, Service!NilError, ServiceProofs!NilError,
       Service!Port!Pending, ServiceProofs!Port!Pending, Service!Port!NilError,
       ServiceProofs!Port!NilError, Service!Port!NoUsage, ServiceProofs!Port!NoUsage
  <1>4. ServiceProofs!EventAgreesWithMetadata <=> Service!EventAgreesWithMetadata
    BY DEF Service!EventAgreesWithMetadata, ServiceProofs!EventAgreesWithMetadata,
       Service!NoEvent, ServiceProofs!NoEvent
  <1>5. ServiceProofs!PublishedUsageIsExact <=> Service!PublishedUsageIsExact
    BY DEF Service!PublishedUsageIsExact, ServiceProofs!PublishedUsageIsExact, Service!NoEvent,
       ServiceProofs!NoEvent, Service!IsExact, ServiceProofs!IsExact
  <1> QED
    BY <1>1, <1>2, <1>3, <1>4, <1>5 DEF ServiceProofs!SInv, ServicePromises

\* The gateway that main.go wires keeps every promise of Service.Complete, whatever
\* the router's configuration: a bill only for a call, the truth about its
\* attempts and usage, a result only through the trust boundary.
THEOREM GatewayKeepsPromises == GatewaySpec => []ServicePromises
  <1>1. ServiceProofs!Spec => []ServiceProofs!SInv
    BY ServiceAssumptions, ServiceProofs!ServiceInvariant
  <1> QED
    BY <1>1, SamePromises, SameServiceSpec, GatewayImplementsService, PTL DEF GatewayIsAService

-----------------------------------------------------------------------------
(* The caller's own reason, through both layers.                           *)

LEMMA InitGInv == GatewayInit => GInv
  <1> SUFFICES ASSUME GatewayInit PROVE GInv
    OBVIOUS
  <1>1. IInv
    BY InitIInv DEF GatewayInit
  <1>2. MetadataType
    BY ConfigurationType, SameServiceErrors
    DEF GatewayInit, Service!Init, MetadataType, Service!Statuses, Service!Kinds
  <1>3. Nesting /\ Reasons
    BY DEF GatewayInit, Init, Service!Init, Nesting, Reasons, Over
  <1> QED
    BY <1>1, <1>2, <1>3 DEF GInv

\* FailWith on metadata of the right type ends the request with its kind.
LEMMA FailWithFacts ==
  ASSUME NEW m \in [status : Service!Statuses, kind : Service!Kinds,
                    validation : {"not_run", "passed", "failed"},
                    provider : 0 .. ProviderLimit, attempts : Nat,
                    usage : VendorUsages \cup {NoUsage}],
         NEW kind \in Service!Kinds, NEW status \in Service!Statuses,
         Service!FailWith(m, kind, status)
  PROVE  MetadataType' /\ metadata'.kind = kind /\ Over'
  BY DEF Service!FailWith, MetadataType, Over

\* What the service copies from the router's result.
LEMMA ServiceReportedType ==
  ASSUME GInv
  PROVE  Service!Reported \in [status : Service!Statuses, kind : Service!Kinds,
                              validation : {"not_run", "passed", "failed"},
                              provider : 0 .. ProviderLimit, attempts : Nat,
                              usage : VendorUsages \cup {NoUsage}]
  BY DEF GInv, IInv, TypeOK, MetadataType, Service!Reported

LEMMA StepGInv == GInv /\ [GatewayNext]_gatewayVars => GInv'
  <1> SUFFICES ASSUME GInv, [GatewayNext]_gatewayVars PROVE GInv'
    OBVIOUS
  <1>0. IInv'
    BY RouterView, StepIInv DEF GInv
  <1>k. /\ {"none", "request_canceled", "deadline_exceeded", "provider_unavailable",
             "validation_failed"} \subseteq Service!Kinds
        /\ {"request_canceled", "deadline_exceeded", "provider_failed", "validation_failed",
             "succeeded"} \subseteq Service!Statuses
    BY DEF Service!Kinds, Service!Statuses
  <1> USE DEF routerVars, Service!portVars
  <1>1. CASE Service!RejectPreflight /\ UNCHANGED routerVars
    <2>1. PICK i \in DOMAIN Service!Preflight :
            /\ Service!Preflight[i].defect \in defects
            /\ Service!Preflight[i].kind \in Service!Kinds
            /\ Service!Preflight[i].status \in Service!Statuses
            /\ Service!FailWith(metadata, Service!Preflight[i].kind, Service!Preflight[i].status)
      BY <1>1 DEF Service!RejectPreflight, Service!Preflight, Service!Kinds, Service!Statuses
    <2>2. MetadataType' /\ Over'
      BY <2>1, FailWithFacts DEF GInv, MetadataType
    <2>3. Nesting' /\ Reasons'
      BY <1>1, <2>1, <2>2 DEF Service!RejectPreflight, Nesting, Reasons, Over
    <2> QED
      BY <1>0, <2>2, <2>3 DEF GInv
  <1>2. CASE Service!PassPreflight /\ UNCHANGED routerVars
    BY <1>0, <1>2 DEF Service!PassPreflight, GInv, MetadataType, Nesting, Reasons, Over
  <1>3. CASE Service!RejectDeadCaller /\ UNCHANGED routerVars
    <2>1. /\ stage = "context" /\ ~ParentAlive /\ calls = 0
          /\ UNCHANGED <<parent, attemptCtx, pc, calls, lateCalls, result, defects, deadAtReturn>>
      BY <1>3 DEF Service!RejectDeadCaller, ParentAlive, GInv, Nesting
    <2>2. Service!FailWith(metadata, CallersKind, CallersKind)
      BY <1>3 DEF Service!RejectDeadCaller, CallersKind
    <2>3. CallersKind \in Service!Kinds /\ CallersKind \in Service!Statuses
      BY <1>k DEF CallersKind
    <2>4. MetadataType' /\ metadata'.kind = CallersKind /\ Over'
      BY <2>2, <2>3, FailWithFacts DEF GInv, MetadataType
    <2>5. Nesting' /\ Reasons'
      BY <2>1, <2>4 DEF Nesting, Reasons, Over, ParentAlive, CallersKind
    <2> QED
      BY <1>0, <2>4, <2>5 DEF GInv
  <1>4. CASE Service!InvokeProvider /\ UNCHANGED routerVars
    BY <1>0, <1>4 DEF Service!InvokeProvider, GInv, MetadataType, Nesting, Reasons, Over
  <1>5. CASE Service!ProviderFailed /\ UNCHANGED routerVars
    <2>1. /\ stage = "provider" /\ result # Port!Pending
          /\ UNCHANGED <<parent, attemptCtx, pc, calls, lateCalls, result, defects>>
      BY <1>5, SamePorts DEF Service!ProviderFailed
    <2>2. pc = "done"
      BY <2>1, PendingUntilDone DEF GInv
    <2>3. \/ /\ Service!FailWith(Service!Reported, "request_canceled", "request_canceled")
             /\ "canceled" \in result.err
          \/ /\ Service!FailWith(Service!Reported, "deadline_exceeded", "deadline_exceeded")
             /\ "canceled" \notin result.err /\ "deadline" \in result.err
          \/ /\ Service!FailWith(Service!Reported, "provider_unavailable", "provider_failed")
             /\ "canceled" \notin result.err /\ "deadline" \notin result.err
      <3>1. CASE "canceled" \in result.err
        BY <1>5, <3>1 DEF Service!ProviderFailed
      <3>2. CASE "canceled" \notin result.err /\ "deadline" \in result.err
        BY <1>5, <3>2 DEF Service!ProviderFailed
      <3>3. CASE "canceled" \notin result.err /\ "deadline" \notin result.err
        BY <1>5, <3>3 DEF Service!ProviderFailed
      <3> QED
        BY <3>1, <3>2, <3>3
    <2>4. /\ MetadataType' /\ Over'
          /\ "canceled" \in result.err => metadata'.kind = "request_canceled"
          /\ "canceled" \notin result.err /\ "deadline" \in result.err =>
               metadata'.kind = "deadline_exceeded"
      BY <1>k, <2>3, ServiceReportedType, FailWithFacts
    <2>5. Nesting' /\ Reasons'
      BY <2>1, <2>2, <2>4 DEF Nesting, Reasons, Over
    <2> QED
      BY <1>0, <2>4, <2>5 DEF GInv
  <1>6. CASE Service!ProviderCompleted /\ UNCHANGED routerVars
    <2>1. /\ stage = "provider" /\ stage' = "decode" /\ result # Port!Pending
          /\ result.err = NilError
          /\ metadata' = Service!Reported
          /\ UNCHANGED <<parent, attemptCtx, pc, calls, lateCalls, result, defects>>
      BY <1>6, SamePorts, SameServiceErrors DEF Service!ProviderCompleted
    <2>2. pc = "done"
      BY <2>1, PendingUntilDone DEF GInv
    <2>3. MetadataType'
      BY <2>1, ServiceReportedType DEF MetadataType
    <2> QED
      BY <1>0, <2>1, <2>2, <2>3 DEF GInv, Nesting, Reasons, Over
  <1>7. CASE (Service!RejectOutput \/ Service!AcceptOutput) /\ UNCHANGED routerVars
    <2>1. /\ stage = "decode" /\ stage' = "done"
          /\ UNCHANGED <<parent, attemptCtx, pc, calls, lateCalls, result, defects>>
      BY <1>7 DEF Service!RejectOutput, Service!AcceptOutput, Service!FinishDecode
    <2>2. pc = "done" /\ result.err = NilError
      BY <2>1 DEF GInv, Nesting
    <2>3. MetadataType'
      <3>1. PICK v \in {"failed", "passed"}, t \in Service!Statuses, k \in Service!Kinds :
              metadata' = [metadata EXCEPT !.validation = v, !.status = t, !.kind = k]
        BY <1>7, <1>k DEF Service!RejectOutput, Service!AcceptOutput, Service!FinishDecode
      <3> QED
        BY <3>1 DEF GInv, MetadataType
    <2>4. Nesting' /\ Reasons'
      BY <2>1, <2>2 DEF Nesting, Reasons, Over, NilError
    <2> QED
      BY <1>0, <2>3, <2>4 DEF GInv
  <1>8. CASE EventStep
    BY <1>0, <1>8 DEF EventStep, Service!DeliverEvent, GInv, MetadataType, Nesting, Reasons, Over,
       ParentAlive, CallersKind
  <1>9. CASE ProviderStep
    BY <1>0, <1>9 DEF ProviderStep, serviceVars, GInv, MetadataType, Nesting, Reasons, Over
  <1>10. CASE CallerStep
    <2>1. /\ ParentAlive /\ ~ParentAlive'
          /\ UNCHANGED <<pc, calls, result, deadAtReturn, stage, defects, metadata, returned>>
      BY <1>10 DEF CallerStep, ParentDies, ParentAlive, locals, history, ContextErrors, serviceVars
    <2>2. MetadataType' /\ Nesting'
      BY <2>1 DEF GInv, MetadataType, Nesting
    <2>3. Reasons'
      BY <2>1 DEF GInv, Reasons, Over
    <2> QED
      BY <1>0, <2>2, <2>3 DEF GInv
  <1>11. CASE UNCHANGED gatewayVars
    BY <1>0, <1>11 DEF gatewayVars, vars, locals, history, serviceVars, GInv, MetadataType, Nesting,
       Reasons, Over, ParentAlive, CallersKind
  <1>12. CASE Service!Finished /\ UNCHANGED routerVars
    BY <1>0, <1>12 DEF Service!Finished, Service!vars, Service!serviceVars, GInv, MetadataType,
       Nesting, Reasons, Over, ParentAlive, CallersKind
  <1> QED
    BY <1>1, <1>2, <1>3, <1>4, <1>5, <1>6, <1>7, <1>8, <1>9, <1>10, <1>11, <1>12
    DEF GatewayNext, ServiceStep, Service!CompleteStep

THEOREM GatewayInvariant == GatewaySpec => []GInv
  <1> QED
    BY InitGInv, StepGInv, PTL DEF GatewaySpec

\* In every configuration, and whatever vendors answer, a request whose caller
\* was gone is reported with that caller's own reason.
THEOREM CallerReasonReported == GatewaySpec => []CallerReasonIsReported
  <1>1. GInv => CallerReasonIsReported
    <2> SUFFICES ASSUME GInv, Over, defects = {}, calls = 0 \/ (deadAtReturn /\ raw # NilError)
                 PROVE  metadata.kind = CallersKind
      BY DEF CallerReasonIsReported, CallersKind
    <2>1. CASE calls = 0 /\ metadata.kind = CallersKind
      BY <2>1
    <2>2. CASE pc = "done"
      <3>1. result.err = {parent} /\ ~ParentAlive
        BY <2>2 DEF GInv, IInv, LastAnswer, Departure
      <3>2. parent \in {"canceled", "deadline"}
        BY <3>1 DEF GInv, IInv, TypeOK, ParentAlive, ContextErrors
      <3>3. \/ calls = 0 /\ metadata.kind = CallersKind
            \/ /\ "canceled" \in result.err => metadata.kind = "request_canceled"
               /\ "canceled" \notin result.err /\ "deadline" \in result.err =>
                    metadata.kind = "deadline_exceeded"
        BY DEF GInv, Reasons
      <3>4. CASE parent = "canceled"
        BY <3>1, <3>3, <3>4 DEF CallersKind
      <3>5. CASE parent = "deadline"
        BY <3>1, <3>3, <3>5 DEF CallersKind
      <3> QED
        BY <3>2, <3>4, <3>5
    <2> QED
      BY <2>1, <2>2 DEF GInv, Reasons
  <1> QED
    BY <1>1, GatewayInvariant, PTL

-----------------------------------------------------------------------------
(* A cancellation is the caller's.                                         *)

\* A vendor does not report a cancellation that is not its context's.
VendorsDoNotCancel == \A e \in VendorFailures : "canceled" \notin e

\* Wherever a cancellation shows, the caller canceled.
Cancellation ==
  /\ attemptCtx = "canceled" => parent = "canceled"
  /\ "canceled" \in err => parent = "canceled"
  /\ "canceled" \in result.err => parent = "canceled"

KindIsCancellation == metadata.kind = "request_canceled" => parent = "canceled"

LEMMA StepCancellation ==
  ASSUME VendorsDoNotCancel, IInv, Cancellation, [Next]_vars
  PROVE  Cancellation'
  <1> USE DEF Cancellation, vars, locals, history
  <1>1. ASSUME NEW e \in ContextErrors, ParentDies(e) PROVE Cancellation'
    BY <1>1 DEF ParentDies
  <1>2. CASE AnyAnswer
    <2>1. PICK e, u : VendorAnswers(e, u)
      BY <1>2 DEF AnyAnswer
    <2>2. "canceled" \in e => attemptCtx = "canceled"
      BY <2>1 DEF VendorAnswers, VendorsDoNotCancel, NilError
    <2> QED
      BY <2>1, <2>2 DEF VendorAnswers
  <1>3. CASE ClassifyFailure
    BY <1>3 DEF ClassifyFailure, WrapError, AttemptTimeoutError
  <1>4. CASE BeginAttempt \/ ReadAttemptErr \/ AttemptTimerFires
    BY <1>4 DEF BeginAttempt, ReadAttemptErr, AttemptTimerFires
  <1>5. CASE CallerGone \/ SleepInterrupted
    BY <1>5 DEF CallerGone, SleepInterrupted
  <1>6. CASE Succeed \/ PreflightRejects \/ Exhausted \/ CallerGoneOuter \/ NoFallback
    BY <1>6 DEF Succeed, PreflightRejects, Exhausted, CallerGoneOuter, NoFallback, Fail, Deliver,
       NilError
  <1>7. CASE LeaveVendor \/ Retry \/ SleepElapses \/ EnterVendor \/ Fallback \/ UNCHANGED vars
    BY <1>7 DEF LeaveVendor, Retry, SleepElapses, EnterVendor, Fallback
  <1> QED
    BY <1>1, <1>2, <1>3, <1>4, <1>5, <1>6, <1>7 DEF Next, RouterStep, Returned

LEMMA StepKind ==
  ASSUME GInv, Cancellation, KindIsCancellation, [GatewayNext]_gatewayVars
  PROVE  KindIsCancellation'
  <1> USE DEF KindIsCancellation, Service!portVars
  <1>1. CASE metadata'.kind = metadata.kind
    <2>1. parent = "canceled" => parent' = "canceled"
      BY RouterView DEF Next, RouterStep, Returned, vars, locals, history,
         ParentDies, AnyAnswer, VendorAnswers, AttemptTimerFires, BeginAttempt, ReadAttemptErr,
         Succeed, ClassifyFailure, CallerGone, LeaveVendor, Retry, SleepElapses, SleepInterrupted,
         PreflightRejects, EnterVendor, Exhausted, CallerGoneOuter, NoFallback, Fallback
    <2> QED
      BY <1>1, <2>1
  <1>2. CASE Service!RejectPreflight
    <2>1. PICK i \in DOMAIN Service!Preflight :
            /\ Service!Preflight[i].kind # "request_canceled"
            /\ Service!FailWith(metadata, Service!Preflight[i].kind, Service!Preflight[i].status)
      BY <1>2 DEF Service!RejectPreflight, Service!Preflight
    <2> QED
      BY <2>1 DEF Service!FailWith, GInv, MetadataType
  <1>3. CASE Service!RejectDeadCaller
    BY <1>3 DEF Service!RejectDeadCaller, Service!FailWith, GInv, MetadataType
  <1>4. CASE Service!ProviderFailed
    <2>1. CASE "canceled" \in result.err
      BY <1>4, <2>1 DEF Service!ProviderFailed, Cancellation
    <2>2. CASE "canceled" \notin result.err /\ "deadline" \in result.err
      <3>1. Service!FailWith(Service!Reported, "deadline_exceeded", "deadline_exceeded")
        BY <1>4, <2>2 DEF Service!ProviderFailed
      <3> QED
        BY <3>1, ServiceReportedType DEF Service!FailWith
    <2>3. CASE "canceled" \notin result.err /\ "deadline" \notin result.err
      <3>1. Service!FailWith(Service!Reported, "provider_unavailable", "provider_failed")
        BY <1>4, <2>3 DEF Service!ProviderFailed
      <3> QED
        BY <3>1, ServiceReportedType DEF Service!FailWith
    <2> QED
      BY <2>1, <2>2, <2>3
  <1>5. CASE Service!RejectOutput \/ Service!AcceptOutput
    BY <1>5 DEF Service!RejectOutput, Service!AcceptOutput, Service!FinishDecode, GInv, MetadataType
  <1>6. CASE Service!ProviderCompleted
    BY <1>1, <1>6 DEF Service!ProviderCompleted, Service!Reported, GInv, MetadataType
  <1>7. CASE \/ Service!PassPreflight \/ Service!InvokeProvider \/ EventStep \/ ProviderStep
             \/ CallerStep \/ Service!Finished \/ UNCHANGED gatewayVars
    BY <1>1, <1>7 DEF Service!PassPreflight, Service!InvokeProvider, EventStep, Service!DeliverEvent,
       ProviderStep, CallerStep, Service!Finished, Service!vars, Service!serviceVars, serviceVars,
       gatewayVars
  <1> QED
    BY <1>2, <1>3, <1>4, <1>5, <1>6, <1>7 DEF GatewayNext, ServiceStep, Service!CompleteStep

\* If no vendor invents a cancellation, "request_canceled" is only ever reported to
\* a caller that canceled, in every configuration: the cancel() that releases an
\* attempt's context never shows.
THEOREM CancellationReported ==
  ASSUME VendorsDoNotCancel
  PROVE  GatewaySpec => []CancellationIsTheCallers
  <1>1. GatewayInit => Cancellation /\ KindIsCancellation
    BY DEF GatewayInit, Init, Service!Init, Cancellation, KindIsCancellation, NilError
  <1>2. GInv /\ Cancellation /\ KindIsCancellation /\ [GatewayNext]_gatewayVars
          => Cancellation' /\ KindIsCancellation'
    BY RouterView, StepCancellation, StepKind DEF GInv
  <1>3. KindIsCancellation => CancellationIsTheCallers
    BY DEF KindIsCancellation, CancellationIsTheCallers
  <1> QED
    BY <1>1, <1>2, <1>3, GatewayInvariant, PTL DEF GatewaySpec
=============================================================================
