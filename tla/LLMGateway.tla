----------------------------- MODULE LLMGateway -----------------------------
(***************************************************************************)
(* The gateway as cmd/llm-gateway/main.go wires it: Service.Complete over  *)
(* the ProviderRouter.  The service runs its stages over the router's      *)
(* context and result; the router runs while stage 6 waits for it.         *)
(***************************************************************************)
EXTENDS ProviderRouter

CONSTANT PublisherConfigured

ASSUME GatewayAssumption == PublisherConfigured \in BOOLEAN

VARIABLES stage, defects, metadata, returned, attempted, event

serviceVars == <<stage, defects, metadata, returned, attempted, event>>
routerVars  == <<attemptCtx, pc, provider, attempt, total, err, attemptErr,
                 raw, usage, deadAtReturn>>
gatewayVars == <<vars, serviceVars>>

Service == INSTANCE GatewayService WITH
             ctx        <- parent,
             outcome    <- result,
             Vendors    <- 1 .. ProviderLimit,
             CallBudget <- Attempts * ProviderLimit

GatewayInit == Init /\ Service!Init

\* Service.Complete outside the provider call, and its event's goroutine.
ServiceStep == Service!CompleteStep /\ UNCHANGED routerVars
EventStep   == Service!DeliverEvent /\ UNCHANGED routerVars

\* The provider call: the router, its timer and its vendors.
ProviderStep ==
  /\ stage = "provider"
  /\ RouterStep \/ AttemptTimerFires \/ AnyAnswer
  /\ UNCHANGED serviceVars

CallerStep == (\E e \in ContextErrors : ParentDies(e)) /\ UNCHANGED serviceVars

GatewayNext ==
  \/ ServiceStep
  \/ EventStep
  \/ ProviderStep
  \/ CallerStep
  \/ Service!Finished /\ UNCHANGED routerVars

GatewaySpec == GatewayInit /\ [][GatewayNext]_gatewayVars

\* As in the components: goroutines run, timers fire, and a vendor whose
\* context is dead returns.
GatewayFairness ==
  /\ WF_gatewayVars(ServiceStep)
  /\ WF_gatewayVars(EventStep)
  /\ WF_gatewayVars(ProviderStep /\ RouterStep)
  /\ WF_gatewayVars(ProviderStep /\ AttemptTimerFires)
  /\ WF_gatewayVars(ProviderStep /\ attemptCtx # "live" /\ AnyAnswer)

GatewayFairSpec == GatewaySpec /\ GatewayFairness

-----------------------------------------------------------------------------
(* Properties.                                                             *)

Over == stage = "done"

\* With the router behind it the service behaves as over the abstract
\* provider: what is checked of GatewayService holds of the gateway.
GatewayIsAService == Service!Spec

\* The gateway reports a cancellation only to a caller that canceled: the
\* cancel() that releases every attempt's context is never taken for one.
CancellationIsTheCallers ==
  Over /\ metadata.kind = "request_canceled" => parent = "canceled"

\* A valid request that reached no vendor, or whose caller was gone when the last
\* vendor call failed, is reported with the caller's own reason through both
\* layers, and never as a vendor's failure.
CallerReasonIsReported ==
  Over /\ defects = {} /\ (calls = 0 \/ (deadAtReturn /\ raw # NilError)) =>
    metadata.kind = IF parent = "canceled" THEN "request_canceled" ELSE "deadline_exceeded"

\* A request is answered, however long vendors hang, when attempts are limited
\* in time.
RequestIsAnswered == AttemptTimeout => <>Over

-----------------------------------------------------------------------------
(* What the documents say and the code does not do.                        *)

\* domain/errors.go: deadline_exceeded means that the caller's deadline, or the
\* command's, expired, "distinct from a vendor-side timeout".
DeadlineIsTheCallers ==
  Over /\ metadata.kind = "deadline_exceeded" => parent = "deadline"

\* LLM_Gateway_SystemDesign.md: provider invocation means that a usage event is
\* attempted, even when the provider fails.
EveryCallIsMetered == Over /\ metadata.status = "provider_failed" => attempted

\* service.go: the usage a vendor reports is copied before its error is looked at,
\* because a failed call may have burned tokens, so that billing and analytics
\* see ground truth wherever the request ends.
UsageIsGroundTruth == Over /\ calls > 0 => metadata.usage = usage
=============================================================================
