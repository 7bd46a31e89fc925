--------------------------- MODULE GatewayProcess ---------------------------
(***************************************************************************)
(* The whole of cmd/llm-gateway: the process, which before it serves sends *)
(* one smoke request through the service and the router it has wired, and  *)
(* serves only if that succeeds.  Its /v1/complete is a stub, so the smoke *)
(* request is the only one the service ever sees.                          *)
(*                                                                         *)
(* As in ProviderRouter, X_Y is X with the plausible bug Y.                *)
(***************************************************************************)
EXTENDS LLMGateway

CONSTANTS Clients, SmokeCheck, ForcedShutdownIsFatal, ServesBeforeNotify

ASSUME MainAssumption ==
  {SmokeCheck, ForcedShutdownIsFatal, ServesBeforeNotify} \subseteq BOOLEAN

VARIABLES main, server, serverErrors, signaled, grace, exit, request

mainVars == <<main, server, serverErrors, signaled, grace, exit, request>>
processVars == <<gatewayVars, mainVars>>

Process == INSTANCE ServiceProcess

\* The smoke request is a fixed command that passes every preflight check.
ProcessInit ==
  /\ GatewayInit
  /\ defects = {}
  /\ Process!Init

-----------------------------------------------------------------------------
(* runStartupSmoke.                                                        *)

SmokeStep(A) == main = "smoke" /\ A /\ UNCHANGED mainVars

\* The five seconds of the smoke check's context: nobody else can cancel it.
SmokeTimerFires_NoTimeout == FALSE

SmokeTimerFires == SmokeStep(ParentDies("deadline") /\ UNCHANGED serviceVars)

SmokeSucceeded_AnyAnswer == metadata.provider # 0

\* err == nil and the metadata says "succeeded".
SmokeSucceeded == returned = "result" /\ metadata.status = "succeeded"

ReturnSmoke ==
  /\ Over
  /\ IF SmokeSucceeded THEN Process!SmokePasses ELSE Process!SmokeFails
  /\ UNCHANGED gatewayVars

-----------------------------------------------------------------------------
\* After the smoke check the process goes on without the service.
ServeStep(A) == main # "smoke" /\ A /\ UNCHANGED gatewayVars

SignalStep == Process!SignalArrives /\ UNCHANGED gatewayVars

MainLoop == ServeStep(Process!MainStep)

ClientStep == \E c \in Clients : Process!Connect(c) \/ Process!Serve(c)

ProcessNext ==
  \/ SmokeStep(ServiceStep)
  \/ SmokeStep(ProviderStep)
  \/ SmokeTimerFires
  \/ ReturnSmoke
  \/ MainLoop
  \/ ServeStep(Process!ServerStep)
  \/ ServeStep(Process!GraceExpires)
  \/ ServeStep(ClientStep)
  \/ SignalStep
  \/ ServeStep(Process!Exited)

ProcessSpec == ProcessInit /\ [][ProcessNext]_processVars

\* The goroutines run, the timers of the smoke check and of Shutdown fire, and a
\* vendor whose context is dead returns.  The timers of attempts need not.
ProcessFairness ==
  /\ WF_processVars(SmokeStep(ServiceStep))
  /\ WF_processVars(SmokeStep(ProviderStep /\ RouterStep))
  /\ WF_processVars(SmokeStep(ProviderStep /\ attemptCtx # "live" /\ AnyAnswer))
  /\ WF_processVars(SmokeTimerFires)
  /\ WF_processVars(ReturnSmoke)
  /\ WF_processVars(MainLoop)
  /\ WF_processVars(ServeStep(Process!GraceExpires))

ProcessFairSpec == ProcessSpec /\ ProcessFairness

-----------------------------------------------------------------------------
(* Properties.                                                             *)

ProcessTypeOK == TypeOK /\ Service!TypeOK /\ Process!TypeOK

\* A gateway that makes a smoke check listens only when a vendor really answered
\* through the service it has wired and the answer passed the trust boundary:
\* a broken wiring never gets a client.
OnlyAWorkingGatewayServes ==
  SmokeCheck /\ server \notin {"unborn", "gone"} =>
    /\ result.provider \in 1 .. ProviderLimit /\ raw = NilError
    /\ metadata.validation = "passed"

\* The smoke check ends, however vendors hang and whether or not attempts are
\* limited in time: the process does not hang in startup.
StartupEnds == <>(main # "smoke")

\* The process reports success only after a signal and with every request it
\* accepted served.
SuccessLeavesNobodyBehind == Process!SuccessLeavesNobodyBehind

\* A caught signal ends the process, even under a handler that never returns.
SignalEndsTheProcess == Process!SignalEndsTheProcess
=============================================================================
