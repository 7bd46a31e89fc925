------------------------ MODULE GatewayProcessProofs ------------------------
(***************************************************************************)
(* Theorems about GatewayProcess: what its smoke check and its exit status *)
(* say, for every configuration, with and without the smoke check, and for *)
(* any clients.                                                            *)
(***************************************************************************)
EXTENDS GatewayProcess, LLMGatewayProofs

\* The status "succeeded" stands for a completion that passed the trust boundary.
Success ==
  metadata.status = "succeeded" =>
    pc = "done" /\ result.err = NilError /\ metadata.validation = "passed"

\* Beyond the smoke check the smoke request has succeeded.
Smoked ==
  /\ main = "smoke" => server = "unborn"
  /\ main = "exited" => server = "gone"
  /\ SmokeCheck /\ main \notin {"smoke", "exited"} => metadata.status = "succeeded"

\* Only a signal leads to a shutdown, which cuts nobody while it lasts, and
\* nothing but a shutdown closes the server.
Orderly ==
  /\ main \in {"smoke", "booting", "waiting", "draining", "shutdown", "exited"}
  /\ request \in [Clients -> {"none", "active", "served", "cut"}]
  /\ main \in {"draining", "shutdown"} => signaled
  /\ serverErrors = "closed" => main \in {"shutdown", "exited"}
  /\ main # "exited" => exit = "none" /\ \A c \in Clients : request[c] # "cut"
  /\ SuccessLeavesNobodyBehind

-----------------------------------------------------------------------------
\* A step of the process is one of the service, or leaves the service alone; and
\* one of the process around it, or leaves that alone.
LEMMA GatewayView == [ProcessNext]_processVars => [GatewayNext]_gatewayVars
  <1> SUFFICES ASSUME [ProcessNext]_processVars PROVE [GatewayNext]_gatewayVars
    OBVIOUS
  <1>1. CASE SmokeStep(ServiceStep) \/ SmokeStep(ProviderStep)
    BY <1>1 DEF SmokeStep, GatewayNext
  <1>2. CASE SmokeTimerFires
    BY <1>2 DEF SmokeTimerFires, SmokeStep, GatewayNext, CallerStep, ContextErrors
  <1> QED
    BY <1>1, <1>2 DEF ProcessNext, ReturnSmoke, MainLoop, ServeStep, SignalStep, processVars

LEMMA MainView == [ProcessNext]_processVars => [Process!Next]_mainVars
  <1> SUFFICES ASSUME [ProcessNext]_processVars PROVE [Process!Next]_mainVars
    OBVIOUS
  <1>1. CASE ServeStep(ClientStep)
    BY <1>1 DEF ServeStep, ClientStep, Process!Next
  <1>2. CASE SmokeStep(ServiceStep) \/ SmokeStep(ProviderStep) \/ SmokeTimerFires
    BY <1>2 DEF SmokeStep, SmokeTimerFires
  <1> QED
    BY <1>1, <1>2 DEF ProcessNext, ReturnSmoke, MainLoop, ServeStep, SignalStep, processVars,
       Process!Next, Process!MainStep

-----------------------------------------------------------------------------
(* The smoke check.                                                        *)

LEMMA StepSuccess ==
  ASSUME GInv, Success, [GatewayNext]_gatewayVars
  PROVE  Success'
  <1> USE DEF Success
  <1>1. CASE UNCHANGED metadata
    <2>1. CASE pc = "done"
      <3>1. pc' = "done" /\ result' = result
        BY <2>1, RouterView DEF Next, RouterStep, Returned, vars, locals, history,
           ParentDies, AnyAnswer, VendorAnswers, AttemptTimerFires, BeginAttempt, ReadAttemptErr,
           Succeed, ClassifyFailure, CallerGone, LeaveVendor, Retry, SleepElapses, SleepInterrupted,
           PreflightRejects, EnterVendor, Exhausted, CallerGoneOuter, NoFallback, Fallback
      <3> QED
        BY <1>1, <3>1
    <2> QED
      BY <1>1, <2>1
  <1>2. CASE Service!RejectPreflight
    <2>1. PICK i \in DOMAIN Service!Preflight :
            /\ Service!Preflight[i].status # "succeeded"
            /\ Service!FailWith(metadata, Service!Preflight[i].kind, Service!Preflight[i].status)
      BY <1>2 DEF Service!RejectPreflight, Service!Preflight
    <2> QED
      BY <2>1 DEF Service!FailWith, GInv, MetadataType
  <1>3. CASE Service!RejectDeadCaller
    BY <1>3 DEF Service!RejectDeadCaller, Service!FailWith, GInv, MetadataType
  <1>4. CASE Service!ProviderFailed
    <2>1. \E kind, status : status # "succeeded" /\ Service!FailWith(Service!Reported, kind, status)
      <3>1. CASE "canceled" \in result.err
        BY <1>4, <3>1 DEF Service!ProviderFailed
      <3>2. CASE "canceled" \notin result.err /\ "deadline" \in result.err
        BY <1>4, <3>2 DEF Service!ProviderFailed
      <3>3. CASE "canceled" \notin result.err /\ "deadline" \notin result.err
        BY <1>4, <3>3 DEF Service!ProviderFailed
      <3> QED
        BY <3>1, <3>2, <3>3
    <2> QED
      BY <2>1, ServiceReportedType DEF Service!FailWith
  <1>5. CASE (Service!RejectOutput \/ Service!AcceptOutput) /\ UNCHANGED routerVars
    <2>1. pc' = "done" /\ result'.err = NilError
      BY <1>5 DEF Service!RejectOutput, Service!AcceptOutput, Service!FinishDecode, GInv, Nesting,
         routerVars, Service!portVars
    <2>2. metadata'.status = "succeeded" => metadata'.validation = "passed"
      BY <1>5 DEF Service!RejectOutput, Service!AcceptOutput, Service!FinishDecode, GInv, MetadataType
    <2> QED
      BY <2>1, <2>2
  <1>6. CASE Service!ProviderCompleted /\ UNCHANGED routerVars
    BY <1>6 DEF Service!ProviderCompleted, Service!Reported, GInv, MetadataType, routerVars,
       Service!portVars
  <1>7. CASE \/ Service!PassPreflight \/ Service!InvokeProvider \/ EventStep \/ ProviderStep
             \/ CallerStep \/ Service!Finished \/ UNCHANGED gatewayVars
    BY <1>1, <1>7 DEF Service!PassPreflight, Service!InvokeProvider, EventStep, Service!DeliverEvent,
       ProviderStep, CallerStep, Service!Finished, Service!vars, Service!serviceVars, serviceVars,
       gatewayVars
  <1> QED
    BY <1>2, <1>3, <1>4, <1>5, <1>6, <1>7 DEF GatewayNext, ServiceStep, Service!CompleteStep

LEMMA StepSmoked ==
  ASSUME Smoked, [ProcessNext]_processVars
  PROVE  Smoked'
  <1> USE DEF Smoked, mainVars
  <1>1. CASE SmokeStep(ServiceStep) \/ SmokeStep(ProviderStep) \/ SmokeTimerFires
    BY <1>1 DEF SmokeStep, SmokeTimerFires
  <1>2. CASE ReturnSmoke
    BY <1>2 DEF ReturnSmoke, SmokeSucceeded, Process!SmokePasses, Process!SmokeFails, Process!Exit,
       gatewayVars, Service!serviceVars, serviceVars
  <1>3. CASE /\ UNCHANGED gatewayVars
             /\ \/ main # "smoke" /\ Process!Next
                \/ Process!SignalArrives \/ UNCHANGED mainVars
    BY <1>3 DEF Process!Next, Process!MainStep, Process!ServerStep, Process!SmokePasses,
       Process!SmokeFails, Process!StartServing,
       Process!Notify, Process!ServerFailed, Process!BeginShutdown, Process!CloseListener,
       Process!ShutdownReturns, Process!ShutdownTimesOut, Process!Listen, Process!ServeFails,
       Process!ServeIsClosed, Process!SignalArrives, Process!GraceExpires, Process!Connect,
       Process!Serve, Process!Exited, Process!vars, Process!Exit, Process!Notified,
       gatewayVars, serviceVars
  <1> QED
    BY <1>1, <1>2, <1>3 DEF ProcessNext, MainLoop, ServeStep, ClientStep, SignalStep, processVars,
       Process!Next

\* With the smoke check on, whatever its vendors do, no process that has begun to
\* serve has skipped it or passed it without a trusted answer of a vendor.
THEOREM SmokeCheckGuardsServing == ProcessSpec => []OnlyAWorkingGatewayServes
  <1>1. ProcessInit => GInv /\ Success /\ Smoked
    BY InitGInv DEF ProcessInit, GatewayInit, Service!Init, Process!Init, Success, Smoked
  <1>2. GInv /\ Success /\ Smoked /\ [ProcessNext]_processVars => GInv' /\ Success' /\ Smoked'
    BY GatewayView, StepGInv, StepSuccess, StepSmoked
  <1>3. GInv /\ Success /\ Smoked => OnlyAWorkingGatewayServes
    BY DEF Success, Smoked, OnlyAWorkingGatewayServes, GInv, IInv, LastAnswer
  <1> QED
    BY <1>1, <1>2, <1>3, PTL DEF ProcessSpec

-----------------------------------------------------------------------------
(* The exit status.                                                        *)

LEMMA StepOrderly ==
  ASSUME ForcedShutdownIsFatal, Orderly, [Process!Next]_mainVars
  PROVE  Orderly'
  <1> USE DEF Orderly, SuccessLeavesNobodyBehind, Process!SuccessLeavesNobodyBehind, Process!vars,
          mainVars, Process!Exit
  <1>1. CASE Process!MainStep
    BY <1>1 DEF Process!MainStep, Process!SmokePasses,
       Process!SmokeFails, Process!StartServing,
       Process!Notify, Process!ServerFailed, Process!BeginShutdown, Process!CloseListener,
       Process!ShutdownReturns, Process!ShutdownTimesOut
  <1>2. CASE Process!ServerStep
    BY <1>2 DEF Process!ServerStep, Process!Listen, Process!ServeFails, Process!ServeIsClosed
  <1>3. CASE Process!SignalArrives
    BY <1>3 DEF Process!SignalArrives, Process!Notified
  <1>4. CASE Process!GraceExpires \/ Process!Exited \/ UNCHANGED mainVars
    BY <1>4 DEF Process!GraceExpires, Process!Exited
  <1>5. ASSUME NEW c \in Clients, Process!Connect(c) \/ Process!Serve(c) PROVE Orderly'
    BY <1>5 DEF Process!Connect, Process!Serve
  <1> QED
    BY <1>1, <1>2, <1>3, <1>4, <1>5 DEF Process!Next

\* The llm-gateway process, which takes an expired grace period for a failure,
\* exits with success only after a signal and with every accepted request served.
THEOREM SuccessfulExit ==
  ASSUME ForcedShutdownIsFatal
  PROVE  ProcessSpec => []SuccessLeavesNobodyBehind
  <1>1. ProcessInit => Orderly
    BY DEF ProcessInit, Process!Init, Orderly, SuccessLeavesNobodyBehind,
       Process!SuccessLeavesNobodyBehind
  <1>2. Orderly /\ [ProcessNext]_processVars => Orderly'
    BY MainView, StepOrderly
  <1>3. Orderly => SuccessLeavesNobodyBehind
    BY DEF Orderly
  <1> QED
    BY <1>1, <1>2, <1>3, PTL DEF ProcessSpec
-----------------------------------------------------------------------------
(* The gateway inside the process.                                         *)

\* The smoke request is a request like any other: before, while and after the
\* process serves, the service it wired behaves as over the abstract provider.
THEOREM ProcessRunsAService == ProcessSpec => GatewayIsAService
  <1>1. ProcessInit => GatewayInit
    BY DEF ProcessInit
  <1> QED
    BY <1>1, GatewayView, GatewayImplementsService, PTL DEF ProcessSpec, GatewaySpec

LEMMA StepProcessTypeOK ==
  ASSUME Process!TypeOK, [Process!Next]_mainVars
  PROVE  Process!TypeOK'
  <1> USE DEF Process!TypeOK, Process!vars, mainVars, Process!Exit
  <1>1. CASE Process!MainStep
    BY <1>1 DEF Process!MainStep, Process!SmokePasses,
       Process!SmokeFails, Process!StartServing,
       Process!Notify, Process!ServerFailed, Process!BeginShutdown, Process!CloseListener,
       Process!ShutdownReturns, Process!ShutdownTimesOut
  <1>2. CASE Process!ServerStep
    BY <1>2 DEF Process!ServerStep, Process!Listen, Process!ServeFails, Process!ServeIsClosed
  <1>3. CASE Process!SignalArrives
    BY <1>3 DEF Process!SignalArrives, Process!Notified
  <1>4. CASE Process!GraceExpires \/ Process!Exited \/ UNCHANGED mainVars
    BY <1>4 DEF Process!GraceExpires, Process!Exited
  <1>5. ASSUME NEW c \in Clients, Process!Connect(c) \/ Process!Serve(c) PROVE Process!TypeOK'
    BY <1>5 DEF Process!Connect, Process!Serve
  <1> QED
    BY <1>1, <1>2, <1>3, <1>4, <1>5 DEF Process!Next

\* In every configuration all three layers keep their types, and a process has an
\* exit status exactly when it has exited.
THEOREM ProcessTypeCorrect == ProcessSpec => []ProcessTypeOK
  <1>1. ProcessInit => GatewayInit /\ Process!TypeOK
    BY DEF ProcessInit, Process!Init, Process!TypeOK
  <1>2. Process!TypeOK /\ [ProcessNext]_processVars => Process!TypeOK'
    BY MainView, StepProcessTypeOK
  <1>3. ProcessSpec => GatewaySpec /\ []Process!TypeOK
    BY <1>1, <1>2, GatewayView, PTL DEF ProcessSpec, GatewaySpec
  <1>4. GInv /\ ServicePromises /\ Process!TypeOK => ProcessTypeOK
    BY DEF GInv, IInv, ServicePromises, ProcessTypeOK
  <1> QED
    BY <1>3, <1>4, GatewayInvariant, GatewayKeepsPromises, PTL
=============================================================================
