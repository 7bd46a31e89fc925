------------------------ MODULE CompletionTaskProofs ------------------------
(***************************************************************************)
(* Theorems about CompletionTask, for every set of commands, answers and   *)
(* shipments, every cap on evidence and every deadline.                    *)
(***************************************************************************)
EXTENDS CompletionTask, GatewayServiceProofs, SequenceTheorems, TLAPS

\* The defects are the command's; past the preflight checks it has none, and an
\* answer that is read is judged by DecodesAndValidates.
Judged ==
  /\ command \in Commands /\ defects = DefectsOf(command)
  /\ stage \in {"context", "provider", "decode"} => defects = {}
  /\ stage = "decode" => answer \in Answers
  /\ answer # NoAnswer => answer \in Answers /\ defects = {} /\ stage \in {"decode", "done"}
  /\ stage = "done" /\ answer # NoAnswer =>
       (returned = "result" <=> DecodesAndValidates(command, answer))

\* The caller's context dies with its caller, and by a deadline only when it is over.
Bounded ==
  /\ now \in Nat /\ callerDeadline \in Nat /\ command.deadline \in Nat
  /\ caller = "deadline" => callerDeadline # 0 /\ now >= callerDeadline
  /\ derived => command.deadline # 0
  /\ CallEndsWithItsCaller
  /\ NoDeadlineIsEarly

-----------------------------------------------------------------------------
(* What the checks of stages 1 to 4 leave of a command.                    *)

LEMMA GovernedCommand ==
  ASSUME NEW c \in Commands, DefectsOf(c) = {}
  PROVE  /\ Len(c.subjects) = 1
         /\ c.subjects[1].type = "shipment" /\ c.subjects[1].id \in ShipmentIDs
         /\ MaxEvidenceReferences < 0 \/ Len(c.evidence) <= MaxEvidenceReferences
         /\ DOMAIN c.subjects = {1}
  <1>1. /\ "shape" \in Defects /\ "policy" \in Defects /\ "contract" \in Defects
    <2>1. \A i \in 1 .. 4 : Preflight[i].defect \in Defects
      BY DEF Defects, Preflight
    <2> QED
      BY <2>1 DEF Preflight
  <1>2. ShapeIsValid(c) /\ PolicyAllows(c) /\ CommandIsValid(c)
    BY <1>1 DEF DefectsOf
  <1>3. /\ c.subjects \in Seq(Subjects) /\ c.evidence \in Seq({"EV", ""})
    <2>1. c \in CommandType
      BY InputsAssumption
    <2> QED
      BY <2>1 DEF CommandType
  <1>4. Len(c.subjects) = 1 /\ DOMAIN c.subjects = {1} /\ c.subjects[1] \in Subjects
    <2>1. Len(c.subjects) = 1
      BY <1>2 DEF CommandIsValid
    <2>2. c.subjects \in [1 .. Len(c.subjects) -> Subjects]
      BY <1>3, LenProperties
    <2> QED
      BY <2>1, <2>2
  <1>5. c.subjects[1].type = "shipment" /\ c.subjects[1].id # ""
    BY <1>2, <1>4 DEF CommandIsValid, ShapeIsValid
  <1>6. c.subjects[1].id \in ShipmentIDs
    <2>1. c.subjects[1].id \in ShipmentIDs \cup {""}
      BY <1>4 DEF Subjects
    <2> QED
      BY <1>5, <2>1
  <1>7. MaxEvidenceReferences < 0 \/ Len(c.evidence) <= MaxEvidenceReferences
    <2>1. MaxEvidenceReferences >= 0 => Len(c.evidence) <= MaxEvidenceReferences
      BY <1>2 DEF PolicyAllows
    <2> QED
      BY <2>1, MaxEvidenceAssumption
  <1> QED
    BY <1>4, <1>5, <1>6, <1>7

\* A field that is there is the sequence of its value.
LEMMA PresentField ==
  ASSUME NEW S, NEW f \in Optional(S), f # << >>
  PROVE  f[1] \in S /\ f = <<f[1]>>
  <1>1. f \in [1 .. 1 -> S]
    BY DEF Optional
  <1>2. DOMAIN f = {1} /\ f[1] \in S
    BY <1>1
  <1>3. f = <<f[1]>>
    BY <1>1
  <1> QED
    BY <1>2, <1>3

\* The arithmetic of lengths, apart from the theory of sequences.
LEMMA Positive == \A n \in Nat \ {0} : n > 0
  OBVIOUS

\* A list of reasons has one if it is not empty.
LEMMA SomeReason ==
  ASSUME NEW s \in Seq({"text", ""})
  PROVE  Len(s) > 0 <=> s # << >>
  <1>1. Len(<< >>) = 0 /\ (s # << >> => Len(s) \in Nat \ {0})
    BY EmptySeq
  <1>2. CASE s = << >>
    BY <1>1, <1>2
  <1>3. CASE s # << >>
    <2>1. Len(s) \in Nat \ {0}
      BY <1>1, <1>3
    <2> QED
      BY <1>3, <2>1, Positive
  <1> QED
    BY <1>2, <1>3

-----------------------------------------------------------------------------
(* What DecodeAndValidate lets through.                                    *)

\* The verdict on an answer to a governed command is the caller's own notion of
\* an actionable one, but for texts that are not alone.
LEMMA VerdictIsActionability ==
  ASSUME command \in Commands, DefectsOf(command) = {}, answer \in Answers
  PROVE  /\ DecodesAndValidates(command, answer) => Actionable(answer)
         /\ answer.text = "one_value" /\ Actionable(answer) =>
              DecodesAndValidates(command, answer)
  <1>1. /\ DOMAIN command.subjects = {1}
        /\ command.subjects[1].id \in ShipmentIDs /\ command.subjects[1].id # ""
    BY GovernedCommand, ShipmentIDsAssumption
  <1>2. answer \in AnswerType
    BY InputsAssumption
  <1>3. /\ answer.shipment \in Optional(ShipmentIDs \cup {""})
        /\ answer.risk \in Optional(Risks \cup {"critical"})
        /\ answer.confidence \in Optional(Int)
        /\ answer.reasons \in Optional(Seq({"text", ""}))
    BY <1>2 DEF AnswerType
  <1>4. ASSUME DecodesAndValidates(command, answer) PROVE Actionable(answer)
    <2>1. /\ answer.shipment # << >> /\ answer.risk # << >>
          /\ answer.confidence # << >> /\ answer.reasons # << >>
      BY <1>4 DEF DecodesAndValidates, SchemaIsValid
    <2>2. /\ answer.shipment = <<answer.shipment[1]>>
          /\ answer.risk = <<answer.risk[1]>>
          /\ answer.confidence = <<answer.confidence[1]>>
          /\ answer.reasons = <<answer.reasons[1]>> /\ answer.reasons[1] \in Seq({"text", ""})
      BY <1>3, <2>1, PresentField
    <2>integer. answer.confidence[1] \in Int
      BY <1>3, <2>1, PresentField
    <2>range. 0 <= answer.confidence[1] /\ answer.confidence[1] <= 10
      BY <1>4 DEF DecodesAndValidates, PolicyIsMet
    <2>3. /\ answer.shipment[1] = command.subjects[1].id
          /\ answer.risk[1] \in Risks
          /\ answer.risk[1] = "high_risk" => Len(answer.reasons[1]) > 0
          /\ \A i \in DOMAIN answer.reasons[1] : answer.reasons[1][i] # ""
      BY <1>4 DEF DecodesAndValidates, IdentityMatches, PolicyIsMet
    <2>4. answer.risk = <<"high_risk">> => answer.reasons # << << >> >>
      <3>1. answer.risk = <<"high_risk">> => answer.risk[1] = "high_risk"
        OBVIOUS
      <3>2. answer.reasons = << << >> >> => answer.reasons[1] = << >>
        OBVIOUS
      <3> QED
        <4>1. Len(answer.reasons[1]) > 0 => answer.reasons[1] # << >>
          BY <2>2, SomeReason
        <4> QED
          BY <2>3, <3>1, <3>2, <4>1
    <2>5. \E n \in 0 .. 10 : answer.confidence = <<n>>
      <3>1. answer.confidence[1] \in 0 .. 10
        BY <2>range, <2>integer
      <3> QED
        BY <2>2, <3>1
    <2> QED
      BY <1>1, <2>1, <2>2, <2>3, <2>4, <2>5 DEF Actionable
  <1>5. ASSUME answer.text = "one_value", Actionable(answer)
        PROVE  DecodesAndValidates(command, answer)
    <2>1. answer.shipment = <<command.subjects[1].id>>
      BY <1>1, <1>5 DEF Actionable
    <2>2. PICK r \in Risks : answer.risk = <<r>>
      BY <1>5 DEF Actionable
    <2>3. PICK n \in 0 .. 10 : answer.confidence = <<n>>
      BY <1>5 DEF Actionable
    <2>4. /\ answer.reasons # << >>
          /\ \A i \in DOMAIN answer.reasons[1] : answer.reasons[1][i] # ""
          /\ answer.risk = <<"high_risk">> => answer.reasons # << << >> >>
      BY <1>5 DEF Actionable
    <2>5. answer.reasons = <<answer.reasons[1]>> /\ answer.reasons[1] \in Seq({"text", ""})
      BY <1>3, <2>4, PresentField
    <2>6. /\ answer.shipment[1] = command.subjects[1].id /\ answer.risk[1] = r
          /\ answer.confidence[1] = n
          /\ answer.shipment # << >> /\ answer.risk # << >> /\ answer.confidence # << >>
      BY <2>1, <2>2, <2>3
    <2>7. answer.risk[1] = "high_risk" => Len(answer.reasons[1]) > 0
      <3>1. SUFFICES ASSUME r = "high_risk" PROVE Len(answer.reasons[1]) > 0
        BY <2>6
      <3>2. answer.reasons[1] # << >>
        BY <2>2, <2>4, <2>5, <3>1
      <3> QED
        BY <2>5, <3>2, SomeReason
    <2>8. 0 <= answer.confidence[1] /\ answer.confidence[1] <= 10
      BY <2>6
    <2> QED
      BY <1>1, <1>5, <2>4, <2>6, <2>7, <2>8
      DEF DecodesAndValidates, SyntaxIsValid, SchemaIsValid, IdentityMatches, PolicyIsMet
  <1> QED
    BY <1>4, <1>5

-----------------------------------------------------------------------------
(* The stages.                                                             *)

LEMMA StepJudged ==
  ASSUME Judged, [TaskNext]_taskVars
  PROVE  Judged'
  <1>n. NoAnswer \notin Answers
    BY InputsAssumption DEF AnswerType, NoAnswer
  <1> USE DEF Judged, portVars, contextVars
  <1>1. CASE CheckCommand
    <2>1. CASE RejectPreflight
      <3>1. stage = "preflight" /\ stage' = "done" /\ UNCHANGED <<command, answer, defects>>
        BY <1>1, <2>1 DEF CheckCommand, RejectPreflight, FailWith
      <3> QED
        BY <3>1
    <2>2. CASE PassPreflight
      BY <1>1, <2>2 DEF CheckCommand, PassPreflight
    <2> QED
      BY <1>1, <2>1, <2>2 DEF CheckCommand
  <1>2. CASE CheckContext
    <2>1. CASE RejectDeadCaller
      <3>1. stage = "context" /\ stage' = "done" /\ UNCHANGED <<command, answer, defects>>
        BY <1>2, <2>1 DEF CheckContext, RejectDeadCaller, FailWith
      <3> QED
        BY <3>1
    <2>2. CASE InvokeProvider
      BY <1>2, <2>2 DEF CheckContext, InvokeProvider
    <2> QED
      BY <1>2, <2>1, <2>2 DEF CheckContext
  <1>3. CASE ReadResponse
    <2>1. CASE ProviderFailed /\ UNCHANGED answer
      <3>1. stage = "provider" /\ stage' = "done" /\ UNCHANGED <<command, answer, defects>>
        <4>1. CASE "canceled" \in outcome.err
          BY <1>3, <2>1, <4>1 DEF ReadResponse, ProviderFailed, FailWith
        <4>2. CASE "canceled" \notin outcome.err /\ "deadline" \in outcome.err
          BY <1>3, <2>1, <4>2 DEF ReadResponse, ProviderFailed, FailWith
        <4>3. CASE "canceled" \notin outcome.err /\ "deadline" \notin outcome.err
          BY <1>3, <2>1, <4>3 DEF ReadResponse, ProviderFailed, FailWith
        <4> QED
          BY <4>1, <4>2, <4>3
      <3> QED
        BY <3>1
    <2>2. CASE ProviderCompleted /\ answer' \in Answers
      BY <1>3, <2>2 DEF ReadResponse, ProviderCompleted
    <2> QED
      BY <1>3, <2>1, <2>2 DEF ReadResponse
  <1>4. CASE DecodeAndValidate
    <2>1. /\ stage = "decode" /\ stage' = "done" /\ UNCHANGED <<command, answer, defects>>
          /\ returned' = IF DecodesAndValidates(command, answer) THEN "result" ELSE "error"
      BY <1>4 DEF DecodeAndValidate, AcceptOutput, RejectOutput, FinishDecode
    <2> QED
      BY <1>n, <2>1 DEF DecodesAndValidates
  <1>5. CASE UNCHANGED <<stage, defects, returned, command, answer>>
    BY <1>5 DEF DecodesAndValidates
  <1>6. CASE BoundContext \/ CallProvider \/ Publish \/ Answered \/ UNCHANGED taskVars
    BY <1>5, <1>6 DEF BoundContext, CallProvider, ProviderStep, Publish, DeliverEvent, Answered,
       taskVars, vars, serviceVars
  <1> QED
    BY <1>1, <1>2, <1>3, <1>4, <1>5, <1>6 DEF TaskNext, ContextStep, serviceVars

LEMMA InitJudged == TaskInit => Judged
  BY DEF TaskInit, Init, Judged

\* A valid command never reaches a vendor but about exactly one shipment: subjects[0]
\* of DecodeAndValidate is always there.
THEOREM VendorsSeeGovernedRequests == TaskSpec => []VendorSeesGovernedRequests
  <1>1. Judged => VendorSeesGovernedRequests
    BY GovernedCommand DEF Judged, VendorSeesGovernedRequests
  <1> QED
    BY <1>1, InitJudged, StepJudged, PTL DEF TaskSpec

\* For every command and every answer, the trust boundary of registry.go lets
\* through what a caller may act on, and nothing else that stands alone.
THEOREM TrustedAnswersAreActionable == TaskSpec => []OnlyActionableAnswersAreTrusted
  <1>1. Judged => OnlyActionableAnswersAreTrusted
    BY VerdictIsActionability DEF Judged, OnlyActionableAnswersAreTrusted
  <1> QED
    BY <1>1, InitJudged, StepJudged, PTL DEF TaskSpec

-----------------------------------------------------------------------------
(* The contexts of a call.                                                 *)

\* A deadline of a command is a time or none.
LEMMA CommandDeadline == \A c \in Commands : c.deadline \in Nat
  <1>1. \A c \in Commands : c.deadline \in 0 .. MaxTime + 1
    BY InputsAssumption DEF CommandType
  <1> QED
    BY <1>1

\* No stage of the service touches the contexts but withEffectiveDeadline.
LEMMA ContextView ==
  [TaskNext]_taskVars =>
    \/ UNCHANGED <<contextVars, ctx, command>>
    \/ /\ UNCHANGED command
       /\ \/ Context!WithEffectiveDeadline \/ Context!Tick \/ Context!CommandTimerFires
          \/ \E e \in ContextErrors : Context!CallerDies(e)
  <1> SUFFICES ASSUME [TaskNext]_taskVars
               PROVE  \/ UNCHANGED <<contextVars, ctx, command>>
                      \/ /\ UNCHANGED command
                         /\ \/ Context!WithEffectiveDeadline \/ Context!Tick
                            \/ Context!CommandTimerFires
                            \/ \E e \in ContextErrors : Context!CallerDies(e)
    OBVIOUS
  <1> USE DEF portVars
  <1>1. CASE CheckCommand \/ CheckContext
    BY <1>1 DEF CheckCommand, CheckContext, RejectPreflight, PassPreflight, RejectDeadCaller,
       InvokeProvider
  <1>2. CASE CallProvider
    BY <1>2 DEF CallProvider, ProviderStep, Port!CallVendor, Port!Complete, Port!Fail
  <1>3. CASE ReadResponse
    BY <1>3 DEF ReadResponse, ProviderFailed, ProviderCompleted
  <1>4. CASE DecodeAndValidate \/ Publish
    BY <1>4 DEF DecodeAndValidate, RejectOutput, AcceptOutput, FinishDecode, Publish, DeliverEvent
  <1>5. CASE Answered \/ UNCHANGED taskVars
    BY <1>5 DEF Answered, taskVars, vars
  <1>6. CASE BoundContext
    BY <1>6 DEF BoundContext
  <1> QED
    BY <1>1, <1>2, <1>3, <1>4, <1>5, <1>6 DEF TaskNext, ContextStep

LEMMA StepBounded ==
  ASSUME Bounded, [TaskNext]_taskVars
  PROVE  Bounded'
  <1> USE DEF Bounded, CallEndsWithItsCaller, NoDeadlineIsEarly, Context!NoDeadline
  <1>1. CASE UNCHANGED <<contextVars, ctx, command>>
    BY <1>1 DEF contextVars
  <1>2. CASE Context!WithEffectiveDeadline /\ UNCHANGED command
    BY <1>2 DEF Context!WithEffectiveDeadline, Context!CommandIsStricter
  <1>3. CASE Context!Tick /\ UNCHANGED command
    <2>1. now' \in Nat /\ \A d \in Nat : now >= d => now' >= d
      BY <1>3 DEF Context!Tick
    <2> QED
      BY <1>3, <2>1 DEF Context!Tick
  <1>4. CASE Context!CommandTimerFires /\ UNCHANGED command
    BY <1>4 DEF Context!CommandTimerFires
  <1>5. ASSUME NEW e \in ContextErrors, Context!CallerDies(e), UNCHANGED command PROVE Bounded'
    BY <1>5 DEF Context!CallerDies, ContextErrors
  <1> QED
    BY <1>1, <1>2, <1>3, <1>4, <1>5, ContextView

LEMMA InitBounded == TaskInit => Bounded
  <1> SUFFICES ASSUME TaskInit PROVE Bounded
    OBVIOUS
  <1>1. callerDeadline \in Nat /\ now = 1
    BY DEF TaskInit, Context!Init, Context!Deadlines
  <1>2. command.deadline \in Nat
    BY CommandDeadline DEF TaskInit
  <1> QED
    BY <1>1, <1>2 DEF TaskInit, Context!Init, Bounded, CallEndsWithItsCaller, NoDeadlineIsEarly

\* Whatever deadline a command asks for, withEffectiveDeadline never detaches the
\* call from its caller.
THEOREM CallsEndWithTheirCaller == TaskSpec => []CallEndsWithItsCaller
  <1>1. Bounded => CallEndsWithItsCaller
    BY DEF Bounded
  <1> QED
    BY <1>1, InitBounded, StepBounded, PTL DEF TaskSpec

\* A zero, an expired or a looser deadline in the command never ends a call before
\* one of its deadlines has passed.
THEOREM DeadlinesAreNotEarly == TaskSpec => []NoDeadlineIsEarly
  <1>1. Bounded => NoDeadlineIsEarly
    BY DEF Bounded
  <1> QED
    BY <1>1, InitBounded, StepBounded, PTL DEF TaskSpec

-----------------------------------------------------------------------------
(* The service.                                                            *)

\* A step of the task is one of the service, or one it does not see.
LEMMA ServiceView == [TaskNext]_taskVars => [Next]_vars
  <1> SUFFICES ASSUME [TaskNext]_taskVars PROVE [Next]_vars
    OBVIOUS
  <1> USE DEF Next, CompleteStep
  <1>1. CASE CheckCommand \/ CheckContext
    BY <1>1 DEF CheckCommand, CheckContext
  <1>2. CASE CallProvider \/ Publish
    BY <1>2 DEF CallProvider, Publish
  <1>3. CASE ReadResponse \/ DecodeAndValidate
    BY <1>3 DEF ReadResponse, DecodeAndValidate
  <1>4. ASSUME UNCHANGED <<calls, lateCalls, outcome, serviceVars>>,
               ctx' = ctx \/ (ctx = "alive" /\ ctx' \in ContextErrors)
        PROVE  [Next]_vars
    BY <1>4, SamePort DEF CallerLeaves, Port!CallerLeaves, vars, portVars
  <1>5. CASE BoundContext
    BY <1>4, <1>5 DEF BoundContext, Context!WithEffectiveDeadline, ContextErrors
  <1>6. CASE ContextStep(Context!Tick) \/ ContextStep(Context!CommandTimerFires)
    BY <1>4, <1>6 DEF ContextStep, Context!Tick, Context!CommandTimerFires, ContextErrors
  <1>7. ASSUME NEW e \in ContextErrors, ContextStep(Context!CallerDies(e)) PROVE [Next]_vars
    BY <1>4, <1>7 DEF ContextStep, Context!CallerDies
  <1>8. CASE Answered \/ UNCHANGED taskVars
    BY <1>8 DEF Answered, taskVars
  <1> QED
    BY <1>1, <1>2, <1>3, <1>5, <1>6, <1>7, <1>8 DEF TaskNext

\* The task refines the service of GatewayService: stage 5's contexts, with their
\* two deadlines and their timers, are its caller that may leave at any time, and
\* the task's checks are its verdicts.
THEOREM TaskImplementsService == TaskSpec => TaskIsAService
  <1>1. TaskInit => Init
    BY DEF TaskInit
  <1> QED
    BY <1>1, ServiceView, PTL DEF TaskSpec, TaskIsAService, Spec

\* What is proved of the service holds for every command and every answer.
COROLLARY TaskKeepsServiceInvariant == TaskSpec => []SInv
  BY TaskImplementsService, ServiceInvariant, PTL DEF TaskIsAService

\* The clock stays within its bound, and no context has another state.
ContextTypes ==
  /\ now \in 1 .. MaxTime
  /\ callerDeadline \in 0 .. MaxTime + 1
  /\ caller \in {"alive"} \cup ContextErrors
  /\ built \in BOOLEAN /\ derived \in BOOLEAN

LEMMA StepContextTypes ==
  ASSUME ContextTypes, [TaskNext]_taskVars
  PROVE  ContextTypes'
  <1> USE DEF ContextTypes
  <1>1. CASE UNCHANGED <<contextVars, ctx, command>>
    BY <1>1 DEF contextVars
  <1>2. CASE Context!WithEffectiveDeadline
    BY <1>2 DEF Context!WithEffectiveDeadline, Context!CommandIsStricter
  <1>3. CASE Context!Tick
    BY <1>3, MaxTimeAssumption DEF Context!Tick
  <1>4. CASE Context!CommandTimerFires
    BY <1>4 DEF Context!CommandTimerFires
  <1>5. ASSUME NEW e \in ContextErrors, Context!CallerDies(e) PROVE ContextTypes'
    BY <1>5 DEF Context!CallerDies
  <1> QED
    BY <1>1, <1>2, <1>3, <1>4, <1>5, ContextView

\* A task's state stays within its types, and an answer is kept only from the
\* vendor's return on (registry.go:265).
THEOREM TaskTypeCorrect == TaskSpec => []TaskTypeOK
  <1>1. TaskInit => ContextTypes
    <2> SUFFICES ASSUME TaskInit PROVE ContextTypes
      OBVIOUS
    <2>1. now = 1 /\ callerDeadline \in 0 .. MaxTime + 1 /\ caller = "alive"
      BY DEF TaskInit, Context!Init, Context!Deadlines
    <2>2. built = FALSE /\ derived = FALSE
      BY DEF TaskInit, Context!Init
    <2>3. 1 \in 1 .. MaxTime
      BY MaxTimeAssumption
    <2> QED
      BY <2>1, <2>2, <2>3 DEF ContextTypes
  <1>2. Judged /\ ContextTypes /\ SInv => TaskTypeOK
    BY DEF Judged, ContextTypes, SInv, TaskTypeOK
  <1> QED
    BY <1>1, <1>2, InitJudged, StepJudged, StepContextTypes, TaskKeepsServiceInvariant, PTL
    DEF TaskSpec
=============================================================================
