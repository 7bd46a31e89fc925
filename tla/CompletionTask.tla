--------------------------- MODULE CompletionTask ---------------------------
(***************************************************************************)
(* Service.Complete on the data its stages look at: the command's shape    *)
(* (commands.go), the execution policy (domain/policy.go), the deadlines   *)
(* (CallContext), the task registry and the shipment-risk capability on    *)
(* both sides of the vendor (registry.go, domain/shipmentrisk).            *)
(*                                                                         *)
(* The stages themselves are GatewayService's.  This module says which     *)
(* defects a command has, when the call's context dies, and which answers  *)
(* pass the trust boundary, all of which GatewayService leaves open.       *)
(*                                                                         *)
(* A text is abstracted to what a check asks of it ("" is a blank one); a  *)
(* confidence is in tenths.  A field of the vendor's answer is a Go        *)
(* pointer: an empty sequence, or the sequence of its value; a JSON null   *)
(* and an absent key decode alike.                                         *)
(*                                                                         *)
(* As in ProviderRouter, X_Y is X with the plausible bug Y.                *)
(***************************************************************************)
EXTENDS GatewayService

CONSTANTS
  ShipmentIDs,            \* the shipments there are, texts that are not blank
  MaxEvidenceReferences,  \* of the execution policy; negative for no limit
  MaxTime,                \* as in CallContext
  Commands,               \* the commands a caller may send
  Answers,                \* the texts a vendor may answer with
  Failures                \* the errors of the provider that are considered

CurrentContractVersion == "ai-completion.v1"
Task  == "shipment_delay_risk"
Risks == {"no_risk", "medium_risk", "high_risk"}

Subjects == [type : {"shipment", "customer", ""}, id : ShipmentIDs \cup {""}]

Optional(S) == {<< >>} \cup [1 .. 1 -> S]

\* identified: tenant, request, prompt and prompt version are not blank.
CommandType ==
  [version    : {CurrentContractVersion, "ai-completion.v0", ""},
   identified : BOOLEAN,
   maxTokens  : Int,
   task       : {Task, "port_risk", ""},
   schemas    : {"supported", "other", ""},
   subjects   : Seq(Subjects),
   evidence   : Seq({"EV", ""}),
   deadline   : 0 .. MaxTime + 1]

\* text: what the vendor sent, up to the value of the fields: no JSON value of
\* the expected shape (bad syntax, a wrong type, an unknown key), exactly one,
\* one more after it, or something after it that is no JSON value.
AnswerType ==
  [text       : {"unreadable", "one_value", "two_values", "trailing_garbage"},
   shipment   : Optional(ShipmentIDs \cup {""}),
   risk       : Optional(Risks \cup {"critical"}),
   confidence : Optional(Int),
   reasons    : Optional(Seq({"text", ""}))]

NoAnswer == [text |-> "none"]

ASSUME ShipmentIDsAssumption == "" \notin ShipmentIDs
ASSUME MaxTimeAssumption     == MaxTime \in Nat \ {0}
ASSUME MaxEvidenceAssumption == MaxEvidenceReferences \in Int
ASSUME InputsAssumption      == Commands \subseteq CommandType /\ Answers \subseteq AnswerType
ASSUME FailuresAssumption    == Failures \subseteq Errors

VARIABLES
  command,  \* the caller's CompleteCommand
  answer,   \* the provider's RawOutput, NoAnswer before it
  now, callerDeadline, caller, built, derived  \* as in CallContext

contextVars == <<now, callerDeadline, caller, built, derived>>
taskVars    == <<vars, command, answer, contextVars>>

Context == INSTANCE CallContext WITH commandDeadline <- command.deadline

-----------------------------------------------------------------------------
(* The checks of stages 1 to 4.                                            *)

\* CompleteCommand.Validate.
ShapeIsValid(c) ==
  /\ c.version = CurrentContractVersion
  /\ c.identified
  /\ c.task # ""
  /\ c.schemas # ""
  /\ c.maxTokens >= 0
  /\ \A i \in DOMAIN c.subjects : c.subjects[i].type # "" /\ c.subjects[i].id # ""
  /\ \A i \in DOMAIN c.evidence : c.evidence[i] # ""

\* ExecutionPolicy.ValidateExecutionContext, with the policy of main.go: it
\* names the contract version of the commands.
PolicyAllows(c) ==
  /\ c.version = CurrentContractVersion
  /\ c.identified /\ c.task # ""
  /\ MaxEvidenceReferences >= 0 => Len(c.evidence) <= MaxEvidenceReferences
  /\ \A i \in DOMAIN c.evidence : c.evidence[i] # ""

\* The registry holds the one capability of main.go.
IsRegistered(c) == c.task = Task

CommandIsValid_AtLeastOneSubject(c) ==
  /\ c.schemas = "supported"
  /\ Len(c.subjects) > 0
  /\ c.subjects[1].type = "shipment"

\* ShipmentRiskTaskDefinition.ValidateCommand.
CommandIsValid(c) ==
  /\ c.schemas = "supported"
  /\ Len(c.subjects) = 1
  /\ c.subjects[1].type = "shipment"

\* What is wrong with a command; Service.Complete reports the first defect.
DefectsOf(c) ==
  {d \in Defects : \/ d = "shape"    /\ ~ShapeIsValid(c)
                   \/ d = "policy"   /\ ~PolicyAllows(c)
                   \/ d = "task"     /\ ~IsRegistered(c)
                   \/ d = "contract" /\ ~CommandIsValid(c)}

-----------------------------------------------------------------------------
(* DecodeAndValidate.                                                      *)

\* After the first value, only another value is an error.
SyntaxIsValid(a) == a.text \in {"one_value", "trailing_garbage"}

SchemaIsValid(a) == << >> \notin {a.shipment, a.risk, a.confidence, a.reasons}

IdentityMatches(c, a) == a.shipment[1] = c.subjects[1].id

PolicyIsMet_AnyReason(a) ==
  /\ a.shipment[1] # ""
  /\ a.risk[1] \in Risks
  /\ 0 <= a.confidence[1] /\ a.confidence[1] <= 10
  /\ a.risk[1] = "high_risk" => Len(a.reasons[1]) > 0

\* ShipmentRiskResult.Validate.
PolicyIsMet(a) ==
  /\ a.shipment[1] # ""
  /\ a.risk[1] \in Risks
  /\ 0 <= a.confidence[1] /\ a.confidence[1] <= 10
  /\ a.risk[1] = "high_risk" => Len(a.reasons[1]) > 0
  /\ \A i \in DOMAIN a.reasons[1] : a.reasons[1][i] # ""

DecodesAndValidates(c, a) ==
  SyntaxIsValid(a) /\ SchemaIsValid(a) /\ IdentityMatches(c, a) /\ PolicyIsMet(a)

-----------------------------------------------------------------------------
(* The stages of GatewayService, over these data.                          *)

TaskInit ==
  /\ Init
  /\ command \in Commands
  /\ defects = DefectsOf(command)
  /\ answer = NoAnswer
  /\ Context!Init

CheckCommand ==
  /\ RejectPreflight \/ PassPreflight
  /\ UNCHANGED <<command, answer, contextVars>>

BoundContext ==
  /\ stage = "context"
  /\ Context!WithEffectiveDeadline
  /\ UNCHANGED <<calls, lateCalls, outcome, serviceVars, command, answer>>

CheckContext ==
  /\ built
  /\ RejectDeadCaller \/ InvokeProvider
  /\ UNCHANGED <<command, answer, contextVars>>

CallProvider ==
  /\ ProviderStep
  /\ outcome'.err \in Failures \cup {NilError}
  /\ UNCHANGED <<command, answer, contextVars>>

ReadResponse ==
  /\ \/ ProviderFailed /\ UNCHANGED answer
     \/ ProviderCompleted /\ answer' \in Answers
  /\ UNCHANGED <<command, contextVars>>

DecodeAndValidate ==
  /\ IF stage = "decode" /\ DecodesAndValidates(command, answer)
     THEN AcceptOutput ELSE RejectOutput
  /\ UNCHANGED <<command, answer, contextVars>>

Publish == DeliverEvent /\ UNCHANGED <<command, answer, contextVars>>

\* Time passes and contexts die; nobody looks before stage 5 or after stage 6.
ContextStep(A) ==
  /\ stage \in {"context", "provider"}
  /\ A
  /\ UNCHANGED <<calls, lateCalls, outcome, serviceVars, command, answer>>

Answered == Finished /\ UNCHANGED taskVars

TaskNext ==
  \/ CheckCommand
  \/ BoundContext
  \/ CheckContext
  \/ CallProvider
  \/ ReadResponse
  \/ DecodeAndValidate
  \/ Publish
  \/ ContextStep(Context!Tick)
  \/ \E e \in ContextErrors : ContextStep(Context!CallerDies(e))
  \/ ContextStep(Context!CommandTimerFires)
  \/ Answered

TaskSpec == TaskInit /\ [][TaskNext]_taskVars

\* The clock runs and timers fire; the provider owes no progress here.
TaskFairness ==
  WF_taskVars(ContextStep(Context!Tick)) /\ WF_taskVars(ContextStep(Context!Timers))

TaskFairSpec == TaskSpec /\ TaskFairness

-----------------------------------------------------------------------------
(* Properties.                                                             *)

TaskTypeOK ==
  /\ TypeOK
  /\ command \in Commands
  /\ answer \in Answers \cup {NoAnswer}
  /\ stage \in {"decode", "done"} \/ answer = NoAnswer
  /\ now \in 1 .. MaxTime
  /\ callerDeadline \in 0 .. MaxTime + 1
  /\ caller \in {"alive"} \cup ContextErrors
  /\ built \in BOOLEAN /\ derived \in BOOLEAN

\* Deadlines, timers and the task's verdicts add nothing to what a caller can see
\* of the service: a command's own deadline looks like a caller that leaves, and
\* no context comes back to life.
TaskIsAService == Spec

\* A vendor is asked about exactly one shipment, with no more evidence than the
\* policy's cap: DecodeAndValidate takes subjects[0] unchecked, and rests on
\* the checks that ran before the vendor was called.
VendorSeesGovernedRequests ==
  stage \in {"provider", "decode"} =>
    /\ Len(command.subjects) = 1
    /\ command.subjects[1].type = "shipment" /\ command.subjects[1].id \in ShipmentIDs
    /\ MaxEvidenceReferences < 0 \/ Len(command.evidence) <= MaxEvidenceReferences

\* What a caller may rely on in a trusted result: every field is there, and it
\* is about the shipment of the request and actionable.
Actionable(a) ==
  /\ \E i \in DOMAIN command.subjects : a.shipment = <<command.subjects[i].id>>
  /\ \E r \in Risks : a.risk = <<r>>
  /\ \E n \in 0 .. 10 : a.confidence = <<n>>
  /\ a.reasons # << >> /\ \A i \in DOMAIN a.reasons[1] : a.reasons[1][i] # ""
  /\ a.risk = <<"high_risk">> => a.reasons # << << >> >>

\* The caller gets a result only if it is actionable, and an answer like that
\* is never refused when it stands alone.
OnlyActionableAnswersAreTrusted ==
  stage = "done" /\ answer # NoAnswer =>
    /\ returned = "result" => Actionable(answer)
    /\ answer.text = "one_value" /\ Actionable(answer) => returned = "result"

\* The provider's call never runs on for a caller that is gone, whichever
\* context it was given.
CallEndsWithItsCaller == caller # "alive" => ctx # "alive"

\* No request is told of a deadline before one of its deadlines has passed; a
\* command without a deadline has none.
NoDeadlineIsEarly ==
  ctx = "deadline" =>
    \E d \in {callerDeadline, command.deadline} \ {Context!NoDeadline} : now >= d

\* A provider call ends at the first of the two deadlines: the context that was
\* chosen is the one that dies by then.
FirstDeadlineEndsTheCall ==
  \A d \in 1 .. MaxTime :
    stage = "provider" /\ d \in {callerDeadline, command.deadline} /\ now >= d
      ~> ctx # "alive" \/ stage # "provider"

\* registry.go: the syntax stage accepts "no trailing data".
NoTrailingData ==
  stage = "done" /\ answer # NoAnswer /\ returned = "result" => answer.text = "one_value"
=============================================================================
