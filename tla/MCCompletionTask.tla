-------------------------- MODULE MCCompletionTask --------------------------
(***************************************************************************)
(* Commands and answers for TLC.                                           *)
(***************************************************************************)
EXTENDS CompletionTask, SequencesExt

\* A right shipment, a wrong one, and every way to be wrong in one field.
MCSubjects ==
  {s \in Subjects : s.type = "shipment" \/ s.id = "SH-1"}

\* Every combination of right and wrong fields, without a deadline.
MCShapes ==
  [version    : {CurrentContractVersion, "ai-completion.v0"},
   identified : BOOLEAN,
   maxTokens  : {-1, 0},
   task       : {Task, "port_risk", ""},
   schemas    : {"supported", "other", ""},
   subjects   : SeqOf(MCSubjects, 2),
   evidence   : SeqOf({"EV", ""}, 2),
   deadline   : {0}]

\* One right command with every deadline.
MCRightCommand ==
  [version |-> CurrentContractVersion, identified |-> TRUE, maxTokens |-> 0, task |-> Task,
   schemas |-> "supported", subjects |-> <<[type |-> "shipment", id |-> "SH-1"]>>,
   evidence |-> << >>]

MCCommands ==
  MCShapes \cup {MCRightCommand @@ [deadline |-> d] : d \in 0 .. MaxTime + 1}

\* Every body that stands alone, and one right and one wrong body in every
\* other text.
MCBodies ==
  [text       : {"one_value"},
   shipment   : Optional(ShipmentIDs \cup {""}),
   risk       : Optional({"no_risk", "high_risk", "critical"}),
   confidence : Optional({-1, 0, 10, 11}),
   reasons    : Optional(SeqOf({"text", ""}, 2))]

MCAnswers ==
  MCBodies \cup
  [text       : {"unreadable", "two_values", "trailing_garbage"},
   shipment   : {<<"SH-1">>},
   risk       : {<<"no_risk">>},
   confidence : {<<0>>, << >>},
   reasons    : {<< << >> >>}]

\* A vendor's failure, and each of the context errors.
MCFailures == {{"unavailable"}, {"canceled"}, {"deadline"}}
=============================================================================
