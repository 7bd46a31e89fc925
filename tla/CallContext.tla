----------------------------- MODULE CallContext -----------------------------
(***************************************************************************)
(* The context a provider call runs under (stage 5 of Service.Complete):   *)
(* the caller's, or one derived from it by withEffectiveDeadline when the  *)
(* command's own deadline is stricter.  Package context is modelled from   *)
(* its use.                                                                *)
(*                                                                         *)
(* Times are positive integers; 0 is the zero time.Time, that is, no       *)
(* deadline.  A timer may fire late, never early.                          *)
(*                                                                         *)
(* As in ProviderRouter, X_Y is X with the plausible bug Y.                *)
(***************************************************************************)
EXTENDS Integers, ProviderErrors

CONSTANT MaxTime  \* positive: the clock stops here; a later deadline is never reached

VARIABLES
  now,              \* the clock
  callerDeadline,   \* the deadline of the caller's context
  commandDeadline,  \* CompleteCommand.Deadline
  caller,           \* the caller's context: "alive", or its Err()
  built,            \* has withEffectiveDeadline run?
  derived,          \* did it derive a context?
  ctx               \* callCtx: "alive", or its Err(); the caller's until built

NoDeadline == 0
Deadlines  == 0 .. MaxTime + 1

Init ==
  /\ now = 1
  /\ callerDeadline \in Deadlines
  /\ caller = "alive"
  /\ built = FALSE /\ derived = FALSE
  /\ ctx = "alive"

\* The command's deadline is before the caller's, or the only one.
CommandIsStricter_ZeroIsATime ==
  callerDeadline # NoDeadline => commandDeadline < callerDeadline

CommandIsStricter_LaterWins ==
  /\ commandDeadline # NoDeadline
  /\ callerDeadline # NoDeadline => commandDeadline > callerDeadline

CommandIsStricter ==
  /\ commandDeadline # NoDeadline
  /\ callerDeadline # NoDeadline => commandDeadline < callerDeadline

WithEffectiveDeadline_FromBackground ==
  /\ ~built
  /\ built' = TRUE
  /\ derived' = CommandIsStricter
  /\ ctx' = CASE ~CommandIsStricter                         -> ctx
              [] CommandIsStricter /\ now >= commandDeadline -> "deadline"
              [] OTHER                                       -> "alive"
  /\ UNCHANGED <<now, callerDeadline, caller>>

\* withEffectiveDeadline.  context.WithDeadline first looks at its parent and
\* then at the clock: a deadline that is over ends the new context at once.
WithEffectiveDeadline ==
  /\ ~built
  /\ built' = TRUE
  /\ derived' = CommandIsStricter
  /\ ctx' = IF ctx = "alive" /\ CommandIsStricter /\ now >= commandDeadline
            THEN "deadline" ELSE ctx
  /\ UNCHANGED <<now, callerDeadline, caller>>

\* The caller cancels, or its deadline has passed and the timer fires; a context
\* derived from its own follows, unless it is dead already.
CallerDies(e) ==
  /\ caller = "alive"
  /\ e = "deadline" => callerDeadline # NoDeadline /\ now >= callerDeadline
  /\ caller' = e
  /\ ctx' = IF ctx = "alive" THEN e ELSE ctx
  /\ UNCHANGED <<now, callerDeadline, built, derived>>

CommandTimerFires ==
  /\ derived /\ ctx = "alive" /\ now >= commandDeadline
  /\ ctx' = "deadline"
  /\ UNCHANGED <<now, callerDeadline, caller, built, derived>>

Tick ==
  /\ now < MaxTime
  /\ now' = now + 1
  /\ UNCHANGED <<callerDeadline, caller, built, derived, ctx>>

Timers == CallerDies("deadline") \/ CommandTimerFires
=============================================================================
