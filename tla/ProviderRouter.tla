--------------------------- MODULE ProviderRouter ---------------------------
(***************************************************************************)
(* One ProviderRouter.Complete call (application/provider_router.go): the  *)
(* outer fallback loop over the configured vendors, the inner retry loop   *)
(* over one vendor, the per-attempt timer, the interruptible backoff, and  *)
(* a caller whose context may die between any two steps.                   *)
(*                                                                         *)
(* The call is cut into steps exactly where the Go code reads state that   *)
(* another goroutine writes: parent.Err(), attemptCtx.Err(), the vendor's  *)
(* answer and the select of the sleeper.  What runs between two such reads *)
(* touches only locals and is one step.                                    *)
(*                                                                         *)
(* A definition named X_Y is X with the plausible bug Y; no specification  *)
(* uses it.  It stands beside X to say what the properties would catch.    *)
(***************************************************************************)
EXTENDS Integers, ProviderErrors, UsageEvent

CONSTANTS
  NumProviders,            \* len(providers) given to NewProviderRouter
  MaxAttemptsPerProvider,  \* RetryPolicy.MaxAttemptsPerProvider, as configured
  AttemptTimeout,          \* TRUE iff RetryPolicy.AttemptTimeout > 0
  Backoff,                 \* RetryPolicy.Backoff: attempt -> delay
  FallbackEnabled,         \* FallbackPolicy.Enabled
  MaxProviders,            \* FallbackPolicy.MaxProviders, as configured
  VendorFailures,          \* the errors a vendor adapter may return
  VendorUsages             \* the usage its responses may report

ASSUME NumProvidersAssumption   == NumProviders \in Nat \ {0}
ASSUME MaxAttemptsAssumption    == MaxAttemptsPerProvider \in Int
ASSUME AttemptTimeoutAssumption == AttemptTimeout \in BOOLEAN
ASSUME FallbackAssumption       == FallbackEnabled \in BOOLEAN /\ MaxProviders \in Int
ASSUME VendorFailuresAssumption ==
  VendorFailures \subseteq (SUBSET (ProviderFailureKinds \cup ContextErrors \cup {"opaque"})) \ {{}}

ASSUME VendorUsagesAssumption == VendorUsages \subseteq Usages

-----------------------------------------------------------------------------
(* NewProviderRouter: the configuration after its defaults are applied.    *)

Attempts == IF MaxAttemptsPerProvider <= 0 THEN 1 ELSE MaxAttemptsPerProvider

ProviderLimit_NoDefault ==
  IF MaxProviders > NumProviders THEN NumProviders ELSE MaxProviders

ProviderLimit ==
  IF MaxProviders <= 0 \/ MaxProviders > NumProviders
  THEN NumProviders ELSE MaxProviders

ASSUME BackoffAssumption == \A n \in 1 .. Attempts : Backoff[n] \in Int

\* The Backoff used when none is configured, in milliseconds: 50 doubled at
\* each attempt, at most 1000, nothing for an attempt that does not exist.
DefaultBackoff(n) ==
  IF n <= 0 THEN 0 ELSE IF n >= 6 THEN 1000 ELSE 50 * 2 ^ (n - 1)

-----------------------------------------------------------------------------
VARIABLES
  parent,      \* the caller's context: "alive", or its Err() once it is dead
  attemptCtx,  \* the attempt's context: "none" outside an attempt, "live", or its Err()
  pc,          \* the step the call is about to take
  provider,    \* providerIndex + 1
  attempt,     \* the inner loop's attempt
  total,       \* totalAttempts of the vendors already left
  err,         \* err and lastErr
  attemptErr,  \* attemptErr: what attemptCtx.Err() said before cancel()
  result,      \* what Complete returned
  calls,       \* history: vendor calls dispatched so far
  lateCalls,   \* history: those dispatched when the caller was already dead
  raw,         \* history: the last vendor's error, before any wrapping
  usage,       \* the usage in the last vendor's response
  deadAtReturn \* history: was the caller dead when that answer came?

history == <<calls, lateCalls, raw, usage, deadAtReturn>>
locals  == <<provider, attempt, total, err, attemptErr, result>>
vars    == <<parent, attemptCtx, pc, locals, history>>

Steps == {"loop", "attempt", "calling", "returned", "classify", "check",
          "sleep", "outer", "done"}

ParentAlive_CancelOnly == parent # "canceled"

\* ctx.Err() == nil on the caller's context.
ParentAlive == parent = "alive"

Init ==
  /\ parent = "alive"
  /\ attemptCtx = "none"
  /\ pc = "loop"
  /\ provider = 1 /\ attempt = 0 /\ total = 0
  /\ err = NilError
  /\ attemptErr = "none"
  /\ result = [attempts |-> 0, provider |-> 0, err |-> NilError, usage |-> NoUsage]
  /\ calls = 0 /\ lateCalls = 0
  /\ raw = NilError /\ usage = NoUsage
  /\ deadAtReturn = FALSE

\* Complete returns a response of its own that carries only the attempts made,
\* with an error.
Fail(n, e) ==
  /\ pc' = "done"
  /\ result' = [attempts |-> n, provider |-> 0, err |-> e, usage |-> NoUsage]

\* Complete returns the vendor's response, with the attempts filled in.
Deliver(n) ==
  /\ pc' = "done"
  /\ result' = [attempts |-> n, provider |-> provider, err |-> NilError, usage |-> usage]

-----------------------------------------------------------------------------
(* The environment: the caller's context, the attempt timer, the vendor.   *)

ParentDies_Detached(e) ==
  /\ parent = "alive"
  /\ parent' = e
  /\ UNCHANGED <<attemptCtx, pc, locals, history>>

\* The caller cancels or its deadline passes.  The derived attempt context
\* follows: between the two writes the router can only see a dead parent,
\* which is all it acts on, so they are one step.
ParentDies(e) ==
  /\ parent = "alive"
  /\ parent' = e
  /\ attemptCtx' = IF attemptCtx = "live" THEN e ELSE attemptCtx
  /\ UNCHANGED <<pc, locals, history>>

AttemptTimerFires_FirstAttemptOnly ==
  /\ AttemptTimeout /\ attemptCtx = "live" /\ attempt = 1
  /\ attemptCtx' = "deadline"
  /\ UNCHANGED <<parent, pc, locals, history>>

\* The timer of context.WithTimeout(parent, AttemptTimeout) fires.
AttemptTimerFires ==
  /\ AttemptTimeout /\ attemptCtx = "live"
  /\ attemptCtx' = "deadline"
  /\ UNCHANGED <<parent, pc, locals, history>>

\* The vendor call returns: a completion, a failure of its own (possibly
\* long after its context died), or the error of its dead context; whichever it
\* is, the response may report usage.
VendorAnswers(e, u) ==
  /\ pc = "calling"
  /\ \/ e = NilError
     \/ e \in VendorFailures
     \/ e = {attemptCtx} /\ attemptCtx # "live"
  /\ err' = e
  /\ raw' = e
  /\ usage' = u
  /\ deadAtReturn' = (parent # "alive")
  /\ pc' = "returned"
  /\ UNCHANGED <<parent, attemptCtx, provider, attempt, total, attemptErr,
                 result, calls, lateCalls>>

-----------------------------------------------------------------------------
(* completeWithRetries: the attempts against one vendor.                   *)

\* Build the attempt context and dispatch provider.Complete.
BeginAttempt ==
  /\ pc = "attempt"
  /\ attempt' = attempt + 1
  /\ attemptCtx' = IF parent = "alive" THEN "live" ELSE parent
  /\ calls' = calls + 1
  /\ lateCalls' = IF parent = "alive" THEN lateCalls ELSE lateCalls + 1
  /\ pc' = "calling"
  /\ UNCHANGED <<parent, provider, total, err, attemptErr, result, raw, usage,
                 deadAtReturn>>

ReadAttemptErr_BeforeAnswer ==
  /\ pc = "returned"
  /\ attemptErr' = IF attemptCtx = "live" THEN "none" ELSE attemptCtx
  /\ err' = IF attemptCtx = "live" THEN err ELSE {attemptCtx}
  /\ attemptCtx' = "none"
  /\ pc' = "classify"
  /\ UNCHANGED <<parent, provider, attempt, total, result, history>>

\* attemptCtx.Err() is read, then cancel() releases the context.
ReadAttemptErr ==
  /\ pc = "returned"
  /\ attemptErr' = IF attemptCtx = "live" THEN "none" ELSE attemptCtx
  /\ attemptCtx' = "none"
  /\ pc' = "classify"
  /\ UNCHANGED <<parent, provider, attempt, total, err, result, history>>

Succeed_LastVendorOnly ==
  /\ pc = "classify" /\ err = NilError
  /\ total' = total + attempt
  /\ Deliver(attempt)
  /\ UNCHANGED <<parent, attemptCtx, provider, attempt, err, attemptErr, history>>

\* err == nil: both loops return the vendor's response with the aggregate
\* attempt count, whatever happened to the contexts meanwhile.
Succeed ==
  /\ pc = "classify" /\ err = NilError
  /\ total' = total + attempt
  /\ Deliver(total + attempt)
  /\ UNCHANGED <<parent, attemptCtx, provider, attempt, err, attemptErr, history>>

\* The attempt's own timer fired under a live caller: wrap the error.
WrapError(e) ==
  IF ParentAlive /\ attemptErr = "deadline" THEN AttemptTimeoutError(e) ELSE e

ClassifyFailure ==
  /\ pc = "classify" /\ err # NilError
  /\ err' = WrapError(err)
  /\ pc' = "check"
  /\ UNCHANGED <<parent, attemptCtx, provider, attempt, total, attemptErr,
                 result, history>>

LastAttempt_OffByOne == attempt > Attempts

LastAttempt == attempt = Attempts

\* The caller is dead: the inner loop returns the caller's error.
CallerGone ==
  /\ pc = "check" /\ ~ParentAlive
  /\ err' = {parent}
  /\ pc' = "outer"
  /\ UNCHANGED <<parent, attemptCtx, provider, attempt, total, attemptErr,
                 result, history>>

LeaveVendor ==
  /\ pc = "check" /\ ParentAlive
  /\ ~DefaultRetryableProviderError(err) \/ LastAttempt
  /\ pc' = "outer"
  /\ UNCHANGED <<parent, attemptCtx, locals, history>>

Retry_IgnoresCaller ==
  /\ pc = "check"
  /\ DefaultRetryableProviderError(err) /\ ~LastAttempt
  /\ pc' = "sleep"
  /\ UNCHANGED <<parent, attemptCtx, locals, history>>

Retry ==
  /\ pc = "check" /\ ParentAlive
  /\ DefaultRetryableProviderError(err) /\ ~LastAttempt
  /\ pc' = "sleep"
  /\ UNCHANGED <<parent, attemptCtx, locals, history>>

\* DefaultSleeper: no delay returns at once without looking at the context;
\* otherwise a select, which may pick the timer although the caller is dead.
SleepElapses ==
  /\ pc = "sleep"
  /\ pc' = "attempt"
  /\ UNCHANGED <<parent, attemptCtx, locals, history>>

SleepInterrupted ==
  /\ pc = "sleep" /\ Backoff[attempt] > 0 /\ ~ParentAlive
  /\ err' = {parent}
  /\ pc' = "outer"
  /\ UNCHANGED <<parent, attemptCtx, provider, attempt, total, attemptErr,
                 result, history>>

-----------------------------------------------------------------------------
(* Complete: the fallback loop.                                            *)

PreflightRejects ==
  /\ pc = "loop" /\ provider <= ProviderLimit /\ ~ParentAlive
  /\ Fail(total, {parent})
  /\ UNCHANGED <<parent, attemptCtx, provider, attempt, total, err, attemptErr, history>>

EnterVendor ==
  /\ pc = "loop" /\ provider <= ProviderLimit /\ ParentAlive
  /\ attempt' = 0
  /\ pc' = "attempt"
  /\ UNCHANGED <<parent, attemptCtx, provider, total, err, attemptErr, result, history>>

\* The loop ends, by its range or by MaxProviders.
Exhausted ==
  /\ pc = "loop" /\ provider > ProviderLimit
  /\ Fail(total, IF err = NilError THEN {"exhausted"} ELSE err)
  /\ UNCHANGED <<parent, attemptCtx, provider, attempt, total, err, attemptErr, history>>

CallerGoneOuter_DropsVendor ==
  /\ pc = "outer" /\ ~ParentAlive
  /\ total' = total + attempt
  /\ Fail(total, {parent})
  /\ UNCHANGED <<parent, attemptCtx, provider, attempt, err, attemptErr, history>>

CallerGoneOuter ==
  /\ pc = "outer" /\ ~ParentAlive
  /\ total' = total + attempt
  /\ Fail(total + attempt, {parent})
  /\ UNCHANGED <<parent, attemptCtx, provider, attempt, err, attemptErr, history>>

NoFallback ==
  /\ pc = "outer" /\ ParentAlive
  /\ ~FallbackEnabled \/ ~DefaultFallbackAllowed(err)
  /\ total' = total + attempt
  /\ Fail(total + attempt, err)
  /\ UNCHANGED <<parent, attemptCtx, provider, attempt, err, attemptErr, history>>

Fallback ==
  /\ pc = "outer" /\ ParentAlive
  /\ FallbackEnabled /\ DefaultFallbackAllowed(err)
  /\ total' = total + attempt
  /\ provider' = provider + 1
  /\ pc' = "loop"
  /\ UNCHANGED <<parent, attemptCtx, attempt, err, attemptErr, result, history>>

-----------------------------------------------------------------------------
\* The steps of the goroutine that runs Complete.
RouterStep ==
  \/ BeginAttempt
  \/ ReadAttemptErr
  \/ Succeed
  \/ ClassifyFailure
  \/ CallerGone
  \/ LeaveVendor
  \/ Retry
  \/ SleepElapses
  \/ SleepInterrupted
  \/ PreflightRejects
  \/ EnterVendor
  \/ Exhausted
  \/ CallerGoneOuter
  \/ NoFallback
  \/ Fallback

AnyAnswer ==
  \E e \in VendorFailures \cup {NilError} \cup {{c} : c \in ContextErrors},
     u \in VendorUsages \cup {NoUsage} : VendorAnswers(e, u)

\* The call has returned.
Returned == pc = "done" /\ UNCHANGED vars

Next ==
  \/ RouterStep
  \/ \E e \in ContextErrors : ParentDies(e)
  \/ AttemptTimerFires
  \/ AnyAnswer
  \/ Returned

Spec == Init /\ [][Next]_vars

\* The goroutine keeps running and a vendor whose context is dead eventually
\* returns (the Provider contract; FakeProvider selects on ctx.Done()).  A
\* vendor under a live context owes nothing, and the caller need never give up.
Fairness ==
  /\ WF_vars(RouterStep)
  /\ WF_vars(attemptCtx # "live" /\ AnyAnswer)

FairSpec == Spec /\ Fairness
-----------------------------------------------------------------------------
(* Properties.                                                             *)

TypeOK ==
  /\ parent \in {"alive"} \cup ContextErrors
  /\ attemptCtx \in {"none", "live"} \cup ContextErrors
  /\ pc \in Steps
  /\ provider \in 1 .. ProviderLimit + 1
  /\ attempt \in 0 .. Attempts
  /\ total \in Nat
  /\ err \in Errors
  /\ attemptErr \in {"none"} \cup ContextErrors
  /\ result \in [attempts : Nat, provider : 0 .. ProviderLimit, err : Errors,
                 usage : VendorUsages \cup {NoUsage}]
  /\ calls \in Nat
  /\ lateCalls \in Nat
  /\ raw \in Errors /\ usage \in VendorUsages \cup {NoUsage}
  /\ deadAtReturn \in BOOLEAN

\* Whatever path Complete returns by (success, a dead caller seen at any
\* check, an interrupted backoff, no fallback, exhaustion), the
\* Attempts it reports is the number of vendor calls it really made, and that
\* number never exceeds the configured budget.
AttemptsAreTheCallsMade ==
  pc = "done" => /\ result.attempts = calls
                 /\ calls <= Attempts * ProviderLimit

\* The router checks the caller's context and dispatches in two steps, so the
\* caller can die in between; but it can happen once only: the vendor call
\* that starts after the caller's death is the last.
AtMostOneLateCall == lateCalls <= 1

\* If the caller was dead when the last vendor call came back with a failure,
\* Complete returns the caller's own context error: neither that failure nor an
\* AttemptTimeoutError hides that the caller is gone.
CallerErrorWins ==
  pc = "done" /\ deadAtReturn /\ raw # NilError => result.err = {parent}

\* A completion a vendor has delivered is what Complete returns, from the vendor
\* that delivered it and with the usage it reported, even when the attempt timer
\* fired or the caller died just before; and Complete reports success in no
\* other case.
CompletionIsKept ==
  pc = "done" =>
    IF calls > 0 /\ raw = NilError
    THEN result.err = NilError /\ result.provider = provider /\ result.usage = usage
    ELSE result.err # NilError

\* Every failure names its cause: the router's last-resort error is never
\* returned, because a normalised configuration tries at least one vendor.
FailureHasACause == pc = "done" => "exhausted" \notin result.err

\* After a vendor's verdict that is not a transient failure (bad credentials,
\* malformed request, a context error of its own, an error of another type) no
\* vendor is called again, unless the attempt had by then run out of its time.
TerminalVerdictEndsTheCall ==
  [][ calls' # calls /\ calls > 0 =>
        raw \cap TransientKinds # {} \/ attemptErr = "deadline" ]_vars

\* How many steps Complete may still take: for each vendor left and each attempt
\* left with the vendor that is called, and on the way through the current one.
StepsLeft ==
  LET perVendor == 6 * Attempts + 3
      later     == (ProviderLimit - provider) * perVendor
      retries   == 6 * (Attempts - attempt)
  IN  CASE pc = "loop"     -> later + perVendor + 1
        [] pc = "attempt"  -> later + 2 + retries
        [] pc = "calling"  -> later + 2 + retries + 5
        [] pc = "returned" -> later + 2 + retries + 4
        [] pc = "classify" -> later + 2 + retries + 3
        [] pc = "check"    -> later + 2 + retries + 2
        [] pc = "sleep"    -> later + 2 + retries + 1
        [] pc = "outer"    -> later + 2
        [] pc = "done"     -> 0

\* Neither loop runs on for ever, whatever vendors answer and timers do: each step
\* of Complete leaves fewer to take, and only the end leaves none.
LoopsAreBounded ==
  [][ pc' # pc => StepsLeft' \in 0 .. StepsLeft - 1 /\ (StepsLeft' = 0 => pc' = "done") ]_vars

\* With a limit on the time of attempts, whose timer fires, Complete returns
\* however long vendors hang.
CompleteReturns ==
  AttemptTimeout /\ WF_vars(AttemptTimerFires) => <>(pc = "done")

\* Without that limit, or with timers that never fire, Complete still returns
\* once its caller is gone: no loop, wait or backoff outlives it.
DepartedCallerReturns == parent # "alive" ~> pc = "done"
-----------------------------------------------------------------------------
Port == INSTANCE ProviderPort WITH
          ctx        <- parent,
          outcome    <- result,
          Vendors    <- 1 .. ProviderLimit,
          CallBudget <- Attempts * ProviderLimit

\* The router keeps the promise of the Provider port: behind it, retries and
\* fallback are invisible.
RouterIsAProvider == Port!Spec
=============================================================================
