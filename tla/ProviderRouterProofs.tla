----------------------- MODULE ProviderRouterProofs -----------------------
(***************************************************************************)
(* Theorems about ProviderRouter, for every number of vendors, every       *)
(* configuration, every backoff and every set of vendor failures.          *)
(***************************************************************************)
EXTENDS ProviderRouter, TLAPS

\* Between entering a vendor and leaving it.
InVendor == {"attempt", "calling", "returned", "classify", "check", "sleep", "outer"}

\* The steps that can follow a vendor's answer without another dispatch.
AfterAnswer == {"returned", "classify", "check", "outer", "done"}

\* A vendor call, and only a vendor call, has a context of its own.
ContextScope == pc \in {"calling", "returned"} <=> attemptCtx # "none"

\* The running total and the inner attempt account for every call.
Accounting ==
  /\ pc \in InVendor => calls = total + attempt
  /\ pc = "loop" => calls = total
  /\ pc = "done" => result.attempts = calls /\ calls = total
  /\ pc # "done" => result = [attempts |-> 0, provider |-> 0, err |-> NilError,
                              usage |-> NoUsage]

\* The vendors already left used at most Attempts calls each.
Budget ==
  /\ pc # "loop" /\ pc # "done" => provider <= ProviderLimit
  /\ pc \in {"attempt", "sleep"} => attempt < Attempts
  /\ pc \in InVendor \ {"attempt"} => attempt > 0
  /\ pc # "done" => total <= (provider - 1) * Attempts
  /\ calls <= ProviderLimit * Attempts

\* After a call for a dead caller the router only unwinds.
Lateness ==
  /\ lateCalls \in {0, 1}
  /\ lateCalls = 1 => ~ParentAlive /\ pc \in AfterAnswer \cup {"calling"}
  /\ lateCalls = 1 /\ pc # "calling" => deadAtReturn
  /\ lateCalls <= calls

\* A caller seen dead by the history stays dead and ends the call.
Departure ==
  /\ deadAtReturn => ~ParentAlive /\ pc \in AfterAnswer
  /\ pc = "done" /\ deadAtReturn /\ raw # NilError => result.err = {parent}

\* What err, the history and the result say of the last answer.
LastAnswer ==
  /\ pc \in {"returned", "classify"} => err = raw
  /\ pc \in {"check", "sleep", "outer"} => raw # NilError /\ err # NilError
  /\ pc \in {"loop", "attempt"} => calls = 0 \/ raw # NilError
  /\ pc = "loop" /\ calls = 0 => provider = 1
  /\ pc = "loop" /\ calls > 0 => err # NilError
  /\ pc \in InVendor \ {"attempt"} => calls > 0
  /\ pc = "done" => IF calls > 0 /\ raw = NilError
                    THEN result.err = NilError /\ result.provider = provider /\ result.usage = usage
                    ELSE result.err # NilError
  /\ pc = "done" /\ calls = 0 => result.err = {parent} /\ ~ParentAlive
  /\ pc = "done" /\ result.err = NilError => result.provider \in 1 .. ProviderLimit
  /\ pc = "done" /\ result.err # NilError => result.usage = NoUsage

\* No error carries the last-resort link.
Caused ==
  /\ "exhausted" \notin err /\ "exhausted" \notin raw
  /\ "exhausted" \notin result.err

\* The last answer allows another call: a transient failure, or a timed out attempt.
MayGoOn == raw \cap TransientKinds # {} \/ attemptErr = "deadline"

\* Errors that the policies let pass come from answers that allow it.
Verdicts ==
  /\ "attempt_timeout" \notin raw
  /\ pc \in {"check", "outer"} /\ err \cap (TransientKinds \cup {"attempt_timeout"}) # {}
       => MayGoOn
  /\ pc \in {"sleep", "attempt", "loop"} /\ calls > 0 => MayGoOn

IInv ==
  TypeOK /\ ContextScope /\ Accounting /\ Budget /\ Lateness /\ Departure /\ LastAnswer /\ Caused /\ Verdicts

-----------------------------------------------------------------------------
\* The normalised configuration always allows one call.
LEMMA ConfigurationType ==
  /\ Attempts \in Nat \ {0}
  /\ ProviderLimit \in Nat \ {0}
  BY NumProvidersAssumption, MaxAttemptsAssumption, FallbackAssumption
  DEF Attempts, ProviderLimit

\* What the invariant needs to know of errors; after this the proofs treat
\* Errors as opaque.
LEMMA ErrorFacts ==
  /\ NilError \in Errors
  /\ {"exhausted"} \in Errors
  /\ \A e \in Errors : AttemptTimeoutError(e) \in Errors
  /\ \A e : AttemptTimeoutError(e) # NilError
  /\ \A e : "exhausted" \in AttemptTimeoutError(e) <=> "exhausted" \in e
  BY DEF Errors, Links, NilError, AttemptTimeoutError

\* The error of a dead context is neither nil nor a verdict of a vendor.
LEMMA ContextErrorFacts ==
  ASSUME NEW c \in ContextErrors
  PROVE  /\ {c} \in Errors /\ {c} # NilError
         /\ "exhausted" \notin {c} /\ "attempt_timeout" \notin {c}
         /\ {c} \cap (TransientKinds \cup {"attempt_timeout"}) = {}
  BY DEF Errors, Links, NilError, ContextErrors, TransientKinds

\* A vendor answers with an error that carries none of the router's own links.
LEMMA VendorAnswerFacts ==
  ASSUME TypeOK, ContextScope, NEW e, NEW u, VendorAnswers(e, u)
  PROVE  e \in Errors /\ "exhausted" \notin e /\ "attempt_timeout" \notin e
  <1>1. CASE e = NilError
    BY <1>1, ErrorFacts DEF NilError
  <1>2. CASE e \in VendorFailures
    BY <1>2, VendorFailuresAssumption
    DEF Errors, Links, ProviderFailureKinds, ContextErrors, TransientKinds, TerminalKinds
  <1>3. CASE e = {attemptCtx} /\ attemptCtx # "live"
    <2>1. attemptCtx \in ContextErrors
      BY <1>3 DEF TypeOK, ContextScope, VendorAnswers
    <2> QED
      BY <1>3, <2>1, ContextErrorFacts
  <1> QED
    BY <1>1, <1>2, <1>3 DEF VendorAnswers

\* The invariant holds when Complete is called.
LEMMA InitIInv == Init => IInv
  <1> SUFFICES ASSUME Init PROVE IInv
    OBVIOUS
  <1> USE ConfigurationType DEF Init
  <1>1. TypeOK
    <2>1. err \in Errors /\ raw \in Errors /\ usage \in VendorUsages \cup {NoUsage}
      BY ErrorFacts
    <2>2. result \in [attempts : Nat, provider : 0 .. ProviderLimit, err : Errors,
                      usage : VendorUsages \cup {NoUsage}]
      BY ErrorFacts
    <2>3. provider \in 1 .. ProviderLimit + 1 /\ attempt \in 0 .. Attempts
      OBVIOUS
    <2>4. deadAtReturn \in BOOLEAN /\ pc \in Steps
      BY DEF Steps
    <2>5. total \in Nat /\ calls \in Nat /\ lateCalls \in Nat
      OBVIOUS
    <2> QED
      BY <2>1, <2>2, <2>3, <2>4, <2>5 DEF TypeOK
  <1>2. ContextScope /\ Accounting /\ Budget /\ Lateness /\ Departure
    BY DEF ContextScope, Accounting, Budget, Lateness, Departure, InVendor, AfterAnswer, NilError
  <1>3. LastAnswer /\ Caused /\ Verdicts
    BY DEF LastAnswer, Caused, Verdicts, InVendor, NilError
  <1> QED
    BY <1>1, <1>2, <1>3 DEF IInv

\* Every step of the router and of its environment preserves it.
LEMMA StepIInv == IInv /\ [Next]_vars => IInv'
  <1> SUFFICES ASSUME IInv, [Next]_vars PROVE IInv'
    OBVIOUS
  <1> USE ConfigurationType DEF IInv, InVendor, AfterAnswer, ParentAlive, NilError, Steps,
          vars, locals, history, Fail, Deliver
  <1>1. ASSUME NEW e \in ContextErrors, ParentDies(e) PROVE IInv'
    <2> USE <1>1 DEF ParentDies
    <2>1. (TypeOK /\ ContextScope /\ Accounting /\ Budget /\ Lateness /\ Departure /\
           LastAnswer /\ Caused)'
      BY DEF TypeOK, ContextScope, ContextErrors, Accounting, Budget, Lateness,
             Departure, LastAnswer, Caused
    <2>2. Verdicts'
      BY DEF Verdicts, MayGoOn
    <2> QED
      BY <2>1, <2>2
  <1>2. CASE AttemptTimerFires
    <2> USE <1>2 DEF AttemptTimerFires
    <2>1. (TypeOK /\ ContextScope /\ Accounting /\ Budget /\ Lateness /\ Departure /\
           LastAnswer /\ Caused)'
      BY DEF TypeOK, ContextErrors, ContextScope, Accounting, Budget, Lateness,
             Departure, LastAnswer, Caused
    <2>2. Verdicts'
      BY DEF Verdicts, MayGoOn
    <2> QED
      BY <2>1, <2>2
  <1>3. ASSUME NEW e, NEW u \in VendorUsages \cup {NoUsage}, VendorAnswers(e, u) PROVE IInv'
    <2> USE <1>3 DEF VendorAnswers
    <2>1. (ContextScope /\ Accounting /\ Budget /\ Lateness /\ Departure /\ LastAnswer)'
      BY DEF ContextScope, Accounting, Budget, Lateness, Departure, LastAnswer
    <2>2. TypeOK'
      BY VendorAnswerFacts DEF TypeOK
    <2>3. Caused'
      BY VendorAnswerFacts DEF Caused
    <2>4. Verdicts'
      BY VendorAnswerFacts DEF Verdicts
    <2> QED
      BY <2>1, <2>2, <2>3, <2>4
  <1>4. CASE BeginAttempt
    <2> USE <1>4 DEF BeginAttempt
    <2>1. (Departure /\ Caused /\ Verdicts)'
      BY DEF Departure, Caused, Verdicts
    <2>2. TypeOK'
      BY DEF TypeOK, Budget
    <2>3. ContextScope'
      BY DEF ContextScope, TypeOK, ContextErrors
    <2>4. Accounting'
      BY DEF Accounting, TypeOK
    <2>5. Budget'
      BY DEF Budget, TypeOK, Accounting
    <2>6. Lateness'
      BY DEF Lateness, TypeOK
    <2>7. LastAnswer'
      BY DEF LastAnswer, TypeOK
    <2> QED
      BY <2>1, <2>2, <2>3, <2>4, <2>5, <2>6, <2>7
  <1>5. CASE ReadAttemptErr
    BY <1>5
    DEF ReadAttemptErr, TypeOK, ContextScope, Accounting, Budget, Lateness, Departure,
        LastAnswer, Caused, Verdicts
  <1>6. CASE Succeed
    <2> USE <1>6 DEF Succeed
    <2>1. (ContextScope /\ Accounting /\ Budget /\ Lateness /\ Caused /\ Verdicts)'
      BY DEF ContextScope, Accounting, Budget, Lateness, Caused, Verdicts
    <2>2. TypeOK'
      BY DEF TypeOK, Budget
    <2>3. Departure'
      BY DEF Departure, LastAnswer
    <2>4. LastAnswer'
      BY DEF LastAnswer, TypeOK, Budget
    <2> QED
      BY <2>1, <2>2, <2>3, <2>4
  <1>7. CASE ClassifyFailure
    <2> USE <1>7 DEF ClassifyFailure
    <2>1. (ContextScope /\ Accounting /\ Budget /\ Lateness /\ Departure)'
      BY DEF ContextScope, Accounting, Budget, Lateness, Departure
    <2>2. TypeOK'
      BY ErrorFacts DEF TypeOK, WrapError
    <2>3. LastAnswer'
      BY DEF LastAnswer, WrapError, AttemptTimeoutError
    <2>4. Caused'
      BY DEF Caused, WrapError, AttemptTimeoutError
    <2>5. Verdicts'
      BY DEF Verdicts, LastAnswer, WrapError, MayGoOn
    <2> QED
      BY <2>1, <2>2, <2>3, <2>4, <2>5
  <1>8. CASE CallerGone
    <2> USE <1>8 DEF CallerGone
    <2>0. parent \in ContextErrors
      BY DEF TypeOK, ParentAlive
    <2>1. (ContextScope /\ Accounting /\ Budget /\ Lateness /\ Departure /\ LastAnswer)'
      BY DEF ContextScope, Accounting, Budget, Lateness, Departure, LastAnswer
    <2>2. TypeOK'
      BY <2>0, ContextErrorFacts DEF TypeOK
    <2>3. Caused'
      BY <2>0, ContextErrorFacts DEF Caused
    <2>4. Verdicts'
      BY <2>0, ContextErrorFacts DEF Verdicts
    <2> QED
      BY <2>1, <2>2, <2>3, <2>4
  <1>9. CASE LeaveVendor
    <2> USE <1>9 DEF LeaveVendor
    <2>1. (TypeOK /\ ContextScope /\ Accounting /\ Budget /\ Lateness /\ Departure /\
           LastAnswer /\ Caused)'
      BY DEF TypeOK, ContextScope, Accounting, Budget, Lateness, Departure, LastAnswer,
             Caused
    <2>2. Verdicts'
      BY DEF Verdicts, MayGoOn
    <2> QED
      BY <2>1, <2>2
  <1>10. CASE Retry
    <2> USE <1>10 DEF Retry
    <2>1. (TypeOK /\ ContextScope /\ Accounting /\ Lateness /\ Departure /\
           LastAnswer /\ Caused)'
      BY DEF TypeOK, ContextScope, Accounting, Lateness, Departure, LastAnswer, Caused
    <2>2. Budget'
      BY DEF Budget, TypeOK, LastAttempt
    <2>3. Verdicts'
      BY DEF Verdicts, MayGoOn, DefaultRetryableProviderError, IsRetryableProviderError
    <2> QED
      BY <2>1, <2>2, <2>3
  <1>11. CASE SleepElapses
    <2> USE <1>11 DEF SleepElapses
    <2>1. (TypeOK /\ ContextScope /\ Accounting /\ Budget /\ Lateness /\ Departure /\
           LastAnswer /\ Caused)'
      BY DEF TypeOK, ContextScope, Accounting, Budget, Lateness, Departure, LastAnswer,
             Caused
    <2>2. Verdicts'
      BY DEF Verdicts, MayGoOn
    <2> QED
      BY <2>1, <2>2
  <1>12. CASE SleepInterrupted
    <2> USE <1>12 DEF SleepInterrupted
    <2>0. parent \in ContextErrors
      BY DEF TypeOK, ParentAlive
    <2>1. (ContextScope /\ Accounting /\ Budget /\ Lateness /\ Departure /\ LastAnswer)'
      BY DEF ContextScope, Accounting, Budget, Lateness, Departure, LastAnswer
    <2>2. TypeOK'
      BY <2>0, ContextErrorFacts DEF TypeOK
    <2>3. Caused'
      BY <2>0, ContextErrorFacts DEF Caused
    <2>4. Verdicts'
      BY DEF Verdicts, LastAnswer, MayGoOn
    <2> QED
      BY <2>1, <2>2, <2>3, <2>4
  <1>13. CASE PreflightRejects
    <2> USE <1>13 DEF PreflightRejects
    <2>0. parent \in ContextErrors
      BY DEF TypeOK, ParentAlive
    <2>1. (ContextScope /\ Accounting /\ Budget /\ Lateness /\ Departure /\
           LastAnswer /\ Verdicts)'
      BY DEF ContextScope, Accounting, Budget, Lateness, Departure, LastAnswer, Verdicts
    <2>2. TypeOK'
      BY <2>0, ContextErrorFacts DEF TypeOK
    <2>3. Caused'
      BY <2>0, ContextErrorFacts DEF Caused
    <2> QED
      BY <2>1, <2>2, <2>3
  <1>14. CASE EnterVendor
    <2> USE <1>14 DEF EnterVendor
    <2>1. (TypeOK /\ ContextScope /\ Budget /\ Lateness /\ Departure /\ LastAnswer /\
           Caused)'
      BY DEF TypeOK, ContextScope, Budget, Lateness, Departure, LastAnswer, Caused
    <2>2. Accounting'
      BY DEF Accounting, TypeOK
    <2>3. Verdicts'
      BY DEF Verdicts, MayGoOn
    <2> QED
      BY <2>1, <2>2, <2>3
  <1>15. CASE Exhausted
    <2> USE <1>15 DEF Exhausted
    <2>1. (ContextScope /\ Accounting /\ Budget /\ Lateness /\ Departure /\ Verdicts)'
      BY DEF ContextScope, Accounting, Budget, Lateness, Departure, Verdicts
    <2>2. TypeOK'
      BY DEF TypeOK, LastAnswer
    <2>3. LastAnswer'
      <3>1. calls > 0 /\ raw # NilError /\ err # NilError
        BY DEF TypeOK, LastAnswer
      <3>2. /\ pc' = "done" /\ calls' = calls /\ raw' = raw
            /\ result'.err = err /\ result'.usage = NoUsage
        BY <3>1
      <3>3. calls' # 0 /\ raw' # NilError /\ result'.err # NilError
        BY <3>1, <3>2
      <3> HIDE DEF Exhausted, NilError
      <3> QED
        BY <3>2, <3>3 DEF LastAnswer
    <2>4. Caused'
      BY DEF Caused, TypeOK, LastAnswer
    <2> QED
      BY <2>1, <2>2, <2>3, <2>4
  <1>16. CASE CallerGoneOuter
    <2> USE <1>16 DEF CallerGoneOuter
    <2>0. parent \in ContextErrors
      BY DEF TypeOK, ParentAlive
    <2>1. (ContextScope /\ Accounting /\ Budget /\ Lateness /\ Departure /\
           LastAnswer /\ Verdicts)'
      BY DEF ContextScope, Accounting, Budget, Lateness, Departure, LastAnswer, Verdicts
    <2>2. TypeOK'
      BY <2>0, ContextErrorFacts DEF TypeOK
    <2>3. Caused'
      BY <2>0, ContextErrorFacts DEF Caused
    <2> QED
      BY <2>1, <2>2, <2>3
  <1>17. CASE NoFallback
    BY <1>17
    DEF NoFallback, TypeOK, ContextScope, Accounting, Budget, Lateness, Departure,
        LastAnswer, Caused, Verdicts
  <1>18. CASE Fallback
    <2> USE <1>18 DEF Fallback
    <2>1. (ContextScope /\ Accounting /\ Lateness /\ Departure /\ LastAnswer /\ Caused)'
      BY DEF ContextScope, Accounting, Lateness, Departure, LastAnswer, Caused
    <2>2. TypeOK'
      BY DEF TypeOK, Budget
    <2>3. Budget'
      BY DEF Budget, TypeOK
    <2>4. Verdicts'
      BY DEF Verdicts, MayGoOn, DefaultFallbackAllowed, IsFallbackEligibleProviderError,
             IsRetryableProviderError
    <2> QED
      BY <2>1, <2>2, <2>3, <2>4
  <1>19. CASE UNCHANGED vars
    BY <1>19
    DEF TypeOK, ContextScope, Accounting, Budget, Lateness, Departure, LastAnswer,
        Caused, Verdicts, MayGoOn
  <1> QED
    BY <1>1, <1>2, <1>3, <1>4, <1>5, <1>6, <1>7, <1>8, <1>9, <1>10, <1>11, <1>12, <1>13,
       <1>14, <1>15, <1>16, <1>17, <1>18, <1>19
    DEF Next, RouterStep, AnyAnswer, Returned

-----------------------------------------------------------------------------
\* The inductive invariant holds throughout every call.
THEOREM RouterInvariant == Spec => []IInv
  <1> QED
    BY InitIInv, StepIInv, PTL DEF Spec

\* Every variable of the router keeps its type, in particular the vendor index
\* and the attempt number stay within the configured limits.
THEOREM TypeCorrect == Spec => []TypeOK
  <1>1. IInv => TypeOK
    BY DEF IInv
  <1> QED
    BY <1>1, RouterInvariant, PTL

\* Complete reports exactly the vendor calls it made and never exceeds its
\* budget, for every configuration and on every return path.
THEOREM AttemptsReported == Spec => []AttemptsAreTheCallsMade
  <1>1. IInv => AttemptsAreTheCallsMade
    BY ConfigurationType DEF IInv, Accounting, Budget, AttemptsAreTheCallsMade
  <1> QED
    BY <1>1, RouterInvariant, PTL

\* However the caller's death interleaves with the router's steps, at most one
\* vendor call starts after it.
THEOREM OneLateCall == Spec => []AtMostOneLateCall
  <1>1. IInv => AtMostOneLateCall
    BY DEF IInv, Lateness, AtMostOneLateCall
  <1> QED
    BY <1>1, RouterInvariant, PTL

\* A caller that was gone when the last vendor call failed gets its own error.
THEOREM CallerErrorReturned == Spec => []CallerErrorWins
  <1>1. IInv => CallerErrorWins
    BY DEF IInv, Departure, CallerErrorWins
  <1> QED
    BY <1>1, RouterInvariant, PTL

\* A delivered completion is returned, and nothing else is a success.
THEOREM CompletionReturned == Spec => []CompletionIsKept
  <1>1. IInv => CompletionIsKept
    BY DEF IInv, LastAnswer, CompletionIsKept
  <1> QED
    BY <1>1, RouterInvariant, PTL

\* The router's last-resort error is dead code.
THEOREM FailuresHaveCauses == Spec => []FailureHasACause
  <1>1. IInv => FailureHasACause
    BY DEF IInv, Caused, FailureHasACause
  <1> QED
    BY <1>1, RouterInvariant, PTL

\* No vendor is called again after a verdict that is not transient, unless
\* the attempt had run out of its time.
THEOREM TerminalVerdicts == Spec => TerminalVerdictEndsTheCall
  <1>1. IInv /\ [Next]_vars
          => [calls' # calls /\ calls > 0 =>
                raw \cap TransientKinds # {} \/ attemptErr = "deadline"]_vars
    <2> SUFFICES ASSUME IInv, Next, calls' # calls, calls > 0
                 PROVE  MayGoOn
      BY DEF MayGoOn, vars, history
    <2>1. BeginAttempt
      BY DEF Next, RouterStep, AnyAnswer, Returned, ParentDies, AttemptTimerFires,
             VendorAnswers, ReadAttemptErr, Succeed, ClassifyFailure, CallerGone,
             LeaveVendor, Retry, SleepElapses, SleepInterrupted, PreflightRejects,
             EnterVendor, Exhausted, CallerGoneOuter, NoFallback, Fallback, vars, history
    <2> QED
      BY <2>1 DEF BeginAttempt, IInv, Verdicts
  <1> QED
    BY <1>1, RouterInvariant, PTL DEF Spec, TerminalVerdictEndsTheCall

-----------------------------------------------------------------------------
(* The variant of the two loops.                                           *)

PerVendor == 6 * Attempts + 3

\* What StepsLeft allows the vendors after the current one.
Later == (ProviderLimit - provider) * PerVendor

\* Never negative, but when the range of the fallback loop is exhausted.
LEMMA LaterFacts ==
  ASSUME IInv
  PROVE  /\ PerVendor \in Nat /\ PerVendor >= 6 * Attempts + 3 /\ Later \in Int
         /\ Later + PerVendor >= 0
         /\ provider <= ProviderLimit => Later >= 0
         /\ attempt \in 0 .. Attempts
  <1>1. /\ Attempts \in Nat \ {0} /\ ProviderLimit \in Nat \ {0}
        /\ provider \in 1 .. ProviderLimit + 1 /\ attempt \in 0 .. Attempts
    BY ConfigurationType DEF IInv, TypeOK
  <1>2. PerVendor \in Nat /\ PerVendor >= 6 * Attempts + 3
    BY <1>1 DEF PerVendor
  <1>3. CASE provider <= ProviderLimit
    <2>1. ProviderLimit - provider \in Nat
      BY <1>1, <1>3
    <2>2. \A a, b \in Nat : a * b \in Nat
      OBVIOUS
    <2>3. Later \in Nat
      BY <1>2, <2>1, <2>2 DEF Later
    <2> QED
      BY <1>1, <1>2, <2>3
  <1>4. CASE provider = ProviderLimit + 1
    <2>1. Later = (-1) * PerVendor
      BY <1>1, <1>4 DEF Later
    <2> QED
      BY <1>1, <1>2, <1>4, <2>1
  <1> QED
    BY <1>1, <1>3, <1>4

\* The measure at each step, for the arithmetic below.
LEMMA StepsLeftAt ==
  /\ pc = "loop" => StepsLeft = Later + PerVendor + 1
  /\ pc = "attempt" => StepsLeft = Later + 2 + 6 * (Attempts - attempt)
  /\ pc = "calling" => StepsLeft = Later + 2 + 6 * (Attempts - attempt) + 5
  /\ pc = "returned" => StepsLeft = Later + 2 + 6 * (Attempts - attempt) + 4
  /\ pc = "classify" => StepsLeft = Later + 2 + 6 * (Attempts - attempt) + 3
  /\ pc = "check" => StepsLeft = Later + 2 + 6 * (Attempts - attempt) + 2
  /\ pc = "sleep" => StepsLeft = Later + 2 + 6 * (Attempts - attempt) + 1
  /\ pc = "outer" => StepsLeft = Later + 2
  /\ pc = "done" => StepsLeft = 0
  BY DEF StepsLeft, Later, PerVendor

\* ... and after one.
LEMMA StepsLeftNext ==
  /\ pc' = "loop" => StepsLeft' = Later' + PerVendor + 1
  /\ pc' = "attempt" => StepsLeft' = Later' + 2 + 6 * (Attempts - attempt')
  /\ pc' = "calling" => StepsLeft' = Later' + 2 + 6 * (Attempts - attempt') + 5
  /\ pc' = "returned" => StepsLeft' = Later' + 2 + 6 * (Attempts - attempt') + 4
  /\ pc' = "classify" => StepsLeft' = Later' + 2 + 6 * (Attempts - attempt') + 3
  /\ pc' = "check" => StepsLeft' = Later' + 2 + 6 * (Attempts - attempt') + 2
  /\ pc' = "sleep" => StepsLeft' = Later' + 2 + 6 * (Attempts - attempt') + 1
  /\ pc' = "outer" => StepsLeft' = Later' + 2
  /\ pc' = "done" => StepsLeft' = 0
  <1>1. Attempts' = Attempts /\ ProviderLimit' = ProviderLimit /\ PerVendor' = PerVendor
    BY DEF Attempts, ProviderLimit, PerVendor
  <1> QED
    BY <1>1 DEF StepsLeft, Later, PerVendor

\* One variant for both loops, by the step taken.
LEMMA StepLoops ==
  ASSUME IInv, [Next]_vars, pc' # pc
  PROVE  StepsLeft' \in 0 .. StepsLeft - 1 /\ (StepsLeft' = 0 => pc' = "done")
  <1>0. Attempts \in Nat \ {0} /\ ProviderLimit \in Nat \ {0} /\ IInv'
    BY ConfigurationType, StepIInv
  <1>v. pc \notin {"loop", "done"} => provider <= ProviderLimit
    BY DEF IInv, Budget
  <1>l. provider' = provider => Later' = Later
    BY DEF Later
  <1>1. CASE BeginAttempt
    <2>1. /\ pc = "attempt" /\ pc' = "calling" /\ attempt' = attempt + 1 /\ Later' = Later
          /\ attempt < Attempts
      BY <1>1, <1>l DEF BeginAttempt, IInv, Budget
    <2> QED
      BY <1>0, <1>v, <2>1, LaterFacts, StepsLeftAt, StepsLeftNext
  <1>2. CASE AnyAnswer
    <2>1. pc = "calling" /\ pc' = "returned" /\ attempt' = attempt /\ Later' = Later
      BY <1>2, <1>l DEF AnyAnswer, VendorAnswers
    <2> QED
      BY <1>0, <1>v, <2>1, LaterFacts, StepsLeftAt, StepsLeftNext
  <1>3. CASE ReadAttemptErr
    <2>1. pc = "returned" /\ pc' = "classify" /\ attempt' = attempt /\ Later' = Later
      BY <1>3, <1>l DEF ReadAttemptErr
    <2> QED
      BY <1>0, <1>v, <2>1, LaterFacts, StepsLeftAt, StepsLeftNext
  <1>4. CASE ClassifyFailure
    <2>1. pc = "classify" /\ pc' = "check" /\ attempt' = attempt /\ Later' = Later
      BY <1>4, <1>l DEF ClassifyFailure
    <2> QED
      BY <1>0, <1>v, <2>1, LaterFacts, StepsLeftAt, StepsLeftNext
  <1>5. CASE CallerGone \/ LeaveVendor \/ SleepInterrupted
    <2>1. pc \in {"check", "sleep"} /\ pc' = "outer" /\ Later' = Later
      BY <1>5, <1>l DEF CallerGone, LeaveVendor, SleepInterrupted, locals
    <2> QED
      BY <1>0, <1>v, <2>1, LaterFacts, StepsLeftAt, StepsLeftNext
  <1>6. CASE Retry \/ SleepElapses
    <2>1. /\ \/ pc = "check" /\ pc' = "sleep"
             \/ pc = "sleep" /\ pc' = "attempt"
          /\ attempt' = attempt /\ Later' = Later
      BY <1>6, <1>l DEF Retry, SleepElapses, locals
    <2> QED
      BY <1>0, <1>v, <2>1, LaterFacts, StepsLeftAt, StepsLeftNext
  <1>7. CASE EnterVendor
    <2>1. /\ pc = "loop" /\ pc' = "attempt" /\ attempt' = 0 /\ Later' = Later
          /\ provider <= ProviderLimit
      BY <1>7, <1>l DEF EnterVendor
    <2> QED
      BY <1>0, <2>1, LaterFacts, StepsLeftAt, StepsLeftNext
  <1>8. CASE Fallback
    <2>1. pc = "outer" /\ pc' = "loop" /\ provider' = provider + 1
      BY <1>8 DEF Fallback
    <2>2. provider \in Int
      BY DEF IInv, TypeOK
    <2>3. Later' = Later - PerVendor
      <3>1. Later' = (ProviderLimit - (provider + 1)) * PerVendor
        BY <2>1 DEF Later
      <3>2. \A a, b \in Int : (a - 1) * b = a * b - b
        OBVIOUS
      <3>3. ProviderLimit - (provider + 1) = (ProviderLimit - provider) - 1
            /\ ProviderLimit - provider \in Int
        BY <1>0, <2>2
      <3> QED
        BY LaterFacts, <3>1, <3>2, <3>3 DEF Later
    <2> QED
      BY <1>0, <1>v, <2>1, <2>3, LaterFacts, StepsLeftAt, StepsLeftNext
  <1>9. CASE Succeed \/ PreflightRejects \/ Exhausted \/ CallerGoneOuter \/ NoFallback
    <2>1. pc \in {"classify", "loop", "outer"} /\ pc' = "done"
      BY <1>9 DEF Succeed, PreflightRejects, Exhausted, CallerGoneOuter, NoFallback, Fail, Deliver
    <2> QED
      BY <1>0, <1>v, <2>1, LaterFacts, StepsLeftAt, StepsLeftNext
  <1>10. CASE (\E e \in ContextErrors : ParentDies(e)) \/ AttemptTimerFires \/ Returned \/ UNCHANGED vars
    BY <1>10 DEF ParentDies, AttemptTimerFires, Returned, vars
  <1> QED
    BY <1>1, <1>2, <1>3, <1>4, <1>5, <1>6, <1>7, <1>8, <1>9, <1>10 DEF Next, RouterStep

\* Both loops of the router end, in every configuration and whatever vendors answer:
\* completeWithRetries and the fallback loop have a common variant.
THEOREM LoopsEnd == Spec => LoopsAreBounded
  <1>1. IInv /\ [Next]_vars =>
          [ pc' # pc => StepsLeft' \in 0 .. StepsLeft - 1 /\ (StepsLeft' = 0 => pc' = "done") ]_vars
    BY StepLoops
  <1> QED
    BY <1>1, RouterInvariant, PTL DEF Spec, LoopsAreBounded

-----------------------------------------------------------------------------
(* The router implements the Provider port.                                *)

\* The port's copies of the vocabularies are the router's.
LEMMA SameErrors ==
  /\ Port!NoUsage = NoUsage
  /\ Port!NilError = NilError
  /\ Port!ContextErrors = ContextErrors
  /\ Port!Errors = Errors
  BY DEF Port!NoUsage, NoUsage, Port!NilError, NilError, Port!ContextErrors, ContextErrors, Port!Errors, Errors,
         Port!Links, Links, Port!ProviderFailureKinds, ProviderFailureKinds,
         Port!TransientKinds, TransientKinds, Port!TerminalKinds, TerminalKinds

\* The router's initial state is the port's.
LEMMA InitPort == Init => Port!Init
  BY SameErrors DEF Init, Port!Init, Port!Pending

\* Until Complete returns, its outcome is the port's Pending.
LEMMA PendingUntilDone == IInv /\ pc # "done" => result = Port!Pending
  BY SameErrors DEF IInv, Accounting, Port!Pending

\* A step of the router or of its environment is a step of the port or none.
LEMMA StepPort == IInv /\ [Next]_vars => [Port!Next]_Port!vars
  <1> SUFFICES ASSUME IInv, [Next]_vars PROVE [Port!Next]_Port!vars
    OBVIOUS
  <1> USE ConfigurationType, PendingUntilDone, SameErrors
      DEF vars, locals, history, Port!vars
  <1>1. ASSUME NEW e \in ContextErrors, ParentDies(e) PROVE Port!CallerLeaves
    BY <1>1 DEF ParentDies, ParentAlive, Port!CallerLeaves
  <1>2. CASE BeginAttempt
    <2>1. calls < Attempts * ProviderLimit
      <3>1. calls' <= ProviderLimit * Attempts /\ calls' = calls + 1
        BY <1>2, StepIInv DEF BeginAttempt, IInv, Budget
      <3> QED
        BY <3>1 DEF IInv, TypeOK
    <2>2. ~ParentAlive => lateCalls = 0
      BY <1>2 DEF BeginAttempt, IInv, Lateness, AfterAnswer
    <2>3. Port!CallVendor
      BY <1>2, <2>1, <2>2 DEF BeginAttempt, ParentAlive, Port!CallVendor
    <2> QED
      BY <2>3 DEF Port!Next
  <1>3. CASE Succeed
    <2>1. pc # "done" /\ calls > 0 /\ total + attempt = calls
      BY <1>3 DEF Succeed, IInv, LastAnswer, Accounting, InVendor
    <2>2. provider \in 1 .. ProviderLimit /\ usage \in VendorUsages \cup {NoUsage}
      BY <1>3 DEF Succeed, IInv, TypeOK, Budget
    <2>3. Port!Complete
      BY <1>3, <2>1, <2>2 DEF Succeed, Deliver, Port!Complete
    <2> QED
      BY <2>3 DEF Port!Next
  <1>4. CASE PreflightRejects \/ Exhausted \/ CallerGoneOuter \/ NoFallback
    <2>1. IInv'
      BY StepIInv
    <2>2. /\ result = Port!Pending
          /\ UNCHANGED <<parent, calls, lateCalls, raw>>
          /\ pc' = "done"
          /\ result'.provider = 0 /\ result'.usage = NoUsage
      BY <1>4 DEF PreflightRejects, Exhausted, CallerGoneOuter, NoFallback, Fail
    <2>3. /\ result' = [attempts |-> calls, provider |-> 0, err |-> result'.err,
                        usage |-> NoUsage]
          /\ result'.err \in Errors
      BY <2>1, <2>2 DEF IInv, TypeOK, Accounting
    <2>4. result'.err # NilError
      BY <1>4, <2>1, <2>2 DEF IInv, TypeOK, LastAnswer
    <2>5. calls = 0 \/ lateCalls > 0 => parent # "alive" /\ result'.err = {parent}
      <3>1. CASE calls = 0
        BY <3>1, <2>1, <2>2 DEF IInv, LastAnswer, ParentAlive
      <3>2. CASE lateCalls > 0
        <4>1. lateCalls' = 1 /\ deadAtReturn' /\ ~ParentAlive'
          BY <3>2, <2>1, <2>2 DEF IInv, Lateness
        <4>2. raw' # NilError
          <5>1. calls' > 0
            BY <2>1, <4>1 DEF IInv, TypeOK, Lateness
          <5> QED
            BY <2>1, <2>2, <2>4, <5>1 DEF IInv, LastAnswer
        <4> QED
          BY <2>1, <2>2, <4>1, <4>2 DEF IInv, Departure, ParentAlive
      <3> QED
        BY <3>1, <3>2
    <2>6. Port!Fail
      BY <2>2, <2>3, <2>4, <2>5 DEF Port!Fail
    <2> QED
      BY <2>6 DEF Port!Next
  <1>5. CASE \/ AttemptTimerFires \/ AnyAnswer \/ ReadAttemptErr \/ ClassifyFailure
             \/ CallerGone \/ LeaveVendor \/ Retry \/ SleepElapses \/ SleepInterrupted
             \/ EnterVendor \/ Fallback \/ UNCHANGED vars
    BY <1>5 DEF AttemptTimerFires, AnyAnswer, VendorAnswers, ReadAttemptErr,
                ClassifyFailure, CallerGone, LeaveVendor, Retry, SleepElapses,
                SleepInterrupted, EnterVendor, Fallback
  <1> QED
    BY <1>1, <1>2, <1>3, <1>4, <1>5 DEF Next, RouterStep, Returned, Port!Next

\* Retries, timers, backoff and fallback are invisible behind the port: every
\* behaviour of the router is a behaviour of the abstract Provider.
THEOREM RouterImplementsPort == Spec => RouterIsAProvider
  <1> QED
    BY InitPort, StepPort, RouterInvariant, PTL DEF Spec, RouterIsAProvider, Port!Spec
=============================================================================
