# Logiflow in TLA+

A model of the running code of this repository: what the LLM gateway does with a
completion request, who pays for it, and how the processes around the services
start and stop. Everything is translated from the Go source; documents are read
only to find out what the code is supposed to promise.

* [Inventory](#inventory): the parts of the system
* [Modules](#modules): what models what, and how to read it
* [Runs](#runs): what TLC checks, on which instances
* [Fairness](#fairness)
* [Proofs](#proofs): what holds for every configuration
* [Findings](#findings): where documents and code disagree
* [Not modelled](#not-modelled)
* [Plan](#plan)

## Inventory

Of the services named in the documentation, the LLM gateway is the one with
behaviour. `services/stream-ingestion` and `service-template` are empty packages,
and `stream-ingestion`'s process serves constant answers.

| Part | Code | State | Operations | What is hard |
|---|---|---|---|---|
| Provider router | `application/provider_router.go`, `provider_errors.go` | locals of two nested loops, a context per attempt | `Complete`: retry, fallback, timer, backoff | the caller and the timer act between any two steps; error chains with several links |
| Gateway service | `application/service.go`, `metadata.go` | the request's metadata | `Complete`: eight stages | what is reported and billed on each early exit; which deadline ends the call; a goroutine that outlives the request |
| Task registry, shipment-risk capability | `application/registry.go`, `domain/shipmentrisk` | none after construction | resolve, `ValidateCommand`, `DecodeAndValidate` | one check relies on another having run; where trust in an answer begins |
| Domain model, policy, errors | `domain/*.go` | none | validation | classification by `errors.Is` |
| Usage event | `domain/events.go` | none | `Validate` | silent drops; sums that wrap around |
| Budget and rate-limit admission | `application/budget_policy.go` | behind two ports | `Admit`, `Reconcile` | two calls that are not atomic, replies lost or late, expiry |
| Cache key | `application/cache_policy.go` | none | `BuildCacheKey` | two requests with one key |
| Fake provider | `infrastructure/provider/fake.go` | a call counter | `Complete` | answers against a dead context |
| Redis adapter | `infrastructure/redis/repository.go` | none | answers `ErrNotImplemented` | |
| Processes | `cmd/llm-gateway`, `cmd/stream-ingestion`, `cmd/hello` | two goroutines, a channel, signals | smoke check, serve, shut down | a startup that waits for vendors, error against signal, grace period against requests in flight |
| Observability, scripts, deployment | `internal/observability`, `scripts`, `deployment` | none | | |

**How they interact.** `cmd/llm-gateway/main.go` builds a registry with one
capability, a router over two fake vendors and a service over both. If asked to, it
sends one smoke request through all of it before it serves. A request enters
`Service.Complete`, which validates it (command shape, policy, registry,
capability), bounds its context by the command's deadline, looks at that context,
and calls the `Provider` port. The port is the router: it calls vendors, each under
a context of its own derived from the call's. What comes back is copied into the
metadata, decoded and validated by the capability, and, if a vendor completed,
leaves a usage event with a goroutine that talks to the publisher under a detached
context. The request, the attempt timer, the vendor and the caller are concurrent;
they share contexts and nothing else. Budget admission and the cache key are
written against ports and called by nobody yet. The HTTP handler of `/v1/complete`
is a stub (501), so the smoke request is the one place where the process and the
gateway meet.

**What makes each part correct.**

* *Router*: its attempt count is the number of calls really made, over every
  vendor and on every exit; the budget holds; a completion once delivered is never
  lost; a dead caller stops the work and gets its own error; a verdict is not
  retried; every call ends.
* *Service*: metadata, returned value and event tell one story on every path; no
  bill without a call; a preflight verdict is only given before a call; billing sees
  true sums; the call ends with its caller and at the first of its deadlines.
* *Capability*: nothing unactionable is trusted, nothing actionable is refused;
  the checks after the vendor may rely on the ones before it.
* *Budget*: it fails closed whatever the store and the network do, and concurrent
  requests cost more than the allowance only where estimates or the books are wrong.
* *Cache key*: no two requests share one.
* *Process*: startup ends; only a gateway that works serves; success means that
  nobody was cut off; a signal ends it.

## Modules

| Module | Models | Notes |
|---|---|---|
| `ProviderErrors` | error chains and the decision functions over them | an error is the set of links `errors.Is` and `errors.As` can find in it; nil is the empty set |
| `UsageEvent` | the usage a vendor reports, and `AIUsageEvent.Validate` | machine integers of any width |
| `ProviderPort` | what `Provider.Complete` promises | abstract: no retries, order, timers or delays |
| `ProviderRouter` | one `ProviderRouter.Complete` call | implements `ProviderPort` |
| `GatewayService` | one `Service.Complete` call over `ProviderPort` | the preflight checks and the decode stage are verdicts |
| `LLMGateway` | service and router composed | implements `GatewayService` |
| `CallContext` | `withEffectiveDeadline`, the clock and the contexts it deals with | |
| `CompletionTask` | `GatewayService` with the data its stages look at, over `CallContext` | implements `GatewayService`: command, deadlines and answer decide what it leaves open |
| `BudgetAdmission` | concurrent `Admit` and `Reconcile` calls | store and limiter are external |
| `CacheKey` | calls of `BuildCacheKey` | texts are sequences of characters here, since the property is about the encoding |
| `ServiceProcess` | the main functions of the three processes | constants say in what they differ |
| `GatewayProcess` | `ServiceProcess` around `LLMGateway`: all of `cmd/llm-gateway` | the smoke request is the one that runs |
| `...Proofs` | theorems about the module of that name | |
| `InductionLemmas` | induction over naturals and finite sets, sums over sets | what the proofs about `BudgetAdmission` and `CacheKey` share |
| `MC...` | instances for TLC | |

**Steps.** A handler is cut where it reads what another goroutine writes: a
context's `Err()`, a vendor's answer, a `select`, a store's reply. All between two
such reads touches locals only and is one action. In `ProviderRouter`:

| `pc` | the code is about to |
|---|---|
| `loop` | check the caller at the top of the fallback loop (`PreflightRejects`, `EnterVendor`, `Exhausted`) |
| `attempt` | build the attempt context and dispatch (`BeginAttempt`) |
| `calling` | wait for the vendor (`VendorAnswers`) |
| `returned` | read `attemptCtx.Err()` and cancel (`ReadAttemptErr`) |
| `classify` | return a completion (`Succeed`) or wrap the error under a live caller (`ClassifyFailure`) |
| `check` | check the caller, then the retry policy (`CallerGone`, `LeaveVendor`, `Retry`) |
| `sleep` | back off (`SleepElapses`, `SleepInterrupted`) |
| `outer` | check the caller, then the fallback policy (`CallerGoneOuter`, `NoFallback`, `Fallback`) |

`parent` and `attemptCtx` are the two contexts; `provider`, `attempt`, `total`,
`err` and `attemptErr` are the locals of the same meaning, and `usage` is what the
last vendor's response reported. `calls`, `lateCalls`, `raw` and `deadAtReturn` are
history: the code has no such state, they say what happened so that properties can
be about it. The caller's death and that of the context derived from it are one
step; between the two the router could only see a dead caller, and that is all it
acts on.

In `GatewayService`, `stage` is the stage of `Complete` about to run, `metadata`
the part of `ExecutionMetadata` the properties tell apart, `returned` what the
caller got, `event` the usage event and where it is. `defects` is drawn at the
start: the set of preflight checks this request fails; the first in the code's
order decides. `ctx` is the call's context, on which nothing but its death is
assumed: the caller's, or one that the command's deadline ends as well.

In `CompletionTask`, which adds the data, `defects` is computed from `command`, the
decode stage from `answer`, and `ctx` lives under `CallContext`: `caller` is the
caller's context, `derived` says whether a second one was made, `now` is the clock,
and a timer may fire late but never early.

In `BudgetAdmission` a reservation is sent, takes effect in the store and is
answered in separate steps; Admit may see a failure while the store goes on to
take the reservation, and a reservation may expire at any time. `Reconcile` sends any
cost that is not negative, above the estimate or below (`ActualCosts`), as a bill that
the store books later or never; it is called at most once for a request. Histories
keep what the books may miss: what requests really cost (`incurred`), by how much that
exceeded their estimates (`overrun`), and whose reservation ran out unbooked (`lapsed`).

In `ServiceProcess`, `main` is where the main goroutine is, `serverErrors` the
channel between it and the serving goroutine, `grace` the shutdown context's timer
and `request` what became of each client. In `GatewayProcess` the state `smoke` of
`main` lasts as long as the smoke request is with the service and the router; its
caller is the five-second context of `runStartupSmoke`.

**Naming.** Names follow the Go source. A definition `X_Y` is `X` with the
plausible bug `Y`. No specification uses it: it stands beside `X`, and putting it
in the place of `X` breaks the property that PROJECT.json pairs it with, which
shows that the property depends on that line of the code.

## Runs

A run is `tlc -config <cfg> <module>`; the longest takes about half a minute.

| Run | Module, configuration | States | Shows |
|---|---|---|---|
| `router` | `MCProviderRouter` | 26 459 | retries, fallback, timers and a caller that dies anywhere: accounting, errors, loops that end, termination, and that the router implements `ProviderPort` |
| `service` | `MCGatewayService` | 258 807 | `Service.Complete` over any provider that keeps the port's promise and reports any usage |
| `gateway` | `MCLLMGateway` | 11 509 | the composition: errors keep their meaning through both layers, every request is answered, and `GatewayService` is implemented |
| `budget` | `MCBudgetAdmission` | 58 134 | concurrent admissions fail closed, stay within the permits, and exceed the allowance only by what estimates missed and reconciliation lost |
| `task` | `MCCompletionTask` | 639 589 | every bounded command, pair of deadlines and answer: what reaches the vendor, what is trusted, when the call's context dies, and that `GatewayService` is implemented |
| `process` | `MCGatewayProcess` | 6 924 | smoke check, signals, server failures and hanging handlers |
| `cache_key` | `MCCacheKey` | 31 879 | every pair of requests whose texts imitate the encoding |

Five more runs refute a sentence of the documentation: see [Findings](#findings).

**Bounds, and why they are enough.**

* *Router*: three vendors, all of them allowed because the limit is unset (zero),
  three attempts each. There is a first, a middle and a last attempt and vendor;
  the proofs cover all other sizes, and `gateway` a limit below the number of
  vendors. The failures are one of each class the policies tell apart, and one with
  two links. The first backoff is zero and the second is not, so both branches of
  `DefaultSleeper` run. The router does not look at usage: one value that is not
  the zero value shows whether it is passed on.
* *Service*: two vendors and two calls: none, one and several. Every subset of
  preflight defects is an initial state, and every error the router can produce.
  Machine integers have three bits, -4 to 3; the usages are a sound one, sums that
  wrap around, a total that is no sum, a negative count under a sum that holds, and a
  cost that cannot be charged.
* *Gateway*: the limits of `main.go`, two vendors with two attempts each, with a third
  vendor beyond the limit, a publisher as in the tests, and vendor failures the fake
  provider's sentinels do not have.
* *Budget*: five requests, three permits and an allowance of three, with costs 2, 2,
  1, 1 and -1. Four pass the check of their cost, so the limiter runs out; two of
  them compete for what one can have, so the store does; and the negative cost, if
  it passed, would enlarge the allowance of the others. The costs reported are -1, 1
  and 3: no cost, one below, at or above an estimate, and one above all of them.
* *Task*: sequences of up to two subjects, evidence references and reasons (none,
  one, too many), two shipments (a right one and a wrong one), confidence on and
  just beyond both ends of its range. The clock has two points (`MaxTime`), and
  deadlines are absent, over at the start, reached later, or beyond the clock: every
  order of the two. Each deadline meets a command that is right; wrong commands have
  none, since they end before any deadline is read.
* *Process*: the wiring of `main.go` (two vendors, two attempts, no publisher) and
  two clients, one to be served while the other hangs. The mains without a smoke
  check, and with the signal handler installed before serving, are in the run
  `stopped_cleanly`.
* *Cache key*: lengths are written in binary, so that texts of one to four
  characters already have lengths of one to three digits; the texts contain a
  digit, the colon and the letter that stands for a tag. `MaxKeys` is two: a
  collision takes two.

**What the properties say.** Each is stated in words above its definition. The
ones that took thought:

* `AttemptsAreTheCallsMade`: the count is put together from two loops and returned
  on five paths.
* `AtMostOneLateCall`: the check of the caller and the dispatch are two steps, so
  "no call for a dead caller" is false; "one at most" is what the code gives.
* `CallerErrorWins`, `CallerReasonIsReported`: neither a vendor's failure nor the
  router's own timeout hides from the layer above that the caller left.
* `CompletionIsKept`: a completion that races the timer or the caller's death is
  neither dropped nor paid for twice, and keeps the usage it came with.
* `TerminalVerdictEndsTheCall`: over chains with two links, where retry and
  fallback ask different questions. Its exception, an attempt out of time, is what
  the code does (see below the findings).
* `LoopsAreBounded`: one number, `StepsLeft`, that every step of the two nested loops
  lowers, whatever vendors answer. It takes two counters that start over and five
  ways out to be right; with it, what liveness still assumes is only that steps
  are taken and vendors answer.
* `TaskIsAService`: the derived context, two deadlines and a clock are, for the
  service, a caller that may leave at any time.
* `EventAgreesWithMetadata`: the event is built from a copy of the metadata.
* `PublishedUsageIsExact`: vendor and check add with the same machine integers, so
  the equality of `Validate` holds for a sum that wrapped around. It is refused only
  because the wrapped sum of two counts is negative.
* `CallEndsWithItsCaller`, `NoDeadlineIsEarly`, `FirstDeadlineEndsTheCall`: the
  choice between two contexts is a comparison of three times, one of which may be
  absent; what matters is when the call ends, never too early and not too late.
* `OverspendIsBounded`: over all orders of sending, taking effect, answering,
  reconciling, booking and expiring, whatever requests cost in the end. The allowance
  itself is not kept: nothing in the code bounds a cost by its estimate, renews a
  reservation or repeats a reconciliation. What can be said without a premise is by
  how much it is exceeded: by what estimates missed (`overrun`), and by the estimates
  of the requests `Astray`, whose bill has not arrived or found its reservation gone.
  Without either term the run finds the bound exceeded.
* `OnlyActionableAnswersAreTrusted`: both directions, against a definition written
  apart from the checks.
* `KeysTellRequestsApart`: free texts, whose lengths and tags keep them apart, among
  them texts that look like the encoding of their neighbours.
* `OnlyAWorkingGatewayServes`: relates the server to the vendor call of the smoke
  request, across four layers and every interleaving of timers.
* `StartupEnds`: vendors may hang, and attempts need no timer: the smoke check's own
  timer suffices.

## Fairness

Safety needs none. For liveness:

* goroutines that can run do (`RouterStep`, `CompleteStep`, `DeliverEvent`,
  `MainStep`, `ReturnSmoke`): the Go scheduler;
* timers fire (`GraceExpires`, `SmokeTimerFires`, the timers of `CallContext`): the
  runtime. Fairness of `RouterStep` includes the backoff's timer; that of the
  attempt timer is a premise of `CompleteReturns` and part of `LLMGateway`'s, and
  not assumed where the caller's own departure or timer must suffice
  (`DepartedCallerReturns`, `StartupEnds`);
* the clock of `CallContext` runs;
* a vendor whose context is dead returns: the contract of `ports.go`, and
  `FakeProvider` selects on `ctx.Done()`.

Nothing is assumed of a vendor under a live context, of a caller (it need never
leave), of signals, or of HTTP handlers (they need never return). In
`GatewayService` alone the provider owes no progress, so its only liveness
property is about the event; that requests are answered is checked in
`LLMGateway`. `EventReachesPublisher` means that `Publish` is called, as long as
the process lives; it says nothing of `Publish` itself, whose error is ignored.

## Proofs

Eight modules, with no bound on vendors, attempts, backoff, usages, the width of
integers, requests, clients, or the length of commands, answers and cached texts.
Every safety property that a passing run checks is the subject of a theorem.

| Module | Theorem | Property |
|---|---|---|
| `ProviderRouterProofs` | `RouterInvariant` | the inductive invariant `IInv` |
| | `TypeCorrect` | `TypeOK` |
| | `AttemptsReported` | `AttemptsAreTheCallsMade` |
| | `OneLateCall` | `AtMostOneLateCall` |
| | `CallerErrorReturned` | `CallerErrorWins` |
| | `CompletionReturned` | `CompletionIsKept` |
| | `FailuresHaveCauses` | `FailureHasACause` |
| | `TerminalVerdicts` | `TerminalVerdictEndsTheCall` |
| | `LoopsEnd` | `LoopsAreBounded` |
| | `RouterImplementsPort` | `RouterIsAProvider` |
| `GatewayServiceProofs` | `ServiceInvariant` | the inductive invariant `SInv` |
| | `ServiceTypeCorrect` | `TypeOK` |
| | `EventsFollowCalls` | `NoEventWithoutACall` |
| | `PreflightIsFree` | `PreflightVerdictsAreFree` |
| | `AttemptsAudited` | `AuditedAttempts` |
| | `ResultsTrusted` | `TrustedResult` |
| | `EventsAgree` | `EventAgreesWithMetadata` |
| | `PublishedUsageExact` | `PublishedUsageIsExact` |
| `LLMGatewayProofs` | `GatewayImplementsService` | `GatewayIsAService` |
| | `GatewayKeepsPromises` | the properties of `GatewayService`, of the gateway |
| | `GatewayInvariant` | the inductive invariant `GInv` |
| | `CallerReasonReported` | `CallerReasonIsReported` |
| | `CancellationReported` | `CancellationIsTheCallers` |
| `BudgetAdmissionProofs` | `AdmissionInvariant` | the inductive invariant `BInv` |
| | `ReservedSpend` | `SpendIsReserved` |
| | `PermitsBoundReservations` | `NoReservationWithoutAPermit` |
| | `AdmissionTypeCorrect` | `TypeOK` |
| | `OverspendBounded` | `OverspendIsBounded` |
| | `AllowanceKept` | its corollary: with no overrun and no request astray, the allowance is kept |
| `CompletionTaskProofs` | `VendorsSeeGovernedRequests` | `VendorSeesGovernedRequests` |
| | `TrustedAnswersAreActionable` | `OnlyActionableAnswersAreTrusted` |
| | `CallsEndWithTheirCaller` | `CallEndsWithItsCaller` |
| | `DeadlinesAreNotEarly` | `NoDeadlineIsEarly` |
| | `TaskImplementsService` | `TaskIsAService` |
| | `TaskKeepsServiceInvariant` | `SInv` of the service, of the task |
| | `TaskTypeCorrect` | `TaskTypeOK` |
| `GatewayProcessProofs` | `SmokeCheckGuardsServing` | `OnlyAWorkingGatewayServes` |
| | `SuccessfulExit` | `SuccessLeavesNobodyBehind` |
| | `ProcessRunsAService` | `GatewayIsAService`, of the process |
| | `ProcessTypeCorrect` | `ProcessTypeOK` |
| `CacheKeyProofs` | `KeysApart` | `KeysTellRequestsApart` |
| `InductionLemmas` | lemmas only | |

**Assumptions.** The named `ASSUME`s, which TLC evaluates in the runs. Those that say
more than the type of a constant: there is at least one vendor (`NewProviderRouter`
refuses an empty list), while the two limits may be any integers; vendor failures
carry neither of the router's own links, since an adapter does not build the
router's errors; what a vendor reports as usage is made of machine integers; no
shipment has the empty name; the digits of a length are all different, more than one
and not the colon. Estimates and reported costs may be any integers. Two theorems take one premise more, stated in the
theorem: `CancellationReported` that no vendor failure carries `context.Canceled`
unless its context was canceled (`VendorsDoNotCancel`), and `SuccessfulExit` that an
expired grace period is a failure, as in `llm-gateway` (`ForcedShutdownIsFatal`; for the
other two processes the claim is false, which is a finding).

**The argument for the router.** None of its properties is inductive: they speak of
`pc = "done"` or of one counter. `IInv` says what every program counter owes them:

* `ContextScope`: an attempt context exists exactly while a vendor call is out;
* `Accounting`: `calls` is `total + attempt` inside a vendor, `total` between
  vendors, the reported number at the end;
* `Budget`: the vendors left used at most `Attempts` each; an attempt that is
  about to begin is not yet the last (this bounds `calls` by a product);
* `Lateness`: after a late call the caller is dead and the router only unwinds;
* `Departure`: a caller found dead when a vendor answered stays dead, and the
  call can only end with its error;
* `LastAnswer`: how `err`, `usage` and `result` relate to the last raw answer;
* `Caused`: no error carries the last-resort link, since the loop is entered;
* `Verdicts`: wherever the policies let the call go on, the last answer was a
  transient failure or its attempt was out of time.

`StepIInv` has one step per action. `RouterImplementsPort` adds `StepPort`: a
dispatch is the port's `CallVendor`, a return its `Complete` or `Fail`, the
caller's death its `CallerLeaves`, all else a stutter. `LoopsEnd` needs `Budget` too:
`StepsLeft` is a natural number because no attempt and no vendor is beyond its limit.

**For the service.** `SInv` strengthens the properties by what the port may be in
(`PortTypeOK`), what an outcome says of the calls behind it (`OutcomeReports`), what a
request under way has not done yet (`UnderWay`), and that a request that is over
has either called nobody or has an outcome (`Ended`). There is a lemma for each
way out of `Complete`: `EarlyFailure`, `LateFailure`, `OutputVerdict`. The event's usage
rests on `ValidUsageIsExact`: two counts below `MaxInt` have a sum that wraps around
to a negative number, so a total that is not negative and equal to the sum is
the true one.

**Along the refinements.** What is proved of the abstract service need not be proved
again of what implements it. `GatewayKeepsPromises` takes the theorems of
`GatewayServiceProofs` to the gateway, where the vendors are the router's and the
budget is its product of limits; `ServiceAssumptions` shows that every router
configuration satisfies what those theorems assume. `ProcessRunsAService` takes the
refinement on to the process, and `TaskKeepsServiceInvariant` the invariant to the
task: `ServiceView` maps each of its steps to one of the service, the context's death,
from whichever deadline, to `CallerLeaves`, and the clock to a stutter.

**For the composition.** `RouterView`: a step of the gateway is a step of the router or
leaves it alone; so `IInv` holds of the composition too, and with it what the
router reports can be used in `StepService`, which gives
`GatewayImplementsService`. `GInv` adds the record's type, that the router runs
within stage 6 only (`Nesting`), and how the error's links decide the kind
(`Reasons`). `CancellationReported` follows one link, "canceled", from the caller's
context to the metadata.

**For the budget.** Permits given and permits left add up to `Permits` (`Counted`, with
the library's facts on cardinality), and only a request whose reservation was sent
can be with the store (`SentOnce`). `OverspendBounded` adds where money can be: only
requests with a cost that passed the check have a reservation (`Charged`); a reservation is on
its way, refused, held or run out, and held or run out while a bill is on its way
(`Pending`). `Ledger` has the bound and how far the books lag behind what was incurred.
The second is what the store's guard needs, which sees only the books; and since a bill
may be below its estimate, it counts what bills under way will save (`Saved`), or
booking one would break it. The sums are folds over sets; that they grow and shrink by
an element is `SumOver`'s `SumWithout` and `SumWith`, by induction over finite sets.

**For the cache key.** The encoding can be decoded. A numeral is one number's
(`NumeralsDiffer`); no digit is a colon, so the first colon ends the length, and the
length ends the text: two different texts part before either encoding ends
(`PartsDiffer`). By induction over the parts, a list of texts can be read off the
encodings in a row (`TextsDecoded`), and the tags say which of them are subjects
(`PartsTellApart`). `KInv` says that the keys issued are those of their requests.

**Induction.** The library's induction theorems take an operator as a parameter,
which the provers cannot instantiate. `InductionLemmas` has them with sets in the
place of operators (a set that holds 0, and n + 1 with n, holds every natural),
from the library's theorem that a well-founded relation has minimal elements, and
shows by them that the recursive functions and folds of the models have the
values their equations give.

**For the rest.** In `CompletionTaskProofs`, `GovernedCommand` is what preflight leaves of a command and
`VerdictIsActionability` compares the chain of checks with the definition of an
actionable answer, for sequences of any length; `ContextView` shows that whatever the
stages do, the contexts only see the steps of `CallContext`. In
`GatewayProcessProofs`, a step of the process is a step of the gateway
(`GatewayView`) and one of `ServiceProcess` (`MainView`), so each half has its own
invariant: `Smoked` carries the smoke request's success past the moment it is read,
`Orderly` says that only a signal leads to a shutdown and that nobody is cut
off before `main` exits.

**Only model-checked.**

* Liveness: `CompleteReturns`, `DepartedCallerReturns`,
  `EventReachesPublisher`, `RequestIsAnswered`, `FirstDeadlineEndsTheCall`, `StartupEnds`,
  `SignalEndsTheProcess`. Fairness and `ENABLED` are beyond the prover; of the router's
  termination it proves the variant (`LoopsEnd`).

That SHA-256 has no collisions is neither checked nor proved: `CacheKey` takes it
for granted.

No module uses a `RECURSIVE` operator.

## Findings

Five sentences that TLC refutes, each with a run:

1. `deadline_is_the_callers`: `service.go:331-333` says that an attempt's timeout
   never surfaces as `context.DeadlineExceeded`, and `domain/errors.go:31-34` that
   `deadline_exceeded` is distinct from a vendor-side timeout. `AttemptTimeoutError`
   unwraps to the vendor's error, which holds `context.DeadlineExceeded`; when the
   last attempt times out, `errors.Is` finds it and a live caller is told that its
   own deadline expired.
2. `every_call_is_metered`: `LLM_Gateway_SystemDesign.md:882-884` promises a usage
   event for every provider invocation, failed ones included. A failed provider call
   leaves through `fail()`, which publishes nothing.
3. `usage_is_ground_truth`: `service.go:299-305` copies the response into the metadata
   "even when the provider fails", since a failed call may have burned tokens. The
   router has dropped that usage (`provider_router.go:175`), so the metadata of a
   failed request says that nothing was consumed.
4. `no_trailing_data`: `registry.go:199` promises "no trailing data". Any error of
   the second `Decode` is taken for the end of the input, so text that is no JSON
   value is let through.
5. `stopped_cleanly`: `stream-ingestion` and `hello` log "stopped cleanly" and exit
   with zero also when the grace period expired and requests were cut off.

Noted while modelling, without a run:

* A terminal failure (authentication, say) that comes back after the attempt timer
  has fired is wrapped as a timeout and retried (`provider_router.go:225`).
* The usage of earlier, failed attempts is lost when a later one succeeds.
* Fallback accepts a transient failure that carries a context error, retry does
  not (`provider_router.go:279-294`).
* A refusal of `Reserve` is reported as `ErrBudgetDependencyUnavailable`
  (`budget_policy.go:130-134`): the tenant's exhausted budget and a store that is
  down are one error, where `LLD_System_Design.md:374-375` has two.
* `stream-ingestion` logs that readiness is withdrawn, but the handler goes on to
  answer "ready" (`main.go:111`).
* A NaN estimate passes `estimatedCost < 0` in `Admit`.
* `Reconcile` refuses negative costs only (`budget_policy.go:147`): an actual cost may
  exceed its estimate, and the tenant's allowance with it. After a reconciliation that
  failed, the reservation expires and the cost is in no book.
* The comment at `provider_router.go:203-205` fears that `cancel()` would turn an expired
  context's error into `context.Canceled`; a context keeps its first error, so what
  matters is only that `Err()` is read after the vendor's answer.
* A usage event that does not validate is dropped, and one still with its goroutine
  is lost when the process exits.
* `IdempotencyKey` is accepted and never read.
* The cache key leaves out `MaxTokens` and the types of entity references.

## Not modelled

* *Redis adapter, transport adapters, service skeletons, template*: no behaviour;
  every Redis method answers "not implemented", which `BudgetAdmission` covers as a
  store that always fails.
* *Observability, scripts, deployment*: a logger, shell around external tools, and
  configuration for external controllers.
* *Within modelled parts*: latencies, identity fields of the metadata, prompts,
  formatting of errors, the refusals of constructors (`NewTaskRegistry`, `NewService`:
  they end the process before anything runs), the fake provider's call counter and
  scripted delays, NaN. In the router, delays are zero or not, and time is the
  freedom of timers to fire at any moment; only `CallContext` has a clock, since
  its subject is the order of two deadlines.

## Plan

Done, in this order: the paid call under retries and cancellation and its proof;
the service over an abstract provider; their composition; budget, capability and
processes; usage arithmetic, deadlines, cache key and the whole `llm-gateway`
process; proofs about each of them, then along the refinements and by induction
over data, until no safety property was left to TLC alone.

What is left waits for code:

* *Budget, cache and gateway composed*, when `Service.Complete` calls `Admit` and
  `BuildCacheKey`: whether a retried request reserves twice, and whether a
  cached answer is metered.
* *Events at exit*, when `main.go` configures a publisher: which of the goroutines
  that `Shutdown` does not wait for may be lost.
* *Idempotency and `/v1/complete`*, when the transport exists.
