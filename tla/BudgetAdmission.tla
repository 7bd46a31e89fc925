-------------------------- MODULE BudgetAdmission --------------------------
(***************************************************************************)
(* BudgetPolicy (application/budget_policy.go): concurrent Admit calls     *)
(* against a rate limiter and a budget store that are behind ports, and    *)
(* the later Reconcile of what was admitted.  The code has no store yet    *)
(* (the Redis adapter answers "not implemented"): the store and the        *)
(* limiter here are what the ports ask of one, marked external.            *)
(*                                                                         *)
(* One Admit is four steps: it looks at its arguments, asks the limiter,   *)
(* and sends the reservation, whose effect and whose reply are apart: a    *)
(* call may fail for Admit and still take effect in the store, then or     *)
(* later.  A reconciliation is sent the same way, with whatever cost its   *)
(* caller reports: nothing in the code makes the estimate a bound of it.   *)
(*                                                                         *)
(* As in ProviderRouter, X_Y is X with the plausible bug Y.                *)
(***************************************************************************)
EXTENDS Integers, FiniteSetsExt

CONSTANTS
  Requests,     \* the requests of one tenant
  Cost,         \* request -> the estimatedCost it asks for, in cents
  ActualCosts,  \* the costs that callers may report to Reconcile
  Allowance,    \* what the tenant may have reserved or spent
  Permits       \* how many requests the limiter lets through

ASSUME CostAssumption == Cost \in [Requests -> Int] /\ ActualCosts \subseteq Int
ASSUME LimitsAssumption == Allowance \in Nat /\ Permits \in Nat

VARIABLES
  pc,       \* where each request stands in Admit
  verdict,  \* the error Admit returned, or "none"
  permits,  \* the permits the limiter has left
  sent,     \* requests whose reservation was sent to the store
  denied,   \* those the store refused
  held,     \* those it holds a reservation for
  bills,    \* <<request, actual cost>> of reconciliations sent to the store
  spent,    \* what the store has booked
  lapsed,   \* history: requests not refused whose reservation ran out unbooked
  incurred, \* history: the actual costs reported, whether booked or not
  overrun   \* history: by how much they exceeded their estimates

history == <<incurred, overrun>>
storeVars == <<sent, denied, held, bills, spent, lapsed>>
vars == <<pc, verdict, permits, storeVars, history>>

Verdicts == {"none", "ErrBudgetDenied", "ErrBudgetDependencyUnavailable",
             "ErrRateLimited", "ErrRateLimitDependencyUnavailable"}

\* Every refusal of Admit stops the spend.
IsFailClosed(error) == error \in Verdicts \ {"none"}

Init ==
  /\ pc = [r \in Requests |-> "called"]
  /\ verdict = [r \in Requests |-> "none"]
  /\ permits = Permits
  /\ sent = {} /\ denied = {} /\ held = {} /\ bills = {} /\ lapsed = {}
  /\ spent = 0 /\ incurred = 0 /\ overrun = 0

-----------------------------------------------------------------------------
(* Admit.                                                                  *)

Refuse(r, error) ==
  /\ pc' = [pc EXCEPT ![r] = "refused"]
  /\ verdict' = [verdict EXCEPT ![r] = error]

CheckArguments_AnyCost(r) ==
  /\ pc[r] = "called"
  /\ pc' = [pc EXCEPT ![r] = "limit"]
  /\ UNCHANGED <<verdict, permits, storeVars, history>>

\* A missing tenant or request identifier is refused like a negative cost.
CheckArguments(r) ==
  /\ pc[r] = "called"
  /\ IF Cost[r] < 0
     THEN Refuse(r, "ErrBudgetDenied")
     ELSE pc' = [pc EXCEPT ![r] = "limit"] /\ UNCHANGED verdict
  /\ UNCHANGED <<permits, storeVars, history>>

RateLimit_IgnoresDecision(r) ==
  /\ pc[r] = "limit"
  /\ pc' = [pc EXCEPT ![r] = "reserve"]
  /\ permits' = IF permits > 0 THEN permits - 1 ELSE permits
  /\ sent' = sent \cup {r}
  /\ UNCHANGED <<verdict, denied, held, bills, spent, lapsed, history>>

\* The limiter decides, or fails; past it, the reservation is sent.
RateLimit(r) ==
  /\ pc[r] = "limit"
  /\ \/ /\ permits > 0
        /\ permits' = permits - 1
        /\ pc' = [pc EXCEPT ![r] = "reserve"]
        /\ sent' = sent \cup {r}
        /\ UNCHANGED verdict
     \/ /\ permits = 0
        /\ Refuse(r, "ErrRateLimited")
        /\ UNCHANGED <<permits, sent>>
     \/ /\ Refuse(r, "ErrRateLimitDependencyUnavailable")
        /\ UNCHANGED <<permits, sent>>
  /\ UNCHANGED <<denied, held, bills, spent, lapsed, history>>

\* What Reserve may return: nil, the store's refusal, or a failure of its own
\* (a lost connection, a dead context) before or after the store has acted.
ReserveAnswers(r) ==
  {"failed"} \cup (IF r \in denied THEN {"denied"} ELSE {})
             \cup (IF r \in sent \cup denied THEN {} ELSE {"granted"})

ReserveReturns_FailsOpen(r) ==
  /\ pc[r] = "reserve"
  /\ \E a \in ReserveAnswers(r) :
       IF a # "denied"
       THEN pc' = [pc EXCEPT ![r] = "admitted"] /\ UNCHANGED verdict
       ELSE Refuse(r, "ErrBudgetDenied")
  /\ UNCHANGED <<permits, storeVars, history>>

ReserveReturns_Unwrapped(r) ==
  /\ pc[r] = "reserve"
  /\ \E a \in ReserveAnswers(r) :
       IF a = "granted"
       THEN pc' = [pc EXCEPT ![r] = "admitted"] /\ UNCHANGED verdict
       ELSE Refuse(r, "opaque")
  /\ UNCHANGED <<permits, storeVars, history>>

ReserveReturns(r) ==
  /\ pc[r] = "reserve"
  /\ \E a \in ReserveAnswers(r) :
       IF a = "granted"
       THEN pc' = [pc EXCEPT ![r] = "admitted"] /\ UNCHANGED verdict
       ELSE Refuse(r, "ErrBudgetDependencyUnavailable")
  /\ UNCHANGED <<permits, storeVars, history>>

\* What a request cost beyond its estimate.
Excess(r, actual) == IF actual > Cost[r] THEN actual - Cost[r] ELSE 0

\* Reconcile, once, if the caller ever gets there.  A negative cost is refused
\* before the store sees it; any other is sent, however far from the estimate.
\* What the store answers changes nothing here.
Reconcile(r) ==
  /\ pc[r] = "admitted"
  /\ \E actual \in ActualCosts :
       /\ actual >= 0
       /\ bills' = bills \cup {<<r, actual>>}
       /\ incurred' = incurred + actual
       /\ overrun' = overrun + Excess(r, actual)
  /\ pc' = [pc EXCEPT ![r] = "reconciled"]
  /\ UNCHANGED <<verdict, permits, sent, denied, held, spent, lapsed>>

-----------------------------------------------------------------------------
(* The budget store.                                                       *)

Reserved == MapThenSumSet(LAMBDA r : Cost[r], held)

\* The store decides on a reservation atomically.
StoreReserves(r) ==
  /\ r \in sent
  /\ sent' = sent \ {r}
  /\ IF spent + Reserved + Cost[r] <= Allowance
     THEN held' = held \cup {r} /\ UNCHANGED denied
     ELSE denied' = denied \cup {r} /\ UNCHANGED held
  /\ UNCHANGED <<pc, verdict, permits, bills, spent, lapsed, history>>

\* A reconciliation arrives, if it does: the store books the actual cost in place
\* of the reservation, also when that is gone.
StoreBooks(r) ==
  \E bill \in bills :
    /\ bill[1] = r
    /\ bills' = bills \ {bill}
    /\ spent' = spent + bill[2]
    /\ held' = held \ {r}
    /\ UNCHANGED <<pc, verdict, permits, sent, denied, lapsed, history>>

\* ExpiresAt has passed.
StoreExpires(r) ==
  /\ r \in held
  /\ held' = held \ {r}
  /\ lapsed' = IF pc[r] = "refused" THEN lapsed ELSE lapsed \cup {r}
  /\ UNCHANGED <<pc, verdict, permits, sent, denied, bills, spent, history>>

-----------------------------------------------------------------------------
Admit(r) ==
  \/ CheckArguments(r)
  \/ RateLimit(r)
  \/ ReserveReturns(r)

\* Every request has been dealt with and the store has forgotten them.
Settled ==
  /\ \A r \in Requests : pc[r] \in {"refused", "reconciled"}
  /\ sent = {} /\ held = {} /\ bills = {}
  /\ UNCHANGED vars

Next ==
  \/ \E r \in Requests :
       \/ Admit(r) \/ Reconcile(r)
       \/ StoreReserves(r) \/ StoreBooks(r) \/ StoreExpires(r)
  \/ Settled

Spec == Init /\ [][Next]_vars

-----------------------------------------------------------------------------
(* Properties.                                                             *)

TypeOK ==
  /\ pc \in [Requests -> {"called", "limit", "reserve", "admitted", "refused", "reconciled"}]
  /\ \A r \in Requests : pc[r] = "refused" <=> IsFailClosed(verdict[r])
  /\ permits \in 0 .. Permits
  /\ sent \subseteq Requests /\ denied \subseteq Requests
  /\ held \subseteq Requests /\ lapsed \subseteq Requests
  /\ bills \subseteq Requests \X Nat
  /\ spent \in Nat /\ incurred \in Nat /\ overrun \in Nat

\* Fail closed: a request is admitted only on a reservation that the store has
\* taken; no failure, lost reply or refusal becomes a permission to spend.
SpendIsReserved ==
  \A r \in Requests : pc[r] \in {"admitted", "reconciled"} => r \notin sent \cup denied

\* The store is asked for no more reservations than the limiter let through.
NoReservationWithoutAPermit ==
  Cardinality({r \in Requests : \/ pc[r] \in {"reserve", "admitted", "reconciled"}
                                \/ verdict[r] = "ErrBudgetDependencyUnavailable"})
    <= Permits

\* The requests whose cost the store has not booked in exchange for their
\* reservation: it has not arrived, or the reservation ran out first.
Astray ==
  {r \in Requests : /\ pc[r] = "reconciled"
                    /\ r \in lapsed \/ \E bill \in bills : bill[1] = r}

\* What concurrent requests have cost and reserved exceeds the tenant's allowance
\* only by what their estimates missed and by the estimates of requests astray.
OverspendIsBounded ==
  incurred + Reserved <= Allowance + overrun + MapThenSumSet(LAMBDA r : Cost[r], Astray)
=============================================================================
