----------------------- MODULE BudgetAdmissionProofs -----------------------
(***************************************************************************)
(* Theorems about BudgetAdmission, for any requests, costs, permits and    *)
(* allowance.                                                              *)
(***************************************************************************)
EXTENDS BudgetAdmission, InductionLemmas

\* The requests that got a permit of the limiter.
Permitted ==
  {r \in Requests : \/ pc[r] \in {"reserve", "admitted", "reconciled"}
                    \/ verdict[r] = "ErrBudgetDependencyUnavailable"}

\* The limiter and Admit count alike.
Counted ==
  /\ IsFiniteSet(Permitted)
  /\ permits \in Nat
  /\ Cardinality(Permitted) + permits = Permits

Steps == {"called", "limit", "reserve", "admitted", "refused", "reconciled"}

\* A request is under way, or refused with a verdict that fails closed.
Standing ==
  /\ pc \in [Requests -> Steps]
  /\ verdict \in [Requests -> Verdicts]
  /\ \A r \in Requests : pc[r] # "refused" => verdict[r] = "none"

\* Only a reservation that was sent is with the store or refused by it.
SentOnce ==
  \A r \in Requests :
    /\ pc[r] \in {"called", "limit"} => r \notin sent
    /\ pc[r] \in {"admitted", "reconciled"} => r \notin sent \cup denied

BInv == Standing /\ SentOnce /\ Counted

-----------------------------------------------------------------------------
LEMMA InitBInv == Init => BInv
  <1> SUFFICES ASSUME Init PROVE BInv
    OBVIOUS
  <1>1. Standing /\ SentOnce
    BY DEF Init, Standing, Steps, SentOnce, Verdicts
  <1>2. Permitted = {}
    BY DEF Init, Permitted
  <1>3. Counted
    BY <1>2, FS_EmptySet, LimitsAssumption DEF Init, Counted
  <1> QED
    BY <1>1, <1>3 DEF BInv

\* A step that moves one request and permits nobody new leaves the count alone.
LEMMA SamePermits ==
  ASSUME Counted, permits' = permits, Permitted' = Permitted
  PROVE  Counted'
  BY DEF Counted

LEMMA StepBInv == BInv /\ [Next]_vars => BInv'
  <1> SUFFICES ASSUME BInv, [Next]_vars PROVE BInv'
    OBVIOUS
  <1> USE DEF BInv, storeVars, history
  <1>1. ASSUME NEW r \in Requests, CheckArguments(r) PROVE BInv'
    <2>1. Standing' /\ SentOnce'
      BY <1>1 DEF CheckArguments, Refuse, Standing, Steps, Verdicts, SentOnce
    <2>2. Permitted' = Permitted
      BY <1>1 DEF CheckArguments, Refuse, Permitted, Standing
    <2> QED
      BY <1>1, <2>1, <2>2, SamePermits DEF CheckArguments
  <1>2. ASSUME NEW r \in Requests, RateLimit(r) PROVE BInv'
    <2>1. Standing' /\ SentOnce'
      <3>1. Standing'
        BY <1>2 DEF RateLimit, Refuse, Standing, Steps, Verdicts
      <3>2. SentOnce'
        BY <1>2 DEF RateLimit, Refuse, Standing, SentOnce
      <3> QED
        BY <3>1, <3>2
    <2>2. CASE permits > 0 /\ permits' = permits - 1 /\ pc' = [pc EXCEPT ![r] = "reserve"]
               /\ UNCHANGED verdict
      <3>1. Permitted' = Permitted \cup {r} /\ r \notin Permitted
        BY <1>2, <2>2 DEF RateLimit, Permitted, Standing
      <3>2. Counted'
        <4>1. IsFiniteSet(Permitted') /\ Cardinality(Permitted') = Cardinality(Permitted) + 1
          BY <3>1, FS_AddElement DEF Counted
        <4>2. Cardinality(Permitted) \in Nat
          BY FS_CardinalityType DEF Counted
        <4> QED
          BY <2>2, <4>1, <4>2 DEF Counted
      <3> QED
        BY <2>1, <3>2
    <2>3. CASE UNCHANGED permits /\ (\/ Refuse(r, "ErrRateLimited")
                                     \/ Refuse(r, "ErrRateLimitDependencyUnavailable"))
      <3>1. Permitted' = Permitted
        BY <1>2, <2>3 DEF RateLimit, Refuse, Permitted, Standing
      <3> QED
        BY <2>1, <2>3, <3>1, SamePermits
    <2> QED
      BY <1>2, <2>2, <2>3 DEF RateLimit
  <1>3. ASSUME NEW r \in Requests, ReserveReturns(r) PROVE BInv'
    <2>1. Standing'
      BY <1>3 DEF ReserveReturns, Refuse, Standing, Steps, Verdicts
    <2>2. SentOnce'
      BY <1>3 DEF ReserveReturns, ReserveAnswers, Refuse, Standing, SentOnce
    <2>3. Permitted' = Permitted
      BY <1>3 DEF ReserveReturns, Refuse, Permitted, Standing
    <2> QED
      BY <1>3, <2>1, <2>2, <2>3, SamePermits DEF ReserveReturns
  <1>4. ASSUME NEW r \in Requests, Reconcile(r) PROVE BInv'
    <2>1. Standing' /\ SentOnce'
      BY <1>4 DEF Reconcile, Standing, Steps, SentOnce
    <2>2. Permitted' = Permitted
      BY <1>4 DEF Reconcile, Permitted, Standing
    <2> QED
      BY <1>4, <2>1, <2>2, SamePermits DEF Reconcile
  <1>5. ASSUME NEW r \in Requests, StoreReserves(r) \/ StoreBooks(r) \/ StoreExpires(r)
        PROVE  BInv'
    <2>1. UNCHANGED <<pc, verdict, permits>>
      BY <1>5 DEF StoreReserves, StoreBooks, StoreExpires
    <2>2. Standing' /\ Permitted' = Permitted
      BY <2>1 DEF Standing, Permitted
    <2>3. SentOnce'
      BY <1>5, <2>1 DEF StoreReserves, StoreBooks, StoreExpires, SentOnce
    <2> QED
      BY <2>1, <2>2, <2>3, SamePermits
  <1>6. CASE UNCHANGED vars
    BY <1>6 DEF vars, Standing, SentOnce, Counted, Permitted
  <1> QED
    BY <1>1, <1>2, <1>3, <1>4, <1>5, <1>6 DEF Next, Admit, Settled

\* The inductive invariant of concurrent admissions.
THEOREM AdmissionInvariant == Spec => []BInv
  <1> QED
    BY InitBInv, StepBInv, PTL DEF Spec

\* For any number of requests, Admit admits only on a reservation the store took.
THEOREM ReservedSpend == Spec => []SpendIsReserved
  <1>1. BInv => SpendIsReserved
    BY DEF BInv, SentOnce, SpendIsReserved
  <1> QED
    BY <1>1, AdmissionInvariant, PTL

\* However many requests race, no more reservations are asked for than the limiter
\* permits.
THEOREM PermitsBoundReservations == Spec => []NoReservationWithoutAPermit
  <1>1. BInv => NoReservationWithoutAPermit
    <2> SUFFICES ASSUME BInv PROVE Cardinality(Permitted) <= Permits
      BY DEF NoReservationWithoutAPermit, Permitted
    <2>1. Cardinality(Permitted) \in Nat
      BY FS_CardinalityType DEF BInv, Counted
    <2> QED
      BY <2>1, LimitsAssumption DEF BInv, Counted
  <1> QED
    BY <1>1, AdmissionInvariant, PTL

\* A refused request has its verdict, and every other has none.
LEMMA StepTyped ==
  ASSUME BInv, TypeOK, [Next]_vars
  PROVE  TypeOK'
  <1> USE DEF BInv, Standing, Steps, Counted, TypeOK, IsFailClosed, Verdicts, storeVars, history
  <1>1. Cardinality(Permitted') \in Nat /\ Cardinality(Permitted') + permits' = Permits
        /\ permits' \in Nat
    BY StepBInv, FS_CardinalityType
  <1>2. permits' \in 0 .. Permits
    BY <1>1, LimitsAssumption
  <1>3. ASSUME NEW r \in Requests, CheckArguments(r) PROVE TypeOK'
    BY <1>2, <1>3 DEF CheckArguments, Refuse
  <1>4. ASSUME NEW r \in Requests, RateLimit(r) PROVE TypeOK'
    BY <1>2, <1>4 DEF RateLimit, Refuse
  <1>5. ASSUME NEW r \in Requests, ReserveReturns(r) PROVE TypeOK'
    BY <1>2, <1>5 DEF ReserveReturns, Refuse
  <1>6. ASSUME NEW r \in Requests, Reconcile(r) PROVE TypeOK'
    <2>1. PICK actual \in ActualCosts :
            /\ actual >= 0
            /\ bills' = bills \cup {<<r, actual>>}
            /\ incurred' = incurred + actual
            /\ overrun' = overrun + Excess(r, actual)
      BY <1>6 DEF Reconcile
    <2>2. actual \in Nat /\ Excess(r, actual) \in Nat
      BY <2>1, CostAssumption DEF Excess
    <2>3. bills' \subseteq Requests \X Nat /\ incurred' \in Nat /\ overrun' \in Nat
      BY <2>1, <2>2
    <2> QED
      BY <1>2, <1>6, <2>3 DEF Reconcile
  <1>7. ASSUME NEW r \in Requests, StoreReserves(r) \/ StoreExpires(r) PROVE TypeOK'
    BY <1>2, <1>7 DEF StoreReserves, StoreExpires
  <1>9. ASSUME NEW r \in Requests, StoreBooks(r) PROVE TypeOK'
    BY <1>2, <1>9 DEF StoreBooks
  <1>8. CASE UNCHANGED vars
    BY <1>2, <1>8 DEF vars
  <1> QED
    BY <1>3, <1>4, <1>5, <1>6, <1>7, <1>8, <1>9 DEF Next, Admit, Settled

\* Every variable keeps its type, and a request is refused exactly when it has an
\* error that stops the spend.
THEOREM AdmissionTypeCorrect == Spec => []TypeOK
  <1>1. Init => TypeOK
    BY LimitsAssumption DEF Init, TypeOK, IsFailClosed, Verdicts
  <1> QED
    BY <1>1, StepTyped, AdmissionInvariant, PTL DEF Spec

-----------------------------------------------------------------------------
(* The allowance.                                                          *)

\* Only a request whose cost passed the check of Admit has a reservation.
Charged ==
  \A r \in Requests :
    r \in sent \cup held \/ pc[r] \notin {"called", "refused"} => Cost[r] >= 0

\* A reservation that was sent is on its way, refused, held or run out; Admit knows
\* that it was held.  A reconciliation on its way is its request's only one, and the
\* reservation of a reconciled request is held only until it arrives.
Pending ==
  /\ \A r \in Requests :
       /\ pc[r] = "reserve" => r \in sent \cup denied \cup held \cup lapsed
       /\ pc[r] = "admitted" => r \in held \cup lapsed
       /\ pc[r] = "reconciled" /\ r \in held => \E bill \in bills : bill[1] = r
  /\ \A bill \in bills : pc[bill[1]] = "reconciled" /\ bill[1] \in held \cup lapsed
  /\ \A b1, b2 \in bills : b1[1] = b2[1] => b1 = b2

\* What a bill leaves of its estimate.
Saved == [bill \in Requests \X Nat |-> IF bill[2] < Cost[bill[1]]
                                       THEN Cost[bill[1]] - bill[2] ELSE 0]

AstraySum == SumOver(Cost, Astray)

\* The books lack no more than the estimates of requests astray, less what their
\* bills save, and what estimates missed; and the bound itself, as sums.
Ledger ==
  /\ IsFiniteSet(held) /\ IsFiniteSet(bills) /\ IsFiniteSet(Astray)
  /\ incurred - spent + SumOver(Saved, bills) <= overrun + AstraySum
  /\ incurred + SumOver(Cost, held) <= Allowance + overrun + AstraySum

AInv == TypeOK /\ SentOnce /\ Charged /\ Pending /\ Ledger

\* What the store has reserved, and what is astray, are sums.
LEMMA BoundAsSums ==
  /\ Reserved = SumOver(Cost, held)
  /\ OverspendIsBounded <=> incurred + SumOver(Cost, held) <= Allowance + overrun + AstraySum
  BY DEF Reserved, SumOver, OverspendIsBounded, AstraySum

\* The sums are numbers, and bills never save less than nothing.
LEMMA SumTypes ==
  ASSUME TypeOK, Ledger
  PROVE  /\ SumOver(Cost, held) \in Int /\ AstraySum \in Int
         /\ SumOver(Saved, bills) \in Nat
  <1>1. \A r \in held \cup Astray : Cost[r] \in Int
    BY CostAssumption DEF TypeOK, Astray
  <1>2. \A bill \in bills : Saved[bill] \in Nat
    <2> SUFFICES ASSUME NEW bill \in bills PROVE Saved[bill] \in Nat
      OBVIOUS
    <2>1. bill \in Requests \X Nat /\ bill[2] \in Int /\ Cost[bill[1]] \in Int
      BY CostAssumption DEF TypeOK
    <2>2. Saved[bill] = IF bill[2] < Cost[bill[1]] THEN Cost[bill[1]] - bill[2] ELSE 0
      BY <2>1 DEF Saved
    <2> QED
      BY <2>1, <2>2
  <1> QED
    BY <1>1, <1>2, SumWithout, SumOfNaturals DEF Ledger, AstraySum

\* Admit touches neither the books nor the requests that are done.
LEMMA AdmitKeepsLedger ==
  ASSUME Ledger, UNCHANGED <<held, bills, spent, lapsed, history>>, NEW r \in Requests,
         pc[r] # "reconciled", pc'[r] # "reconciled",
         \A x \in Requests : x # r => pc'[x] = pc[x]
  PROVE  Ledger'
  <1>1. Astray' = Astray
    BY DEF Astray
  <1> QED
    BY <1>1 DEF Ledger, AstraySum, history

\* A reconciliation is charged to the books at once: what it costs beyond its
\* estimate is overrun, the rest is astray until the store has booked it.
LEMMA ReconcileKeepsLedger ==
  ASSUME AInv, NEW r \in Requests, Reconcile(r)
  PROVE  Ledger'
  <1> USE DEF AInv
  <1>1. PICK actual \in ActualCosts :
          /\ actual >= 0
          /\ bills' = bills \cup {<<r, actual>>}
          /\ incurred' = incurred + actual
          /\ overrun' = overrun + Excess(r, actual)
    BY DEF Reconcile
  <1>2. /\ UNCHANGED <<held, spent, lapsed>> /\ pc[r] = "admitted" /\ pc'[r] = "reconciled"
        /\ \A x \in Requests : x # r => pc'[x] = pc[x]
    BY DEF Reconcile, TypeOK
  <1>3. actual \in Nat /\ Cost[r] \in Int
    BY <1>1, CostAssumption
  <1>4. <<r, actual>> \notin bills /\ r \notin Astray
    BY <1>2 DEF Pending, Astray
  <1>5. Astray' = Astray \cup {r}
    <2>1. \E bill \in bills' : bill[1] = r
      <3>1. <<r, actual>> \in bills' /\ <<r, actual>>[1] = r
        BY <1>1
      <3> QED
        BY <3>1
    <2>2. \A x \in Requests \ {r} : (\E bill \in bills' : bill[1] = x) <=> \E bill \in bills : bill[1] = x
      BY <1>1
    <2> QED
      BY <1>2, <2>1, <2>2 DEF Astray
  <1>6. IsFiniteSet(bills') /\ IsFiniteSet(Astray')
    BY <1>1, <1>5, FS_AddElement DEF Ledger
  <1>7. AstraySum' = AstraySum + Cost[r]
    <2>1. \A x \in Astray \cup {r} : Cost[x] \in Int
      BY CostAssumption DEF Astray
    <2>2. SumOver(Cost, Astray \cup {r}) = SumOver(Cost, Astray) + Cost[r]
      BY <1>4, <2>1, SumWith DEF Ledger
    <2> QED
      BY <1>5, <2>2 DEF AstraySum
  <1>8. SumOver(Saved, bills') = SumOver(Saved, bills) + Saved[<<r, actual>>]
    <2>1. \A bill \in bills \cup {<<r, actual>>} : Saved[bill] \in Int
      <3> SUFFICES ASSUME NEW bill \in bills \cup {<<r, actual>>} PROVE Saved[bill] \in Int
        OBVIOUS
      <3>1. bill \in Requests \X Nat
        BY <1>3 DEF TypeOK
      <3>2. Cost[bill[1]] \in Int /\ bill[2] \in Int
        BY <3>1, CostAssumption
      <3>3. Saved[bill] = IF bill[2] < Cost[bill[1]] THEN Cost[bill[1]] - bill[2] ELSE 0
        BY <3>1 DEF Saved
      <3> QED
        BY <3>2, <3>3
    <2> QED
      BY <1>1, <1>4, <2>1, SumWith DEF Ledger
  <1>9. Saved[<<r, actual>>] = IF actual < Cost[r] THEN Cost[r] - actual ELSE 0
    BY <1>3 DEF Saved
  <1>10. Excess(r, actual) = IF actual > Cost[r] THEN actual - Cost[r] ELSE 0
    BY DEF Excess
  <1>11. Cost[r] >= 0
    BY <1>2 DEF Charged
  <1>12. incurred' - spent + SumOver(Saved, bills') <= overrun' + AstraySum'
    BY <1>1, <1>3, <1>7, <1>8, <1>9, <1>10, SumTypes DEF Ledger, TypeOK
  <1>13. incurred' + SumOver(Cost, held) <= Allowance + overrun' + AstraySum'
    BY <1>1, <1>3, <1>7, <1>10, <1>11, SumTypes, LimitsAssumption DEF Ledger, TypeOK
  <1> QED
    BY <1>2, <1>6, <1>12, <1>13 DEF Ledger

\* A reservation is weighed against what is booked, which falls short of what was
\* incurred by no more than the bound allows for.
LEMMA StoreReservesKeepsLedger ==
  ASSUME AInv, NEW r \in Requests, StoreReserves(r)
  PROVE  Ledger'
  <1> USE DEF AInv
  <1>1. UNCHANGED <<pc, bills, spent, lapsed, incurred, overrun>>
    BY DEF StoreReserves, history
  <1>2. Astray' = Astray /\ AstraySum' = AstraySum /\ SumOver(Saved, bills)' = SumOver(Saved, bills)
    BY <1>1 DEF Astray, AstraySum
  <1>3. CASE held' = held
    BY <1>1, <1>2, <1>3 DEF Ledger
  <1>4. CASE r \notin held /\ held' = held \cup {r}
             /\ spent + SumOver(Cost, held) + Cost[r] <= Allowance
    <2>1. IsFiniteSet(held')
      BY <1>4, FS_AddElement DEF Ledger
    <2>2. Cost[r] \in Int /\ \A x \in held \cup {r} : Cost[x] \in Int
      BY CostAssumption DEF TypeOK
    <2>3. SumOver(Cost, held') = SumOver(Cost, held) + Cost[r]
      BY <1>4, <2>2, SumWith DEF Ledger
    <2>4. incurred + SumOver(Cost, held') <= Allowance + overrun + AstraySum
      BY <1>4, <2>2, <2>3, SumTypes, LimitsAssumption DEF Ledger, TypeOK
    <2> QED
      BY <1>1, <1>2, <2>1, <2>4 DEF Ledger
  <1> QED
    BY <1>3, <1>4, BoundAsSums DEF StoreReserves

\* A bill that arrives takes its request off the list of those astray, unless the
\* reservation it should replace has run out.
LEMMA StoreBooksKeepsLedger ==
  ASSUME AInv, NEW r \in Requests, StoreBooks(r)
  PROVE  Ledger'
  <1> USE DEF AInv
  <1>1. PICK bill \in bills :
          /\ bill[1] = r
          /\ bills' = bills \ {bill}
          /\ spent' = spent + bill[2]
          /\ held' = held \ {r}
          /\ UNCHANGED <<pc, lapsed, incurred, overrun>>
    BY DEF StoreBooks, history
  <1>2. bill \in Requests \X Nat /\ bill[2] \in Nat /\ Cost[r] \in Int
    BY CostAssumption DEF TypeOK
  <1>3. Saved[bill] = IF bill[2] < Cost[r] THEN Cost[r] - bill[2] ELSE 0
    BY <1>1, <1>2 DEF Saved
  <1>4. pc[r] = "reconciled" /\ r \in held \cup lapsed /\ r \in Astray
    BY <1>1 DEF Pending, Astray
  <1>5. Cost[r] >= 0
    BY <1>4 DEF Charged
  <1>6. Astray' = IF r \in lapsed THEN Astray ELSE Astray \ {r}
    <2>1. ~\E b \in bills' : b[1] = r
      BY <1>1 DEF Pending
    <2>2. \A x \in Requests \ {r} : (\E b \in bills' : b[1] = x) <=> \E b \in bills : b[1] = x
      BY <1>1
    <2> QED
      BY <1>1, <1>4, <2>1, <2>2 DEF Astray
  <1>7. IsFiniteSet(bills') /\ IsFiniteSet(held') /\ IsFiniteSet(Astray')
    BY <1>1, <1>6, FS_RemoveElement DEF Ledger
  <1>8. AstraySum' = IF r \in lapsed THEN AstraySum ELSE AstraySum - Cost[r]
    <2>1. \A x \in Astray : Cost[x] \in Int
      BY CostAssumption DEF Astray
    <2>2. /\ SumOver(Cost, Astray) = SumOver(Cost, Astray \ {r}) + Cost[r]
          /\ SumOver(Cost, Astray \ {r}) \in Int
      <3>1. IsFiniteSet(Astray \ {r}) /\ \A x \in Astray \ {r} : Cost[x] \in Int
        BY <2>1, FS_RemoveElement DEF Ledger
      <3> QED
        BY <1>4, <2>1, <3>1, SumWithout DEF Ledger
    <2>3. AstraySum' = SumOver(Cost, Astray')
      BY DEF AstraySum
    <2> QED
      BY <1>2, <1>6, <2>2, <2>3 DEF AstraySum
  <1>9. /\ SumOver(Saved, bills) = SumOver(Saved, bills') + Saved[bill]
        /\ SumOver(Saved, bills') \in Int
    <2>1. \A b \in bills : Saved[b] \in Int
      <3> SUFFICES ASSUME NEW b \in bills PROVE Saved[b] \in Int
        OBVIOUS
      <3>1. b \in Requests \X Nat
        BY DEF TypeOK
      <3>2. Cost[b[1]] \in Int /\ b[2] \in Int
        BY <3>1, CostAssumption
      <3>3. Saved[b] = IF b[2] < Cost[b[1]] THEN Cost[b[1]] - b[2] ELSE 0
        BY <3>1 DEF Saved
      <3> QED
        BY <3>2, <3>3
    <2>2. \A b \in bills' : Saved[b] \in Int
      BY <1>1, <2>1
    <2> QED
      BY <1>1, <1>7, <2>1, <2>2, SumWithout DEF Ledger
  <1>10. incurred - spent' + SumOver(Saved, bills') <= overrun + AstraySum'
    BY <1>1, <1>2, <1>3, <1>5, <1>8, <1>9, SumTypes DEF Ledger, TypeOK
  <1>11. incurred + SumOver(Cost, held') <= Allowance + overrun + AstraySum'
    <2>1. \A x \in held : Cost[x] \in Int
      BY CostAssumption DEF TypeOK
    <2>2. CASE r \in held
      <3>1. SumOver(Cost, held) = SumOver(Cost, held') + Cost[r] /\ SumOver(Cost, held') \in Int
        BY <1>1, <1>7, <2>1, <2>2, SumWithout DEF Ledger
      <3> QED
        BY <1>2, <1>5, <1>8, <3>1, SumTypes, LimitsAssumption DEF Ledger, TypeOK
    <2>3. CASE r \notin held
      <3>1. held' = held /\ AstraySum' = AstraySum
        BY <1>1, <1>4, <1>8, <2>3
      <3> QED
        BY <3>1 DEF Ledger
    <2> QED
      BY <2>2, <2>3
  <1> QED
    BY <1>1, <1>7, <1>10, <1>11 DEF Ledger

\* A reservation that runs out frees its estimate.
LEMMA StoreExpiresKeepsLedger ==
  ASSUME AInv, NEW r \in Requests, StoreExpires(r)
  PROVE  Ledger'
  <1> USE DEF AInv
  <1>1. /\ UNCHANGED <<pc, bills, spent, incurred, overrun>> /\ r \in held /\ held' = held \ {r}
        /\ lapsed \subseteq lapsed' /\ lapsed' \subseteq lapsed \cup {r}
    BY DEF StoreExpires, history
  <1>2. Astray' = Astray
    BY <1>1 DEF Astray, Pending
  <1>3. AstraySum' = AstraySum /\ SumOver(Saved, bills)' = SumOver(Saved, bills)
    BY <1>1, <1>2 DEF AstraySum
  <1>4. IsFiniteSet(held') /\ \A x \in held : Cost[x] \in Int
    BY <1>1, CostAssumption, FS_RemoveElement DEF Ledger, TypeOK
  <1>5. SumOver(Cost, held) = SumOver(Cost, held') + Cost[r] /\ SumOver(Cost, held') \in Int
    BY <1>1, <1>4, SumWithout DEF Ledger
  <1>6. Cost[r] \in Nat
    BY <1>1, CostAssumption DEF Charged, TypeOK
  <1>7. incurred + SumOver(Cost, held') <= Allowance + overrun + AstraySum
    BY <1>5, <1>6, SumTypes, LimitsAssumption DEF Ledger, TypeOK
  <1> QED
    BY <1>1, <1>2, <1>3, <1>4, <1>7 DEF Ledger

\* Where the money of each request is.
LEMMA StepPending ==
  ASSUME AInv, [Next]_vars
  PROVE  Charged' /\ Pending'
  <1> USE DEF AInv, storeVars, history
  <1>t. \A r \in Requests : Cost[r] \in Int
    BY CostAssumption
  <1>b. \A bill \in bills : bill[1] \in Requests
    BY DEF TypeOK
  <1>1. ASSUME NEW r \in Requests, CheckArguments(r) PROVE Charged' /\ Pending'
    <2>1. /\ UNCHANGED <<sent, denied, held, bills, lapsed>> /\ pc[r] = "called"
          /\ \A x \in Requests : x # r => pc'[x] = pc[x]
          /\ pc'[r] \in {"refused", "limit"} /\ (pc'[r] = "limit" => ~(Cost[r] < 0))
      BY <1>1 DEF CheckArguments, Refuse, TypeOK
    <2>2. Charged'
      BY <1>t, <2>1 DEF Charged
    <2> QED
      BY <1>b, <2>1, <2>2 DEF Pending
  <1>2. ASSUME NEW r \in Requests, RateLimit(r) PROVE Charged' /\ Pending'
    <2>1. /\ UNCHANGED <<denied, held, bills, lapsed>> /\ pc[r] = "limit"
          /\ \A x \in Requests : x # r => pc'[x] = pc[x]
          /\ pc'[r] \in {"refused", "reserve"} /\ sent \subseteq sent' /\ sent' \subseteq sent \cup {r}
          /\ (pc'[r] = "reserve" => r \in sent')
      BY <1>2 DEF RateLimit, Refuse, TypeOK
    <2>2. Charged'
      BY <2>1 DEF Charged
    <2> QED
      BY <1>b, <2>1, <2>2 DEF Pending
  <1>3. ASSUME NEW r \in Requests, ReserveReturns(r) PROVE Charged' /\ Pending'
    <2>1. /\ UNCHANGED <<sent, denied, held, bills, lapsed>> /\ pc[r] = "reserve"
          /\ \A x \in Requests : x # r => pc'[x] = pc[x]
          /\ pc'[r] \in {"refused", "admitted"}
          /\ (pc'[r] = "admitted" => r \notin sent \cup denied)
      BY <1>3 DEF ReserveReturns, ReserveAnswers, Refuse, TypeOK
    <2>2. Charged'
      BY <2>1 DEF Charged
    <2> QED
      BY <1>b, <2>1, <2>2 DEF Pending
  <1>4. ASSUME NEW r \in Requests, Reconcile(r) PROVE Charged' /\ Pending'
    <2>1. PICK actual : bills' = bills \cup {<<r, actual>>}
      BY <1>4 DEF Reconcile
    <2>2. /\ UNCHANGED <<sent, denied, held, lapsed>> /\ pc[r] = "admitted"
          /\ \A x \in Requests : x # r => pc'[x] = pc[x]
          /\ pc'[r] = "reconciled"
      BY <1>4 DEF Reconcile, TypeOK
    <2>3. Charged'
      BY <2>2 DEF Charged
    <2>4. \A bill \in bills : bill[1] \in Requests /\ bill[1] # r
      BY <2>2 DEF Pending, TypeOK
    <2>5. \A b1, b2 \in bills' : b1[1] = b2[1] => b1 = b2
      BY <2>1, <2>4 DEF Pending
    <2>6. \A bill \in bills' : pc'[bill[1]] = "reconciled" /\ bill[1] \in held' \cup lapsed'
      BY <2>1, <2>2, <2>4 DEF Pending
    <2>7. \A x \in Requests : pc'[x] = "reconciled" /\ x \in held' => \E bill \in bills' : bill[1] = x
      <3>1. bills \subseteq bills' /\ <<r, actual>> \in bills' /\ <<r, actual>>[1] = r
        BY <2>1
      <3> QED
        BY <2>2, <3>1 DEF Pending
    <2>8. \A x \in Requests : /\ pc'[x] = "reserve" => x \in sent' \cup denied' \cup held' \cup lapsed'
                              /\ pc'[x] = "admitted" => x \in held' \cup lapsed'
      BY <2>2 DEF Pending
    <2> QED
      BY <2>3, <2>5, <2>6, <2>7, <2>8 DEF Pending
  <1>5. ASSUME NEW r \in Requests, StoreReserves(r) PROVE Charged' /\ Pending'
    <2>1. /\ UNCHANGED <<pc, bills, lapsed>> /\ r \in sent /\ sent' = sent \ {r}
          /\ held \subseteq held' /\ denied \subseteq denied' /\ r \in held' \cup denied'
          /\ held' \subseteq held \cup {r}
      BY <1>5 DEF StoreReserves
    <2>2. Charged'
      BY <2>1 DEF Charged
    <2>3. pc[r] # "reconciled"
      BY <2>1 DEF SentOnce
    <2> QED
      BY <2>1, <2>2, <2>3 DEF Pending
  <1>6. ASSUME NEW r \in Requests, StoreBooks(r) PROVE Charged' /\ Pending'
    <2>1. PICK bill \in bills :
            /\ bill[1] = r /\ bills' = bills \ {bill} /\ held' = held \ {r}
            /\ UNCHANGED <<pc, sent, denied, lapsed>>
      BY <1>6 DEF StoreBooks
    <2>2. Charged'
      BY <2>1 DEF Charged
    <2>3. pc[r] = "reconciled"
      BY <2>1 DEF Pending
    <2>4. \A b \in bills' : b \in bills /\ b[1] # r
      BY <2>1 DEF Pending
    <2>5. \A x \in Requests : pc'[x] = "reconciled" /\ x \in held' => \E b \in bills' : b[1] = x
      BY <2>1 DEF Pending
    <2>6. \A b \in bills' : pc'[b[1]] = "reconciled" /\ b[1] \in held' \cup lapsed'
      BY <2>1, <2>4 DEF Pending
    <2>7. \A x \in Requests : /\ pc'[x] = "reserve" => x \in sent' \cup denied' \cup held' \cup lapsed'
                              /\ pc'[x] = "admitted" => x \in held' \cup lapsed'
      BY <2>1, <2>3 DEF Pending
    <2> QED
      BY <2>2, <2>4, <2>5, <2>6, <2>7 DEF Pending
  <1>7. ASSUME NEW r \in Requests, StoreExpires(r) PROVE Charged' /\ Pending'
    <2>1. /\ UNCHANGED <<pc, sent, denied, bills>> /\ r \in held /\ held' = held \ {r}
          /\ lapsed \subseteq lapsed' /\ (pc[r] # "refused" => r \in lapsed')
      BY <1>7 DEF StoreExpires
    <2>2. Charged'
      BY <2>1 DEF Charged
    <2> QED
      BY <2>1, <2>2 DEF Pending
  <1>8. CASE UNCHANGED vars
    BY <1>8 DEF vars, Charged, Pending
  <1> QED
    BY <1>1, <1>2, <1>3, <1>4, <1>5, <1>6, <1>7, <1>8 DEF Next, Admit, Settled

\* The books lag behind what was incurred by a bounded amount, and reservations are
\* granted from them.
LEMMA StepLedger ==
  ASSUME AInv, [Next]_vars
  PROVE  Ledger'
  <1>1. ASSUME NEW r \in Requests, Admit(r) PROVE Ledger'
    <2>1. /\ UNCHANGED <<held, bills, spent, lapsed, history>>
          /\ pc[r] # "reconciled" /\ pc'[r] # "reconciled"
          /\ \A x \in Requests : x # r => pc'[x] = pc[x]
      BY <1>1 DEF Admit, CheckArguments, RateLimit, ReserveReturns, Refuse, storeVars, AInv, TypeOK
    <2> QED
      BY <2>1, AdmitKeepsLedger DEF AInv
  <1>2. CASE UNCHANGED vars
    <2>1. Astray' = Astray
      BY <1>2 DEF vars, storeVars, Astray
    <2> QED
      BY <1>2, <2>1 DEF vars, storeVars, history, AInv, Ledger, AstraySum
  <1> QED
    BY <1>1, <1>2, ReconcileKeepsLedger, StoreReservesKeepsLedger, StoreBooksKeepsLedger,
       StoreExpiresKeepsLedger DEF Next, Settled

\* However many requests reserve, are cut off, reconcile and expire in whatever
\* order, whatever they cost in the end, what they have cost and reserved exceeds the
\* tenant's allowance only by what estimates missed and by the estimates of requests
\* astray.
THEOREM OverspendBounded == Spec => []OverspendIsBounded
  <1>1. Init => AInv
    <2> SUFFICES ASSUME Init PROVE AInv
      OBVIOUS
    <2>1. TypeOK /\ SentOnce
      BY InitBInv, LimitsAssumption DEF Init, TypeOK, IsFailClosed, Verdicts, BInv
    <2>2. Charged /\ Pending
      BY DEF Init, Charged, Pending
    <2>3. Astray = {}
      BY DEF Init, Astray
    <2>4. SumOver(Cost, held) = 0 /\ SumOver(Saved, bills) = 0 /\ AstraySum = 0
      BY <2>3, SumOfEmpty DEF Init, AstraySum
    <2>5. Ledger
      BY <2>3, <2>4, FS_EmptySet, LimitsAssumption DEF Init, Ledger
    <2> QED
      BY <2>1, <2>2, <2>5 DEF AInv
  <1>2. AInv /\ BInv /\ [Next]_vars => AInv'
    BY StepBInv, StepTyped, StepPending, StepLedger DEF AInv, BInv
  <1>3. AInv => OverspendIsBounded
    BY BoundAsSums DEF AInv, Ledger
  <1> QED
    BY <1>1, <1>2, <1>3, AdmissionInvariant, PTL DEF Spec

\* As long as no reported cost exceeded its estimate and no reconciled request is
\* astray, the allowance holds what requests have cost and reserved.
COROLLARY AllowanceKept ==
  Spec => [](overrun = 0 /\ Astray = {} => incurred + Reserved <= Allowance)
  <1>1. TypeOK /\ OverspendIsBounded /\ overrun = 0 /\ Astray = {}
        => incurred + Reserved <= Allowance
    <2> SUFFICES ASSUME OverspendIsBounded, overrun = 0, Astray = {}
                 PROVE  incurred + Reserved <= Allowance
      OBVIOUS
    <2>1. AstraySum = 0
      BY SumOfEmpty DEF AstraySum
    <2> QED
      BY <2>1, BoundAsSums, LimitsAssumption
  <1> QED
    BY <1>1, OverspendBounded, AdmissionTypeCorrect, PTL
=============================================================================
