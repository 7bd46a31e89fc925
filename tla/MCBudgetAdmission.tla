-------------------------- MODULE MCBudgetAdmission -------------------------
(***************************************************************************)
(* Five requests of one tenant for TLC, one of them with a cost that makes *)
(* no sense, an allowance that holds some of the others but not all, and   *)
(* fewer permits than requests that may ask for one.                       *)
(***************************************************************************)
EXTENDS BudgetAdmission, TLC

CONSTANTS r1, r2, r3, r4, r5

MCRequests == {r1, r2, r3, r4, r5}

MCCost == r1 :> 2 @@ r2 :> 2 @@ r3 :> 1 @@ r4 :> 1 @@ r5 :> -1

\* A report that makes no sense, one below and one above the larger estimates.
MCActualCosts == {-1, 1, 3}

\* Requests of the same cost are interchangeable.
MCSymmetry == Permutations({r1, r2}) \cup Permutations({r3, r4})
=============================================================================
