---------------------------- MODULE ProviderPort ----------------------------
(***************************************************************************)
(* What one Provider.Complete call promises its caller (the Provider port  *)
(* of application/ports.go as Service.Complete relies on it), with no word *)
(* on retries, vendors' order, timers or backoff: some vendor calls are    *)
(* made, within a budget and at most one of them for a caller that is      *)
(* already gone, then one outcome is returned.                             *)
(***************************************************************************)
EXTENDS Integers, ProviderErrors, UsageEvent

CONSTANTS
  Vendors,       \* the vendors that may be called, positive integers
  CallBudget,    \* no more vendor calls than this
  VendorUsages   \* the usage a vendor may report

VARIABLES
  ctx,        \* the caller's context: "alive", or its Err() once dead
  calls,      \* vendor calls made so far
  lateCalls,  \* those made after the caller's death
  outcome     \* Pending, or what the call returned

vars == <<ctx, calls, lateCalls, outcome>>

Pending == [attempts |-> 0, provider |-> 0, err |-> NilError, usage |-> NoUsage]

Init ==
  /\ ctx = "alive"
  /\ calls = 0
  /\ lateCalls = 0
  /\ outcome = Pending

CallerLeaves ==
  /\ ctx = "alive"
  /\ ctx' \in ContextErrors
  /\ UNCHANGED <<calls, lateCalls, outcome>>

CallVendor ==
  /\ outcome = Pending /\ calls < CallBudget
  /\ \/ ctx = "alive" /\ UNCHANGED lateCalls
     \/ ctx # "alive" /\ lateCalls = 0 /\ lateCalls' = 1
  /\ calls' = calls + 1
  /\ UNCHANGED <<ctx, outcome>>

\* A completion comes from a vendor that was called, with what it reports.
Complete ==
  /\ outcome = Pending /\ calls > 0
  /\ outcome' \in [attempts : {calls}, provider : Vendors, err : {NilError},
                   usage : VendorUsages \cup {NoUsage}]
  /\ UNCHANGED <<ctx, calls, lateCalls>>

\* A failure reports the calls made and may name a vendor and what it consumed;
\* it is the caller's own error if no vendor was called or the last call was
\* made too late.
Fail ==
  /\ outcome = Pending
  /\ outcome' \in [attempts : {calls}, provider : {0} \cup Vendors,
                   err : Errors \ {NilError}, usage : VendorUsages \cup {NoUsage}]
  /\ calls = 0 \/ lateCalls > 0 => ctx # "alive" /\ outcome'.err = {ctx}
  /\ calls = 0 => outcome'.usage = NoUsage
  /\ UNCHANGED <<ctx, calls, lateCalls>>

Next == CallerLeaves \/ CallVendor \/ Complete \/ Fail

Spec == Init /\ [][Next]_vars
=============================================================================
