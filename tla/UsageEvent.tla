----------------------------- MODULE UsageEvent -----------------------------
(***************************************************************************)
(* What a vendor's response says it consumed, and what AIUsageEvent.       *)
(* Validate (domain/events.go) demands of it before billing may see it.    *)
(* Token counts are machine integers: int64 in the code, any width here.   *)
(*                                                                         *)
(* As in ProviderRouter, X_Y is X with the plausible bug Y.                *)
(***************************************************************************)
EXTENDS Integers

CONSTANT MaxInt  \* the largest machine integer

ASSUME MaxIntAssumption == MaxInt \in Nat \ {0}

MachineInt == (-MaxInt - 1) .. MaxInt

\* Go's + on two machine integers wraps around.
Plus(a, b) ==
  CASE a + b > MaxInt      -> a + b - 2 * (MaxInt + 1)
    [] a + b < -MaxInt - 1 -> a + b + 2 * (MaxInt + 1)
    [] OTHER               -> a + b

\* A cost is "unpayable" when it is NaN, infinite or negative.
Usages == [input : MachineInt, output : MachineInt, total : MachineInt,
           cost : {"payable", "unpayable"}]

\* A response that reports no usage: the zero values of its fields.
NoUsage == [input |-> 0, output |-> 0, total |-> 0, cost |-> "payable"]

\* FakeProvider computes the total it reports.
FakeUsage(input, output, cost) ==
  [input |-> input, output |-> output, total |-> Plus(input, output), cost |-> cost]

Validates_SumIsEnough(u) ==
  /\ u.input >= 0 /\ u.output >= 0
  /\ u.total = Plus(u.input, u.output)
  /\ u.cost = "payable"

\* Validate on the usage of an event; the other fields an event of
\* Service.Complete always has.
Validates(u) ==
  /\ u.input >= 0 /\ u.output >= 0 /\ u.total >= 0
  /\ u.total = Plus(u.input, u.output)
  /\ u.cost = "payable"

\* What billing may rely on: the total is the true sum, without a wrap.
IsExact(u) ==
  /\ {u.input, u.output} \subseteq Nat
  /\ u.total = u.input + u.output
  /\ u.cost = "payable"
=============================================================================
