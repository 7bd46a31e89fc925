---------------------------- MODULE MCLLMGateway ----------------------------
(***************************************************************************)
(* The gateway of cmd/llm-gateway/main.go for TLC: two vendors may be      *)
(* tried, two attempts each, every attempt limited in time.                *)
(***************************************************************************)
EXTENDS LLMGateway

\* See MCProviderRouter.
MCVendorFailures ==
  {{"unavailable"}, {"unavailable", "deadline"}, {"authentication"},
   {"deadline"}, {"opaque"}}

\* Only the failures of the fake provider's sentinels (infrastructure/provider):
\* no context error but the router's and the caller's own.
MCSentinels == {{"unavailable"}, {"authentication"}}

\* A usage that validates and one that does not.
MCVendorUsages == {FakeUsage(1, 2, "payable"), FakeUsage(3, 3, "payable")}

MCBackoff == [n \in 1 .. 2 |-> DefaultBackoff(n)]
=============================================================================
