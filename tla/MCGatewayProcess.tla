-------------------------- MODULE MCGatewayProcess --------------------------
(***************************************************************************)
(* The process of cmd/llm-gateway/main.go for TLC.                         *)
(***************************************************************************)
EXTENDS GatewayProcess

\* A failure of each class: retried, not retried, and a timeout of its own.
MCVendorFailures == {{"unavailable"}, {"authentication"}, {"deadline"}}

MCVendorUsages == {}

MCBackoff == [n \in 1 .. 2 |-> DefaultBackoff(n)]
=============================================================================
