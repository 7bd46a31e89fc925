-------------------------- MODULE MCGatewayService --------------------------
(***************************************************************************)
(* A small instance of GatewayService for TLC, with machine integers of    *)
(* three bits.                                                             *)
(***************************************************************************)
EXTENDS GatewayService

\* What a vendor may report: a sound usage, totals that wrapped around (below
\* zero, and down to the smallest integer), a total that is no sum, a negative
\* count hidden in a sum that holds, and a cost that cannot be charged.
MCVendorUsages ==
  {FakeUsage(1, 2, "payable"), FakeUsage(3, 3, "payable"), FakeUsage(3, 1, "payable"),
   [input |-> 1, output |-> 1, total |-> 3, cost |-> "payable"],
   FakeUsage(-1, 2, "payable"), FakeUsage(1, 0, "unpayable")}
=============================================================================
