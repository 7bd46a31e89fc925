-------------------------- MODULE MCProviderRouter --------------------------
(***************************************************************************)
(* A small instance of ProviderRouter for TLC.                             *)
(***************************************************************************)
EXTENDS ProviderRouter

\* One transient and one terminal kind stand for their groups (no function
\* of ProviderErrors tells the members apart), with a transient failure
\* whose cause is a context error, a vendor client's own time limit and an
\* error of an unknown type.
MCVendorFailures ==
  {{"unavailable"}, {"unavailable", "deadline"}, {"authentication"},
   {"deadline"}, {"opaque"}}

\* The router does not look at usage: one value that is not the zero value.
MCVendorUsages == {FakeUsage(1, 2, "payable")}

\* The first retry follows at once, the later ones after a delay.
MCBackoff == [n \in 1 .. 3 |-> DefaultBackoff(n - 1)]
=============================================================================
