---------------------------- MODULE MCOutboxTenants ----------------------------
(***************************************************************************)
(* OutboxTenants on small instances.                                       *)
(***************************************************************************)
EXTENDS OutboxTenants, TLC

\* Workers are alike, and so are tenants.
Symmetry == Permutations(Dispatchers) \cup Permutations(Tenants)

=============================================================================
