---------------------------- MODULE MCTenantKeys ----------------------------
(* Small instances of TenantKeys for TLC.                                  *)
EXTENDS TenantKeys, TLC

\* Calls and tenants differ in nothing but their names.
Symmetry == Permutations(Calls) \cup Permutations(Tenants)
=============================================================================
