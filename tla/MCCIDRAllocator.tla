-------------------------- MODULE MCCIDRAllocator --------------------------
(* Small instances of CIDRAllocator for TLC.                               *)
EXTENDS CIDRAllocator, TLC

\* Tenants differ in nothing but their names.
Symmetry == Permutations(Tenants)
=============================================================================
