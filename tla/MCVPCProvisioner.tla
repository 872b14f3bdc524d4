-------------------------- MODULE MCVPCProvisioner --------------------------
(* Small instances of VPCProvisioner for TLC.                              *)
EXTENDS VPCProvisioner, TLC

\* Requests are interchangeable: they differ in nothing but their names.
Symmetry == Permutations(Requests)
=============================================================================
