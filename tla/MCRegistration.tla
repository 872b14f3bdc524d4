--------------------------- MODULE MCRegistration ---------------------------
(* Small instances of Registration for TLC.                                *)
EXTENDS Registration, TLC

\* Calls, slugs and addresses differ in nothing but their names.
Symmetry == Permutations(Calls) \cup Permutations(Slugs) \cup Permutations(Emails)
=============================================================================
