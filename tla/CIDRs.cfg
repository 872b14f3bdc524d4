SPECIFICATION FairSpec
CONSTANTS
  Tenants = {t1, t2}
  maxTenants = 3
  NoTenant = NoTenant
  Faults = {"lost", "unknown"}
  ReleaseAgain = FALSE
INVARIANTS TypeOK HeldPairsAreReserved FirstFit NothingLeaks
PROPERTY ScanEnds
\* A tenant whose release failed makes no further call.
CHECK_DEADLOCK FALSE
