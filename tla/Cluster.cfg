SPECIFICATION FairSpec
CONSTANTS
  Ups = {u1, u2}
  Downs = {d1}
  NoOne = NoOne
  Faults = {"lost", "unknown"}
INVARIANTS TypeOK IngressIsExact RetrieveFits
PROPERTY ProvisioningEnds
\* Every workflow ends.
CHECK_DEADLOCK FALSE
