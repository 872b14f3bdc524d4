SPECIFICATION Spec
CONSTANTS
  Calls = {c1, c2, c3}
  Tenants = {t1, t2}
  NoKey = NoKey
  NoTenant = NoTenant
  Faults = {"lost", "unknown"}
  MaxWrites = 3
SYMMETRY Symmetry
INVARIANTS TypeOK  RevokedKeysAreDead KeysFollowActivation
PROPERTY ImplementsKeyLedger
\* Every request is answered in the end.
CHECK_DEADLOCK FALSE
