SPECIFICATION Spec
CONSTANTS
  Slugs = {s1}
  Requests = {r1, r2, r3}
  MaxDay = 1
  NilTenant = NilTenant
  NoJob = NoJob
  Faults = {"lost", "unknown"}
  Timeouts = FALSE
  Crashes = TRUE
  Served = {"provision", "deprovision"}
  NoKey = NoKey
SYMMETRY Symmetry
INVARIANTS TypeOK SingleExecution BuiltInOrder
PROPERTIES JobMovesForward ImplementsJobLedger
\* Every request is served in the end, or its process has died.
CHECK_DEADLOCK FALSE
