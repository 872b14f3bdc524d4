SPECIFICATION Spec
CONSTANTS
  Slugs = {s1}
  Requests = {r1, r2}
  MaxDay = 0
  NilTenant = NilTenant
  NoJob = NoJob
  Faults = {}
  Timeouts = FALSE
  Crashes = FALSE
  Served = {"provision", "deprovision"}
  NoKey = NoKey
INVARIANT DeletedLeavesNothing
CHECK_DEADLOCK FALSE
