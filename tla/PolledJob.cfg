SPECIFICATION FairSpec
CONSTANTS
  Slugs = {s1}
  Requests = {r1}
  MaxDay = 0
  NilTenant = NilTenant
  NoJob = NoJob
  Faults = {}
  Timeouts = FALSE
  Crashes = FALSE
  Served = {"provision"}
  NoKey = NoKey
PROPERTY PolledJobEnds
CHECK_DEADLOCK FALSE
