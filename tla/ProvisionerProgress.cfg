SPECIFICATION FairSpec
CONSTANTS
  Slugs = {s1}
  Requests = {r1, r2}
  MaxDay = 1
  NilTenant = NilTenant
  NoJob = NoJob
  Faults = {"lost", "unknown"}
  Timeouts = TRUE
  Crashes = TRUE
  Served = {"provision", "deprovision"}
  NoKey = NoKey
PROPERTIES ProvisionDelivers DeprovisionDelivers
CHECK_DEADLOCK FALSE
