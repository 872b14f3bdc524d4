SPECIFICATION FairSpec
CONSTANTS
  MaxRuns = 2
  MaxTries = 2
  Foreign = {"unrouted", "garbled"}
  Flaky = TRUE
INVARIANTS TypeOK EventsLeaveSettled PassMeansDispatched
PROPERTY RunAndReaderEnd
\* The last run ends.
CHECK_DEADLOCK FALSE
