SPECIFICATION FairSpec
CONSTANTS
  Calls = {c1}
  Services = {"accounts", "provisioner", "storage"}
INVARIANTS TypeOK StatusTellsOutcome AnswersAreInTheContract AnswersAreObserved SessionIsReleased
PROPERTY EveryCallReturns
\* Every call has returned, or the process has exited.
CHECK_DEADLOCK FALSE
