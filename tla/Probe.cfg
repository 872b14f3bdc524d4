SPECIFICATION FairSpec
CONSTANTS
  SpeedSamples = 2
  OverheadSamples = 2
  Paced = TRUE
  SkipCreate = {TRUE, FALSE}
  Durations = {1, 2}
  Loads = {0, 3}
  ReadySeconds = 1
  MaxIdle = 1
  MaxBirths = 2
INVARIANTS TypeOK ReachFailsTheRun NothingPassesLate
PROPERTIES RecoveryIsReal ProbeExits
\* The probe ends.
CHECK_DEADLOCK FALSE
