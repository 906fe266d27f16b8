SPECIFICATION FairSpec
CONSTANTS
  HasHold = FALSE
  HasControl = FALSE
  AutoRespawn = FALSE
  IdlePosition = TRUE
  MaxMoves = 1
  MaxDeaths = 1
  Faults = {}
PROPERTIES EveryDeferRuns
\* The program stops when run has returned.
CHECK_DEADLOCK FALSE
