SPECIFICATION FairSpec
CONSTANTS
  HasHold = FALSE
  HasControl = TRUE
  AutoRespawn = FALSE
  IdlePosition = TRUE
  MaxMoves = 2
  MaxDeaths = 1
  Faults = {"hangup", "interrupt", "control"}
PROPERTIES ExitsOnInterrupt
\* The program stops when run has returned.
CHECK_DEADLOCK FALSE
