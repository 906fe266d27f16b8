SPECIFICATION FairSpec
CONSTANTS
  HasHold = TRUE
  HasControl = TRUE
  AutoRespawn = TRUE
  IdlePosition = TRUE
  MaxMoves = 2
  MaxDeaths = 1
  Faults = {"stall", "hangup", "control"}
INVARIANTS TypeOK FallsDoNotOverlap ExitedIsQuiet
PROPERTIES EveryDeferRuns FallingClears
\* The program stops when run has returned.
CHECK_DEADLOCK FALSE
