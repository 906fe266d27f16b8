SPECIFICATION FairSpec
CONSTANTS
  Actors = {"walker"}
  Far = 3
  Target = 3
  StallTicks = 2
  IdlePosition = FALSE
  Endless = TRUE
  MaxMoves = 0
INVARIANTS TypeOK
PROPERTIES WalkEnds
\* Everything stops when the connection has ended.
CHECK_DEADLOCK FALSE
