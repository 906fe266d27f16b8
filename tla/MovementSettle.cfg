SPECIFICATION FairSpec
CONSTANTS
  Actors = {"user"}
  Far = 1
  Target = 1
  StallTicks = 1
  IdlePosition = TRUE
  Endless = TRUE
  MaxMoves = 0
PROPERTIES SettleEnds DriftHeals
\* Everything stops when the connection has ended.
CHECK_DEADLOCK FALSE
