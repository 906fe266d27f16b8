SPECIFICATION FairSpec
CONSTANTS
  Own = 2
  Rows = 2
  MaxStack = 3
  Layouts <- MCLayouts
  Verbs <- MCVerbs
  MaxStackMoves = 3
  MaxVerbs = 2
  OthersMoves <- MCOthersMoves
  MaxInFlight = 1
  Troubles = {"late", "cancel"}
INVARIANTS NeverMoreThanAsked ReportIsTrue ShortOnlyWhenFull
PROPERTIES VerbsReturn
CHECK_DEADLOCK FALSE
