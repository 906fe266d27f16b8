SPECIFICATION Spec
CONSTANTS
  Threads = {t1, t2}
  Kinds = {"sneak", "sprint", "use", "tap", "draw", "dig", "look", "place"}
  MaxVerbs = 2
  MaxUpsets = 2
  MaxInFlight = 1
SYMMETRY Symmetry
INVARIANTS TypeOK UseIsLetGo InputIsLetGo ReportIsTrue
\* Everything stops when nobody asks for more.
CHECK_DEADLOCK FALSE
