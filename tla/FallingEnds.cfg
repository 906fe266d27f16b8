SPECIFICATION FairSpec
CONSTANTS
  HereKind = "water"
  HereY = 1
  ThereKind = "void"
  ThereY = 0
  Top = 2
  MaxFall = 2
  MaxResumes = 1
  MaxSwim = 2
  Sideways = TRUE
  Unloading = TRUE
  Guessing = FALSE
INVARIANTS TypeOK DeathEndsFall
PROPERTIES FallEnds
