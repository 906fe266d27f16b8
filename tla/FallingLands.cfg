SPECIFICATION Spec
CONSTANTS
  HereKind = "solid"
  HereY = 1
  ThereKind = "lava"
  ThereY = 0
  Top = 4
  MaxFall = 5
  MaxResumes = 1
  MaxSwim = 2
  Sideways = FALSE
  Unloading = TRUE
  Guessing = FALSE
PROPERTIES LandsOnFloor
