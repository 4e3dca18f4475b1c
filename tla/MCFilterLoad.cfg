SPECIFICATION Spec
CONSTANTS
  Builds = {TRUE, FALSE}
  CodeSize = 2
  WordSize = 16
  Sessions = {"first", "second"}
  Program <- Programs
  Splits = {9}
  BusCycles <- Cycles
  MaxPosted = 0
  MaxTroubles = 1
INVARIANTS TypeOK LoadedProgram
PROPERTIES CodeStable Restarts
CHECK_DEADLOCK FALSE
