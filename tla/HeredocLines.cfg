SPECIFICATION Spec
CONSTANTS
  Row <- Plain
  MaxRows = 4
  MaxBodies = 2
  Told = 7
  Nothing = Nothing
INVARIANTS NumbersTrue
CHECK_DEADLOCK FALSE
