SPECIFICATION MCSpec
CONSTANTS
  t1 = t1
  Thread = {t1, t2}
  Node = {n1, n2, n3}
  PerlArrays = {n1}
  MaxHeld <- Handles
  MaxEdges = 1
  Owner = o
  Foreigner = f
  Bystander = {b}
  Platform = {"linux", "windows", "other"}
  MaxOps = 3
  MaxRounds = 2
INVARIANTS StrongExact ShallowStack Exclusion
PROPERTIES Freed Resolved
CHECK_DEADLOCK FALSE
