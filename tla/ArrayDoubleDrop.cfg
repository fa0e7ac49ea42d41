SPECIFICATION Spec
CONSTANTS
  Value = {v1, v2, v3}
  Undef = Undef
  Hole = Hole
  Operation = {"set", "push", "unshift"}
  MaxIndex = 3
  MaxSlots = 7
  Slack = 1
  Narrow = 4
INVARIANTS NothingDroppedTwice
