SPECIFICATION Spec
CONSTANTS
  Reader = {r1, r2}
  MaxBytes = 3
  MaxViews = 1
  MaxShared = 2
CONSTRAINT Bounded
SYMMETRY Symmetry
INVARIANTS StaysTrue ViewStrSound
