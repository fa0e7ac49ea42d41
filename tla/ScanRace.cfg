SPECIFICATION Spec
CONSTANTS
  Reader = {r1, r2}
  MaxBytes = 2
  MaxViews = 0
INVARIANTS TypeOK SlotsTrue AnswersRight NothingForfeited NoContradiction
PROPERTIES OnlyNarrows PassesRecorded
