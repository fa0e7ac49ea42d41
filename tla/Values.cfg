SPECIFICATION MCSpec
CONSTANTS
  Thread = {t1, t2}
  Value = {v1, v2, v3}
  Undef = Undef
  Hole = Hole
  Operation = {"set", "push", "unshift"}
  MaxIndex = 2
  MaxSlots = 7
  Slack = 1
  Narrow = 4
  Key = {k1, k2, k3, k4}
  None = None
  Engine = {"Perl", "Ordered", "Immutable"}
  Sizes = {2, 4}
  Passed = {"Perl", "Immutable"}
  Width = 6
  IntegerCapacity = 1
  FloatCapacity = 2
  Precision = 5
  Texts <- MCTexts
  Numbers <- MCNumbers
  Alphabet = {" ", "-", "0", "3", ".", "e", "inf", "inity", "nan", " but true"}
  MaxText = 5
SYMMETRY Symmetry
INVARIANTS Types SpareIsVacant NothingLost AnswersRight WarnsOnce ReadsByGrammar WritesBack
PROPERTIES IsPerlList IsIteration ReadonlyKept
CHECK_DEADLOCK FALSE
