SPECIFICATION ScalarSpec
CONSTANTS
  Width = 6
  IntegerCapacity = 1
  FloatCapacity = 2
  Thread = {t1, t2}
  Texts <- Exponents
  Numbers <- Three
  Precision = 5
INVARIANTS AnswersRight
