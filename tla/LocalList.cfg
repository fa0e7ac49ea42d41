SPECIFICATION Spec
CONSTANTS
  Operands = {"x", "@"}
  PrefixOps = {"local"}
  Operators = {"="}
  Openers = {"("}
  MaxTokens = 6
INVARIANTS Accepts
CHECK_DEADLOCK FALSE
