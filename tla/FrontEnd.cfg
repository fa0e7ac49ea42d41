SPECIFICATION MCSpec
CONSTANTS
  None = None
  Nothing = Nothing
  Package = {main, P}
  Name = {f}
  Main = main
  Feature = {"signatures"}
  Bom = {FALSE}
  Version <- MCVersion
  Spelling <- MCSpelling
  Row <- MCRow
  MaxDepth = 2
  MaxEntries = 2
  MaxNested = 2
  MaxRows = 4
  MaxBodies = 2
  Told = 7
  Operands = {"x", "@"}
  PrefixOps = {"not", "++", "return", "ref"}
  Operators = {"or", ",", "=", "?", "==", "<=>", "**", "++", "->"}
  Openers = {"(", "["}
  MaxTokens = 6
INVARIANTS Types InScope CallsFindSubs EachByteOnce NumbersSteady ParsesAsGrammar
PROPERTIES InOrder
CHECK_DEADLOCK FALSE
