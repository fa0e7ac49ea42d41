SPECIFICATION ScopeSpec
CONSTANTS
  Package = {main, P}
  Name = {f}
  None = None
  Main = main
  Feature = {"signatures"}
  Version <- Versions
  Spelling <- BareNames
  Bom = {FALSE}
  MaxDepth = 2
  MaxEntries = 1
INVARIANTS FeaturesInScope
CHECK_DEADLOCK FALSE
