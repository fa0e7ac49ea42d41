SPECIFICATION Spec
CONSTANTS
  Thread = {t1}
  Handle = {h1, h2}
  Object = {o1, o2, o3}
  None = None
  Kind <- BothKinds
  Ceiling = 2
INVARIANTS NoUseAfterFree NoLeak
PROPERTIES Reclaimed
CHECK_DEADLOCK FALSE
