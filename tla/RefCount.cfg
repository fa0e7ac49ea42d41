SPECIFICATION Spec
CONSTANTS
  Thread = {t1, t2}
  Handle = {h1, h2, h3}
  Object = {o1, o2}
  None = None
  Kind <- BothKinds
  Ceiling = 7
CONSTRAINT Bounded
SYMMETRY Symmetry
INVARIANTS TypeOK CountExact NoUseAfterFree SoleWriter RaceFree NoLeak
