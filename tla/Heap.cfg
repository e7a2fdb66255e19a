CONSTANTS
  Slots = {r1, r2}
  Nil = Nil
  YoungSize = 2
  Mature = {m1, m2}
  Ids = {i1, i2, i3}
  Lifetime = 1
  WeakInMature = FALSE
  BufferAlone = FALSE
SPECIFICATION Spec
INVARIANTS Remembered ScannedLeft SurvivorsFit
PROPERTY CollectionInvisible
CHECK_DEADLOCK FALSE
SYMMETRY Symmetry
