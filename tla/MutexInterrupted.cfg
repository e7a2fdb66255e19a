CONSTANTS
  Threads = {t1, t2}
  Waiters = {}
  Nobody = Nobody
  RaiseAt = {"park"}
  MaxRaises = 1
SPECIFICATION Spec
INVARIANT Exclusion
