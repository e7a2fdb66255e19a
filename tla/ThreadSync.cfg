CONSTANTS
  Threads = {t1, t2, t3}
  Waiters = {t1, t2, t3}
  Nobody = Nobody
  RaiseAt = {"lock", "sleep", "wait", "wait_relock", "unlock", "signal", "broadcast", "ensure"}
  MaxRaises = 2
SPECIFICATION FairSpec
INVARIANTS Exclusion SignalsKept
PROPERTY MutexTaken
