CONSTANTS
  Threads = {p1, p2, c1, c2}
  Producers = {p1, p2}
  Consumers = {c1, c2}
  Waiters = {c1, c2}
  Crews = {{p1, p2, c1}, {p1, c1, c2}}
  Setters = {p2}
  Nobody = Nobody
  RaiseAt = {"lock", "sleep"}
  SizeRaiseAt = {"sleep"}
  MaxRaises = 1
  MaxPush = 3
  InitialMax = 2
  NewMax = 1
SPECIFICATION SizedSpec
INVARIANTS PoppedInOrder
PROPERTIES Bounded PushReturns Drained
CHECK_DEADLOCK FALSE
