\* A caller waits for a future that is already complete.
SPECIFICATION FairSpec
CONSTANTS
  c1 = c1
  c2 = c2
  f1 = f1
  f2 = f2
  f3 = f3
  Futs = {f1}
  SyncFuts = {}
  Workers = {w1}
  RingLen = 1
  Desired = "WAKER"
  Callers = {c1}
  UserWakers = {}
  NULL = NULL
  Owner <- AllMine
  Spins = 1
  WaitsOnComplete = TRUE
PROPERTY
  WaitReturns
