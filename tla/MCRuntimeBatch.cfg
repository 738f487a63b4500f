\* One caller waits for two asynchronous futures and a synchronous one, in any
\* groups, with two workers and a ring of one slot; a pass is tried twice.
SPECIFICATION FairSpec
CONSTANTS
  c1 = c1
  c2 = c2
  f1 = f1
  f2 = f2
  f3 = f3
  Futs = {f1, f2, f3}
  SyncFuts = {f3}
  Workers = {w1, w2}
  RingLen = 1
  Desired = "WAKER"
  Callers = {c1}
  UserWakers = {}
  NULL = NULL
  Owner <- AllMine
  Spins = 2
  WaitsOnComplete = FALSE
PROPERTIES
  WaitReturns
  DeleteReturns
