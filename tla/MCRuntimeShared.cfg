\* Two callers, each with a runtime and a future of its own, share a mover
\* with two workers and a ring of one slot.
SPECIFICATION Spec
CONSTANTS
  c1 = c1
  c2 = c2
  f1 = f1
  f2 = f2
  f3 = f3
  Futs = {f1, f2}
  SyncFuts = {}
  Workers = {w1, w2}
  RingLen = 1
  Desired = "WAKER"
  Callers = {c1, c2}
  UserWakers = {u1}
  NULL = NULL
  Owner <- OneEach
  Spins = 1
  WaitsOnComplete = FALSE
SYMMETRY Symmetry
INVARIANTS
  WakerFrameLive
  BlocksLive
PROPERTY
  ImplementsOperation
