\* A signal arrives while a thread waits for the semaphore.
SPECIFICATION InterruptedSpec
CONSTANTS
  Threads = {t1, t2}
  NULL = NULL
  Uses <- MCUses
  Tokens = 2
INVARIANT TokensConserved
CHECK_DEADLOCK FALSE
