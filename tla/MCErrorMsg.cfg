\* Two threads that use everything and a third that uses the rwlock.
SPECIFICATION ESpec
CONSTANTS
  t1 = t1
  t2 = t2
  t3 = t3
  NULL = NULL
  Threads = {t1, t2, t3}
  Uses <- MCUses
  Tokens = 1
  Messages = {"e"}
INVARIANTS
  FieldsTrue
  MessageIsOwn
PROPERTIES
  ImplementsThreads
  CallsReturn
\* FATAL ends the process; a condition wait may have nobody left to signal it.
CHECK_DEADLOCK FALSE
