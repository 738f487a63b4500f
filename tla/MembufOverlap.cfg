\* One thread and a buffer of three entries.
SPECIFICATION Spec
CONSTANTS
  Threads = {t1}
  Bufs = {b1}
  NULL = NULL
  Size = 6
  EntrySize = 2
  MaxHolders = 2
INVARIANT AvailableIsFree
