\* Two threads and two buffers of two entries and a tail. Liveness, so no
\* symmetry.
SPECIFICATION FairSpec
CONSTANTS
  Threads = {t1, t2}
  Bufs = {b1, b2}
  NULL = NULL
  Size = 5
  EntrySize = 2
  MaxHolders = 2
INVARIANTS OneOwner PruneReadsHeaders SafeUnlessFolded
PROPERTY AllocReturns
