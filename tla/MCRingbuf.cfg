\* Two producers and two consumers on four slots, with counters that wrap: two
\* threads of a role can meet in one slot. One element suffices, since the ring
\* never looks at its elements.
SPECIFICATION FairSpec
CONSTANTS
  Producers = {p1, p2}
  Consumers = {c1, c2}
  Data = {d1}
  NULL = NULL
  Len = 4
  PosSpace = 8
  MaxConsumerThreads = 2
INVARIANTS SpinPartner StopClean IInv
PROPERTIES ImplementsQueue ImplementsBox RingServes
