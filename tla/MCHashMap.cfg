\* Four operations on three keys that may collide, in a table of three entries.
SPECIFICATION Spec
CONSTANTS
  Ops = {o1, o2, o3, o4}
  Keys = {k1, k2, k3}
  NULL = NULL
  Capacity = 3
  SizeSpace = 8
SYMMETRY Symmetry
INVARIANTS
  CopyProtected
  Findable
  Quiescent
  AnswersAddUp
