\* Two futures of one mover of each kind; patterns of two bytes, so that a
\* memset can be shorter and longer than the pattern.
SPECIFICATION FairSpec
CONSTANTS
  Futs = {f1, f2}
  Sizes = {1, 3}
  PatternLen = 2
  NULL = NULL
INVARIANTS
  OutputTrue
  
  
PROPERTIES
  ImplementsOperation
  AcceptedCompletes
