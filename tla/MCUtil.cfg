SPECIFICATION Spec
CONSTANTS
  Contents <- MCContents
  PARSER_MAX_LINE = 4
  Callers = {c1, c2}
  TmpFiles = 3
  Modulus = 4
  Words = 4
  Values = {"", "x", "y"}
  Owners = {o1, o2}
  PageSize = 2
  MaxLength = 3
  GroupSizes <- MCGroupSizes
  MaxCalls = 4
  UNSET = UNSET
  Bits = 6
  UnsignedBits = 4
  LongBits = {4, 8}
  Kibi = 4
  Kilo = 3
  MaxLen = 4
  MsPerSec = 2
  NsPerMs = 2
  MaxTime = 132
  Levels <- MCLevels
  MaxMessages = 4
  Apis <- MCApis
  MaxDepth = 2
  AtomBits = 2
INVARIANTS
  
  
  ChecksumRight
  
  ReturnsRight
  
  
  ToolsServed
  AtomicsHold
\* Every part comes to an end.
CHECK_DEADLOCK FALSE
