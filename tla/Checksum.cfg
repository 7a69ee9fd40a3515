CONSTANTS
  K = 2
  B = 4
  MSS = 1
  PATH_MTU = 2
  EXT = 3
  NAT = 2
SPECIFICATION CsumSpec
INVARIANTS
  LeavesValid
  CorruptionKept
CHECK_DEADLOCK FALSE
