CONSTANTS
  Byte <- MCByte
  Code <- MCCode
  SB_MAX = 4
  ACK_MAX = 8
  BUDGET = 2
  WND = 2
  FIFO = 1
  LineData = {"IAC"}
  Scripts <- MCScripts
SPECIFICATION Spec
INVARIANTS
  LineGetsWhatWasMeant
  ClientReadsTheLine
  NoOverrun
  BuffersHold
PROPERTY ClientDrains
CHECK_DEADLOCK FALSE
