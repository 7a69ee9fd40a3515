CONSTANTS
  None = None
  Pbuf = {p1, p2}
  QUEUE_LEN = 3
  NTB = 2
  BOUNCE_DELAY = 3
  RECONNECT_DELAY = 2
  WRAP = 6
SPECIFICATION Spec
INVARIANTS
  RingIsQueue
  RefsExact
  NeverWedged
PROPERTY ReplugEnds
