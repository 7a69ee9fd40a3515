CONSTANTS
  RING_SIZE = 5
  REC_HDR = 1
  SNAPLEN = 2
  FrameLen = {1, 3}
  MaxPackets = 3
  HTTP_CONNS = 2
  REQ_MAX = 2
  IDLE_POLLS = 1
  SND_BUF = 1
  RespLen = {2}
SPECIFICATION Spec
INVARIANTS
  StreamIsLatest
  HeldForAReader
  DownloadIntact
PROPERTY
  SlotsComeBack
