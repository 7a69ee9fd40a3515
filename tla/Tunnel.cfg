CONSTANTS
  None = None
  Addr <- MCAddr
  Endpoint = {"home"}
  Hostname = {}
  WgConf <- MCWgConf
  ApConf <- MCApConf
  Island <- MCIsland
  Glue <- MCGlue
  StaLink <- MCSta
  LocalScope <- MCLocal
  MaxDisturb = 2
SPECIFICATION Spec
INVARIANTS
  TypeOK
  
  ApClientIsolated
  ExitConfined
  DefaultFollowsSession
  NatOfThisTunnel
