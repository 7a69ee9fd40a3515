CONSTANTS
  None = None
  Addr <- MCAddr
  Endpoint = {"home", "lit"}
  Hostname = {"home"}
  WgConf <- MCMoves
  ApConf <- MCNoAp
  Island <- MCIsland
  Glue <- MCGlue
  StaLink <- MCSta
  LocalScope <- MCLocal
  MaxDisturb = 2
SPECIFICATION Spec
INVARIANT PeerAtConfiguredEndpoint
