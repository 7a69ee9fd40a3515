CONSTANTS
  None = None
  Addr <- MCAddr
  Endpoint = {"home", "away"}
  Hostname = {"home", "away"}
  WgConf <- MCRecover
  ApConf <- MCNoAp
  Island <- MCIsland
  Glue <- MCGlue
  StaLink <- MCSta
  LocalScope <- MCLocal
  MaxDisturb = 3
SPECIFICATION FairSpec
PROPERTY Recovers
