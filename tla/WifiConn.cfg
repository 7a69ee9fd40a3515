SPECIFICATION Spec
CONSTANTS
  Ssid = {"a", "b", "h", "x"}
  Password = {"", "p", "q"}
  NoPass = ""
  CONFIG_PROFILE_MAX = 3
  WIFI_PICK_ACTIVE_BONUS_DB = 2
  Networks <- MCNetworks
  Stored <- MCStored
  Typed = {"p"}
  WIFI_SCAN_MAX = 1
  MGR_SCAN_PASSES = 2
  SCAN_PASSES = 2
  FAST_RETRIES = 1
  RrWrap = 3
  Named = {"a"}
  MaxEvents = 2
INVARIANTS TypeOK CredsStored ListKept
PROPERTIES MarkStays Reconnects
