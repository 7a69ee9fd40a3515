SPECIFICATION Spec
CONSTANTS
  Absent = Absent
  Off = Off
  GoodKey = {"k1"}
  KeyText = {"k1", "bad", Off}
  Name = {"n1"}
  LongName = "long"
  IpText = {0, 5, 6}
  Port = {0, 65535, 65536, Absent}
  Prefix = {7, 30, 31, Absent}
  Keepalive <- MCKeepalive
  Mtu = {0, 575, 1420, 1421}
  PassLen = {7, 8, 63, 64}
  Route <- MCRoute
  Country = {"c1", "c2"}
  WIFI_COUNTRY = "c1"
  CONFIG_ROUTES_MAX = 1
  ApMtu = 1420
  Flashed <- MCFlashed
  MaxCmds = 4
INVARIANTS LiveIsCurrent ValuesSane StoredIsLoaded
