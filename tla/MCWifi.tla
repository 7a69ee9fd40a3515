------------------------------- MODULE MCWifi -------------------------------
(* A small instance of WifiConn: three slots, a hidden network and two that *)
(* beacon.                                                                  *)
EXTENDS WifiConn

P(s, p) == [ssid |-> s, pass |-> p]

\* "a" and "b" beacon, "h" is hidden, "x" is out of range.
MCNetworks ==
  [s \in {"a", "b", "h"} |->
     [rssi |-> CASE s = "a" -> {1} [] s = "b" -> {2} [] OTHER -> {}, pass |-> "p"]]

MCStored ==
  {[profiles |-> <<P("x", "p"), P("h", "p"), P("b", "q")>>, active |-> 3],
   [profiles |-> <<>>, active |-> 0]}
=============================================================================
