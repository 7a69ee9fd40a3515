----------------------------- MODULE MCSettings -----------------------------
(* A small instance of Settings: the numbers on both sides of every limit. *)
EXTENDS Settings

MCKeepalive == {-1, 0, 65000, 65001}

MCRoute == {[net |-> 0, prefix |-> 1], [net |-> 8, prefix |-> 33], Absent}

\* A device that lacks only its key, one with an AP ready to switch on, one
\* upgraded from the first release, and an empty sector.
Almost ==
  [NoWg EXCEPT !.peer_public = "k1", !.endpoint = "n1", !.endpoint_port = 1, !.addr = 1,
               !.prefix = 30, !.host_addr = 2]
ApReady == [NoAp EXCEPT !.ssid = "n1", !.password = 8, !.addr = 5, !.prefix = 30,
                        !.client_addr = 6]
MCFlashed ==
  {NoRecord,
   [layout |-> 2, rec |-> [config_defaults EXCEPT !.wg = Almost, !.ap = ApReady]],
   [layout |-> 1, rec |-> [config_defaults EXCEPT
                             !.wg = [Almost EXCEPT !.private_key = "k1"]]]}
=============================================================================
