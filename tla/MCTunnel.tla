------------------------------ MODULE MCTunnel ------------------------------
(* Small instances of Tunnel.  A link is a pair of addresses and the subnet  *)
(* they share.                                                               *)
EXTENDS Tunnel

Link(d, h) == [addr |-> d, net |-> {d, h}, host |-> h]

MCAddr == {"u1", "h1", "h3", "u2", "h2", "i1", "i2", "g1", "g2", "p1", "c1", "q1", "c2",
           "l1", "l2", "w1"}
MCLocal == MCAddr \ {"w1", "l1", "l2"}

MCConf(d, h, ep, exitlan) ==
  [ok |-> TRUE, addr |-> d, net |-> {d, h}, host |-> h, ep |-> ep, peerok |-> TRUE,
   exit |-> TRUE, exitlan |-> exitlan, hint |-> exitlan]

Pair1 == MCConf("u1", "h1", "home", FALSE)
Pair2 == MCConf("u2", "h2", "home", TRUE)
Blank == [Pair1 EXCEPT !.ok = FALSE]
\* Pair1's device address with a shorter prefix and another lease.
Wide  == [Pair1 EXCEPT !.net = {"u1", "h1", "h3"}, !.host = "h3"]

MCWgConf == {Pair1, Pair2, Wide, Blank}
MCApConf == {Link("p1", "c1"), Link("q1", "c2")}
MCIsland == Link("i1", "i2")
MCGlue   == Link("g1", "g2")
MCSta    == {Link("l1", "l2")}

\* Moving from a server known by name to one known by address, without exit.
ByName == [Pair1 EXCEPT !.exit = FALSE]
ByAddr == [Pair2 EXCEPT !.exit = FALSE, !.ep = "lit"]
MCMoves == {ByName, ByAddr}

\* Losing and regaining the tunnel to one of two servers, without an AP and
\* without exit.
MCRecover == {ByName, [ByName EXCEPT !.ep = "away"], [ByName EXCEPT !.ok = FALSE]}
MCNoAp == {}
=============================================================================
