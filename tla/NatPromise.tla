----------------------------- MODULE NatPromise -----------------------------
(***************************************************************************)
(* What napt.h promises of the station-edge NAT: every inner flow has at   *)
(* most one NAT port, used for all its destinations, no two flows share a  *)
(* port, and a flow keeps its port until the mapping is forgotten.         *)
(***************************************************************************)
CONSTANTS Flow, Port, None

VARIABLE port  \* the NAT port of each flow, None without a mapping

Init == port = [f \in Flow |-> None]

\* A packet of a flow without a mapping gives it a port nobody has.
Assign(f, p) ==
  /\ port[f] = None
  /\ \A g \in Flow : port[g] # p
  /\ port' = [port EXCEPT ![f] = p]

\* Mappings are forgotten: they were idle, or the tunnel restarts.
Forget(S) == port' = [f \in Flow |-> IF f \in S THEN None ELSE port[f]]

Next ==
  \/ \E f \in Flow, p \in Port : Assign(f, p)
  \/ \E S \in SUBSET Flow : Forget(S)

Spec == Init /\ [][Next]_port
=============================================================================
