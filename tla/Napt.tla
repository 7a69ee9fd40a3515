-------------------------------- MODULE Napt --------------------------------
(***************************************************************************)
(* napt.c: the NAT table exit mode uses at the station's edge.  A slot's   *)
(* index is its NAT port.  A packet is the flow it belongs to (protocol,   *)
(* inner address and port, or echo id) and, for TCP, the flag that matters;*)
(* the rewriting of its bytes and checksums is not state and is left out.  *)
(***************************************************************************)
EXTENDS Naturals

CONSTANTS
  Flow,      \* inner flows
  Proto,     \* the protocol of each flow
  NAPT_MAX,  \* slots
  Timeout,   \* idle timeout of each class of mapping
  Wrap,      \* 2^32: the millisecond clock is a uint32_t
  Horizon,   \* bound: how long the device stays powered
  None

Slot == 0 .. NAPT_MAX - 1
Protocols == {"tcp", "udp", "icmp"}
States == {"new", "established", "closing"}
Classes == {"half-open", "established", "closing", "udp", "icmp"}
Flags == {"syn", "ack", "fin", "none"}

\* One mapping.
Entry == [flow: Flow, state: States, last: Nat]

ASSUME ConstTypes ==
  /\ Proto \in [Flow -> Protocols]
  /\ NAPT_MAX \in Nat \ {0}
  /\ Wrap \in Nat /\ Horizon \in Nat
  /\ Timeout \in [Classes -> Nat]
  /\ \A c \in Classes : 0 < Timeout[c] /\ Timeout[c] < Wrap
  /\ None \notin Slot /\ None \notin Entry

VARIABLES
  table,  \* the entry of each slot, None where proto is 0
  now,    \* milliseconds since boot, not wrapped
  g_ext   \* an external address is set

vars == <<table, now, g_ext>>

timeout_ms(e) ==
  Timeout[CASE Proto[e.flow] = "udp"  -> "udp"
            [] Proto[e.flow] = "icmp" -> "icmp"
            [] Proto[e.flow] = "tcp"  -> IF e.state = "new" THEN "half-open" ELSE e.state]

\* now and last are compared modulo 2^32, so they are kept unwrapped here and
\* their difference is wrapped.
entry_live(i) ==
  table[i] # None /\ (now - table[i].last) % Wrap < timeout_ms(table[i])

\* The mutant keeps the last flag where the state belongs.
track_flag(f, state, flag) == IF Proto[f] = "tcp" THEN flag ELSE state

\* The state of an entry after a packet.
tcp_track(f, state, flag) ==
  IF Proto[f] # "tcp" THEN state
  ELSE IF flag = "fin" THEN "closing"
  ELSE IF flag = "ack" /\ state = "new" THEN "established" ELSE state

FlagsOf(f) == IF Proto[f] = "tcp" THEN {"syn", "ack", "fin"} ELSE {"none"}

Put(i, f, state, flag) ==
  /\ table' = [table EXCEPT ![i] =
                 [flow |-> f, state |-> tcp_track(f, state, flag), last |-> now]]
  /\ UNCHANGED <<now, g_ext>>

Init ==
  /\ table = [i \in Slot |-> None]
  /\ now = 0
  /\ g_ext = FALSE

\* A live mapping of the flow: the first one in the table is used.
Hits(f) == {i \in Slot : entry_live(i) /\ table[i].flow = f}

First(S, i) == i \in S /\ \A j \in S : i <= j

OutboundHit(f, flag) ==
  /\ g_ext
  /\ \E i \in Slot : First(Hits(f), i) /\ Put(i, f, table[i].state, flag)

\* The mutant takes the first free slot before it looks for a mapping.
NewWithoutLookup(f, flag) ==
  /\ g_ext
  /\ \E i \in Slot : First({j \in Slot : ~entry_live(j)}, i) /\ Put(i, f, "new", flag)

\* The mutant reuses the slot that was idle longest when none is free.
NewEvicts(f, flag) ==
  /\ g_ext /\ Hits(f) = {}
  /\ \E i \in Slot : /\ \A j \in Slot : table[j] # None => table[i] = None
                                          \/ table[i].last <= table[j].last
                     /\ Put(i, f, "new", flag)

\* No mapping: the first slot without a live entry.
OutboundNew(f, flag) ==
  /\ g_ext /\ Hits(f) = {}
  /\ \E i \in Slot : First({j \in Slot : ~entry_live(j)}, i) /\ Put(i, f, "new", flag)

\* No address, no free slot, a fragment or an unsupported packet: dropped.
OutboundDrop == UNCHANGED vars

\* A packet from the uplink for slot i's port, of the entry's protocol.
napt_inbound(i, flag) ==
  /\ g_ext
  /\ entry_live(i)
  /\ flag \in FlagsOf(table[i].flow)
  /\ Put(i, table[i].flow, table[i].state, flag)

napt_reset ==
  /\ table' = [i \in Slot |-> None]
  /\ UNCHANGED <<now, g_ext>>

napt_set_ext_ip(on) ==
  /\ g_ext' = on
  /\ UNCHANGED <<table, now>>

Tick ==
  /\ now < Horizon
  /\ now' = now + 1
  /\ UNCHANGED <<table, g_ext>>

Next ==
  \/ \E f \in Flow : \E flag \in FlagsOf(f) : OutboundHit(f, flag) \/ OutboundNew(f, flag)
  \/ OutboundDrop
  \/ \E i \in Slot, flag \in Flags : napt_inbound(i, flag)
  \/ napt_reset
  \/ \E on \in BOOLEAN : napt_set_ext_ip(on)
  \/ Tick

Spec == Init /\ [][Next]_vars

(***************************************************************************)
(* Properties.                                                             *)
(***************************************************************************)
\* Table and clock have their types; no entry is from the future.
TypeOK ==
  /\ table \in [Slot -> Entry \cup {None}]
  /\ now \in 0..Horizon
  /\ g_ext \in BOOLEAN
  /\ \A i \in Slot : table[i] # None => table[i].last <= now

\* The port the next packet of a flow would leave from.
PortOf(f) ==
  IF Hits(f) = {} THEN None ELSE CHOOSE i \in Slot : First(Hits(f), i)

\* napt.h 9-12, napt.c 174-188: at any moment at most one live entry belongs to a
\* flow, so a reply to its one port is the only way back to it.  Entries die
\* of age, are reused and refreshed from both sides in any order.
LiveKeysUnique ==
  \A i, j \in Slot :
    entry_live(i) /\ entry_live(j) /\ table[i].flow = table[j].flow => i = j

\* napt.c 189-193: a mapping that is live is never taken from its flow, not even
\* by a full table: it goes only when time passes or the table is reset.
MappingsLast ==
  [][\A f \in Flow :
       PortOf(f) # None /\ now' = now =>
         PortOf(f)' = PortOf(f) \/ table' = [i \in Slot |-> None]]_vars

\* napt.h 9-13: the table implements the promise of one private port per flow.
Promise == INSTANCE NatPromise WITH port <- [f \in Flow |-> PortOf(f)], Port <- Slot
KeepsPromise == Promise!Spec
=============================================================================
