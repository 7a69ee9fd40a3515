----------------------------- MODULE NaptProofs -----------------------------
(***************************************************************************)
(* Napt keeps its promise for every table size, every set of flows and     *)
(* every choice of timeouts, as long as the device is restarted before its *)
(* millisecond clock wraps (2^32 ms, 49.7 days).                           *)
(***************************************************************************)
EXTENDS Napt, Checksum, Integers, TLAPS

NoWrap == Horizon < Wrap

LEMMA TypeInit == Init => TypeOK
<1>1. Init => g_ext \in BOOLEAN
  BY Zenon DEF Init
<1>2. Init => table \in [Slot -> Entry \cup {None}] /\ \A i \in Slot : table[i] = None
  BY DEF Init
<1>3. Init => now \in 0..Horizon
  BY ConstTypes DEF Init
<1> QED BY <1>1, <1>2, <1>3 DEF TypeOK

\* Without a wrap, the idle time is the difference of the two readings.
LEMMA Elapsed ==
  ASSUME NoWrap, TypeOK, NEW i \in Slot, table[i] # None
  PROVE  (now - table[i].last) % Wrap = now - table[i].last
<1>1. table[i].last \in Nat /\ now \in Nat /\ table[i].last <= now /\ now <= Horizon
  BY ConstTypes DEF TypeOK, Entry
<1>2. ASSUME NEW d \in Nat, d < Wrap PROVE d % Wrap = d
  BY <1>2, ConstTypes
<1> QED BY <1>1, <1>2, ConstTypes DEF NoWrap

LEMMA TrackType ==
  ASSUME NEW f \in Flow, NEW state \in States, NEW flag
  PROVE  tcp_track(f, state, flag) \in States
  BY DEF tcp_track, States

LEMMA PutType ==
  ASSUME TypeOK, NEW i \in Slot, NEW f \in Flow, NEW state \in States, NEW flag,
         Put(i, f, state, flag)
  PROVE  TypeOK'
<1> DEFINE e == [flow |-> f, state |-> tcp_track(f, state, flag), last |-> now]
<1>1. e \in Entry
  BY TrackType DEF Entry, TypeOK
<1>2. table' = [table EXCEPT ![i] = e] /\ now' = now /\ g_ext' = g_ext
  BY DEF Put
<1>4. table' \in [Slot -> Entry \cup {None}]
  BY <1>1, <1>2 DEF TypeOK
<1>5. \A j \in Slot : table'[j] # None => table'[j].last <= now'
  BY <1>2 DEF TypeOK
<1> QED BY <1>2, <1>4, <1>5 DEF TypeOK

\* Table and clock keep their types.
LEMMA TypeNext == TypeOK /\ [Next]_vars => TypeOK'
<1> SUFFICES ASSUME TypeOK, [Next]_vars PROVE TypeOK'
  OBVIOUS
<1>1. ASSUME NEW f \in Flow, NEW flag \in FlagsOf(f), OutboundHit(f, flag) PROVE TypeOK'
  <2>1. PICK i \in Slot : First(Hits(f), i) /\ Put(i, f, table[i].state, flag)
    BY <1>1 DEF OutboundHit
  <2>2. table[i].state \in States
    BY <2>1 DEF First, Hits, entry_live, TypeOK, Entry
  <2> QED BY <2>1, <2>2, PutType
<1>2. ASSUME NEW f \in Flow, NEW flag \in FlagsOf(f), OutboundNew(f, flag) PROVE TypeOK'
  BY <1>2, PutType DEF OutboundNew, States
<1>3. CASE OutboundDrop BY <1>3 DEF OutboundDrop, vars, TypeOK
<1>4. ASSUME NEW i \in Slot, NEW flag \in Flags, napt_inbound(i, flag) PROVE TypeOK'
  <2>1. table[i].flow \in Flow /\ table[i].state \in States
    BY <1>4 DEF napt_inbound, entry_live, TypeOK, Entry
  <2> QED BY <1>4, <2>1, PutType DEF napt_inbound
<1>5. CASE napt_reset BY <1>5 DEF napt_reset, TypeOK
<1>6. ASSUME NEW on \in BOOLEAN, napt_set_ext_ip(on) PROVE TypeOK'
  BY <1>6 DEF napt_set_ext_ip, TypeOK
<1>7. CASE Tick
  <2>1. now' \in 0..Horizon /\ now <= now'
    BY <1>7, ConstTypes DEF Tick, TypeOK
  <2>2. \A i \in Slot : table[i] # None => table[i].last <= now'
    BY <2>1 DEF TypeOK, Entry
  <2> QED BY <1>7, <2>1, <2>2 DEF Tick, TypeOK
<1>8. CASE UNCHANGED vars BY <1>8 DEF vars, TypeOK
<1> QED BY <1>1, <1>2, <1>3, <1>4, <1>5, <1>6, <1>7, <1>8 DEF Next

THEOREM TypeCorrect == Spec => []TypeOK
  BY TypeInit, TypeNext, PTL DEF Spec

(***************************************************************************)
(* What a step does to the live entries of each flow.                      *)
(***************************************************************************)
LEMMA TimeoutType ==
  ASSUME NEW e \in Entry
  PROVE  timeout_ms(e) \in Nat /\ 0 < timeout_ms(e)
<1>1. e.flow \in Flow /\ e.state \in States /\ Proto[e.flow] \in Protocols
  BY ConstTypes DEF Entry
<1>2. \A c \in Classes : Timeout[c] \in Nat /\ 0 < Timeout[c]
  BY ConstTypes
<1>3. CASE Proto[e.flow] = "udp" BY <1>2, <1>3 DEF timeout_ms, Classes
<1>4. CASE Proto[e.flow] = "icmp" BY <1>2, <1>4 DEF timeout_ms, Classes
<1>5. CASE Proto[e.flow] = "tcp"
  BY <1>1, <1>2, <1>5 DEF timeout_ms, Classes, States
<1> QED BY <1>1, <1>3, <1>4, <1>5 DEF Protocols

\* Writing slot i for flow f makes it live and touches no other slot.
LEMMA PutHits ==
  ASSUME TypeOK, NEW i \in Slot, NEW f \in Flow, NEW state \in States, NEW flag,
         Put(i, f, state, flag)
  PROVE  /\ Hits(f)' = Hits(f) \cup {i}
         /\ \A g \in Flow : g # f => Hits(g)' = Hits(g) \ {i}
<1> DEFINE e == [flow |-> f, state |-> tcp_track(f, state, flag), last |-> now]
<1>1. table' = [table EXCEPT ![i] = e] /\ now' = now
  BY DEF Put
<1>2. table'[i] = e /\ \A j \in Slot : j # i => table'[j] = table[j]
  BY <1>1 DEF TypeOK
<1>3. \A j \in Slot : j # i => entry_live(j)' = entry_live(j)
  BY <1>1, <1>2 DEF entry_live
<1>4. e \in Entry /\ e # None
  BY TrackType, ConstTypes DEF Entry, TypeOK
<1>5. (now' - e.last) % Wrap < timeout_ms(e)
  <2>1. Wrap \in Nat /\ 0 < Wrap
    BY ConstTypes DEF Classes
  <2>2. now' - e.last = 0
    BY <1>1 DEF TypeOK
  <2> QED BY <1>4, <2>1, <2>2, TimeoutType
<1>6. entry_live(i)'
  BY <1>2, <1>4, <1>5 DEF entry_live
<1> QED BY <1>2, <1>3, <1>6 DEF Hits

\* At most one live entry per flow, in terms of the search's hits.
Unique == \A f \in Flow : \A i, j \in Hits(f) : i = j

\* The four things a step can do.
SameHits == \A g \in Flow : Hits(g)' = Hits(g)
NewHit(f, i) ==
  /\ Hits(f) = {} /\ Hits(f)' = {i}
  /\ ~entry_live(i)
  /\ \A g \in Flow : g # f => Hits(g)' = Hits(g)
FewerHits == now' # now /\ \A g \in Flow : Hits(g)' \subseteq Hits(g)
NoHits == table' = [i \in Slot |-> None] /\ \A g \in Flow : Hits(g)' = {}

\* A packet of a live mapping refreshes it and changes no flow's hits.
LEMMA RefreshHits ==
  ASSUME TypeOK, NEW i \in Slot, entry_live(i), NEW flag,
         Put(i, table[i].flow, table[i].state, flag)
  PROVE  SameHits
<1>1. table[i].flow \in Flow /\ table[i].state \in States
  BY DEF entry_live, TypeOK, Entry
<1>2. i \in Hits(table[i].flow) /\ \A g \in Flow : g # table[i].flow => i \notin Hits(g)
  BY DEF Hits
<1>3. PICK f \in Flow, s \in States : f = table[i].flow /\ s = table[i].state
  BY <1>1
<1>4. /\ Hits(f)' = Hits(f) \cup {i}
      /\ \A g \in Flow : g # f => Hits(g)' = Hits(g) \ {i}
  BY <1>3, PutHits
<1>5. i \in Hits(f) /\ \A g \in Flow : g # f => i \notin Hits(g)
  BY <1>2, <1>3
<1>6. Hits(f)' = Hits(f)
  BY <1>4, <1>5
<1>7. \A g \in Flow : g # f => Hits(g)' = Hits(g)
  BY <1>4, <1>5
<1>8. ASSUME NEW g \in Flow PROVE Hits(g)' = Hits(g)
  <2>1. CASE g = f BY <1>6, <2>1
  <2>2. CASE g # f BY <1>7, <2>2
  <2> QED BY <2>1, <2>2
<1> QED BY <1>8 DEF SameHits

LEMMA StepHits ==
  ASSUME NoWrap, TypeOK, TypeOK', [Next]_vars
  PROVE  \/ SameHits \/ FewerHits \/ NoHits
         \/ \E f \in Flow, i \in Slot : NewHit(f, i)
<1>1. ASSUME NEW f \in Flow, NEW flag \in FlagsOf(f), OutboundHit(f, flag) PROVE SameHits
  <2>1. PICK i \in Slot : First(Hits(f), i) /\ Put(i, f, table[i].state, flag)
    BY <1>1 DEF OutboundHit
  <2>2. entry_live(i) /\ table[i].flow = f
    BY <2>1 DEF First, Hits
  <2> QED BY <2>1, <2>2, RefreshHits
<1>2. ASSUME NEW f \in Flow, NEW flag \in FlagsOf(f), OutboundNew(f, flag)
      PROVE  \E i \in Slot : NewHit(f, i)
  <2>1. PICK i \in Slot : ~entry_live(i) /\ Put(i, f, "new", flag)
    BY <1>2 DEF OutboundNew, First
  <2>2. \A g \in Flow : i \notin Hits(g)
    BY <2>1 DEF Hits
  <2>3. Hits(f) = {}
    BY <1>2 DEF OutboundNew
  <2> QED BY <2>1, <2>2, <2>3, PutHits DEF NewHit, States
<1>3. CASE UNCHANGED vars
  BY <1>3 DEF vars, SameHits, Hits, entry_live
<1>4. ASSUME NEW i \in Slot, NEW flag \in Flags, napt_inbound(i, flag) PROVE SameHits
  BY <1>4, RefreshHits DEF napt_inbound
<1>5. CASE napt_reset
  BY <1>5 DEF napt_reset, NoHits, Hits, entry_live
<1>6. ASSUME NEW on \in BOOLEAN, napt_set_ext_ip(on) PROVE SameHits
  BY <1>6 DEF napt_set_ext_ip, SameHits, Hits, entry_live
<1>7. CASE Tick
  <2>1. table' = table /\ now' = now + 1 /\ now \in Nat
    BY <1>7 DEF Tick, TypeOK
  <2>2. ASSUME NEW i \in Slot, entry_live(i)' PROVE entry_live(i)
    <3>1. table[i] # None /\ table'[i] # None
      BY <2>1, <2>2 DEF entry_live
    <3>2. (now - table[i].last) % Wrap = now - table[i].last
      BY <3>1, Elapsed
    <3>3. (now' - table'[i].last) % Wrap = now' - table'[i].last
      <4>1. table'[i].last \in Nat /\ now' \in Nat /\ table'[i].last <= now' /\ now' <= Horizon
        BY <3>1, ConstTypes DEF TypeOK, Entry
      <4>2. ASSUME NEW d \in Nat, d < Wrap PROVE d % Wrap = d
        BY <4>2, ConstTypes
      <4> QED BY <4>1, <4>2, ConstTypes DEF NoWrap
    <3>4. table[i] \in Entry /\ table[i].last \in Nat
      BY <3>1 DEF TypeOK, Entry
    <3>5. timeout_ms(table[i]) \in Nat
      BY <3>4, TimeoutType
    <3> QED BY <2>1, <2>2, <3>1, <3>2, <3>3, <3>4, <3>5 DEF entry_live
  <2> QED BY <2>1, <2>2 DEF FewerHits, Hits
<1> QED BY <1>1, <1>2, <1>3, <1>4, <1>5, <1>6, <1>7 DEF Next, OutboundDrop

LEMMA UniqueNext ==
  ASSUME NoWrap, TypeOK, TypeOK', Unique, [Next]_vars
  PROVE  Unique'
<1>1. CASE SameHits BY <1>1 DEF Unique, SameHits
<1>2. CASE FewerHits BY <1>2 DEF Unique, FewerHits
<1>3. CASE NoHits BY <1>3 DEF Unique, NoHits
<1>4. ASSUME NEW f \in Flow, NEW i \in Slot, NewHit(f, i) PROVE Unique'
  BY <1>4 DEF Unique, NewHit
<1> QED BY <1>1, <1>2, <1>3, <1>4, StepHits

LEMMA UniqueInvariant == NoWrap => (Spec => []Unique)
<1> SUFFICES ASSUME NoWrap PROVE Spec => []Unique
  OBVIOUS
<1>1. Init => Unique
  BY DEF Init, Unique, Hits, entry_live
<1>2. TypeOK /\ TypeOK' /\ Unique /\ [Next]_vars => Unique'
  BY UniqueNext
<1> QED BY <1>1, <1>2, TypeCorrect, PTL DEF Spec

(***************************************************************************)
(* The theorems.                                                           *)
(***************************************************************************)
\* Whatever the order of packets, replies, expiries and reuse, no flow ever
\* has two live entries.
THEOREM OneEntryPerFlow == NoWrap => (Spec => []LiveKeysUnique)
<1> SUFFICES ASSUME NoWrap PROVE Spec => []LiveKeysUnique
  OBVIOUS
<1>1. TypeOK /\ Unique => LiveKeysUnique
  <2> SUFFICES ASSUME TypeOK, Unique, NEW i \in Slot, NEW j \in Slot,
                      entry_live(i), entry_live(j), table[i].flow = table[j].flow
               PROVE  i = j
    BY DEF LiveKeysUnique
  <2>1. table[i].flow \in Flow
    BY DEF entry_live, TypeOK, Entry
  <2> QED BY <2>1 DEF Unique, Hits
<1> QED BY <1>1, UniqueInvariant, TypeCorrect, PTL

\* A flow's port is its single hit.
PortShape ==
  \A f \in Flow : \/ Hits(f) = {} /\ PortOf(f) = None
                  \/ PortOf(f) \in Slot /\ Hits(f) = {PortOf(f)}

LEMMA PortOfHits == TypeOK /\ Unique => PortShape
<1> SUFFICES ASSUME TypeOK, Unique, NEW f \in Flow
             PROVE  \/ Hits(f) = {} /\ PortOf(f) = None
                    \/ PortOf(f) \in Slot /\ Hits(f) = {PortOf(f)}
  BY DEF PortShape
<1>1. CASE Hits(f) = {} BY <1>1 DEF PortOf
<1>2. ASSUME NEW i \in Hits(f) PROVE PortOf(f) \in Slot /\ Hits(f) = {PortOf(f)}
  <2>1. i \in Slot /\ Hits(f) = {i}
    BY <1>2 DEF Unique, Hits
  <2>2. i <= i
    BY <2>1, ConstTypes DEF Slot
  <2>3. \A k \in Slot : First(Hits(f), k) <=> k = i
    BY <2>1, <2>2 DEF First
  <2>4. PortOf(f) = i
    BY <2>1, <2>3 DEF PortOf
  <2> QED BY <2>1, <2>4
<1> QED BY <1>1, <1>2

\* The four things a step can do, in terms of ports.
SamePorts == \A f \in Flow : PortOf(f)' = PortOf(f)
Expiry == now' # now /\ \A f \in Flow : PortOf(f)' \in {PortOf(f), None}
Cleared == table' = [i \in Slot |-> None] /\ \A f \in Flow : PortOf(f)' = None
Assigned(f, i) ==
  /\ PortOf(f) = None /\ PortOf(f)' = i
  /\ \A g \in Flow : PortOf(g) # i
  /\ \A g \in Flow : g # f => PortOf(g)' = PortOf(g)

LEMMA PortNext ==
  ASSUME NoWrap, TypeOK, TypeOK', PortShape, PortShape', [Next]_vars
  PROVE  SamePorts \/ Expiry \/ Cleared \/ \E f \in Flow, i \in Slot : Assigned(f, i)
<1>1. CASE SameHits
  <2> SUFFICES ASSUME NEW f \in Flow PROVE PortOf(f)' = PortOf(f)
    BY DEF SamePorts
  <2>1. Hits(f)' = Hits(f)
    BY <1>1 DEF SameHits
  <2>2. \/ Hits(f) = {} /\ PortOf(f) = None
        \/ PortOf(f) \in Slot /\ Hits(f) = {PortOf(f)}
    BY DEF PortShape
  <2>3. \/ Hits(f)' = {} /\ PortOf(f)' = None
        \/ PortOf(f)' \in Slot /\ Hits(f)' = {PortOf(f)'}
    BY DEF PortShape
  <2> QED BY <2>1, <2>2, <2>3
<1>2. CASE FewerHits
  <2> SUFFICES ASSUME NEW f \in Flow PROVE PortOf(f)' \in {PortOf(f), None}
    BY <1>2 DEF FewerHits, Expiry
  <2>1. Hits(f)' \subseteq Hits(f)
    BY <1>2 DEF FewerHits
  <2> QED BY <2>1 DEF PortShape
<1>3. CASE NoHits BY <1>3 DEF NoHits, PortShape, Cleared
<1>4. ASSUME NEW f \in Flow, NEW i \in Slot, NewHit(f, i) PROVE Assigned(f, i)
  <2>1. \A g \in Flow : i \notin Hits(g)
    BY <1>4 DEF NewHit, Hits
  <2>2. \A g \in Flow : PortOf(g) # i
    BY <2>1, ConstTypes DEF PortShape
  <2>3. PortOf(f) = None /\ PortOf(f)' = i
    BY <1>4 DEF NewHit, PortShape
  <2>4. ASSUME NEW g \in Flow, g # f PROVE PortOf(g)' = PortOf(g)
    <3>1. Hits(g)' = Hits(g)
      BY <1>4, <2>4 DEF NewHit
    <3> QED BY <3>1 DEF PortShape
  <2> QED BY <2>2, <2>3, <2>4 DEF Assigned
<1> QED BY <1>1, <1>2, <1>3, <1>4, StepHits

\* A live mapping is never taken from its flow: it goes only when time passes
\* or the table is reset.
THEOREM NeverTaken == NoWrap => (Spec => MappingsLast)
<1> SUFFICES ASSUME NoWrap PROVE Spec => MappingsLast
  OBVIOUS
<1>1. TypeOK /\ TypeOK' /\ PortShape /\ PortShape' /\ [Next]_vars =>
        [\A f \in Flow : PortOf(f) # None /\ now' = now =>
            PortOf(f)' = PortOf(f) \/ table' = [i \in Slot |-> None]]_vars
  BY PortNext DEF SamePorts, Expiry, Cleared, Assigned
<1> QED BY <1>1, PortOfHits, UniqueInvariant, TypeCorrect, PTL DEF Spec, MappingsLast

\* The table implements napt.h's promise: the initial states map to initial
\* states, and every step to an assignment, a forgetting or a stutter.
THEOREM Refinement == NoWrap => (Spec => KeepsPromise)
<1> SUFFICES ASSUME NoWrap PROVE Spec => KeepsPromise
  OBVIOUS
<1> DEFINE ports == [f \in Flow |-> PortOf(f)]
<1>1. Init => Promise!Init
  BY DEF Init, Promise!Init, PortOf, Hits, entry_live
<1>2. TypeOK /\ TypeOK' /\ PortShape /\ PortShape' /\ [Next]_vars =>
        [Promise!Next]_ports
  <2> SUFFICES ASSUME TypeOK, TypeOK', PortShape, PortShape', [Next]_vars
               PROVE  Promise!Next \/ ports' = ports
    OBVIOUS
  <2>1. CASE SamePorts BY <2>1 DEF SamePorts
  <2>2. ASSUME \A f \in Flow : PortOf(f)' \in {PortOf(f), None} PROVE Promise!Next
    <3> DEFINE S == {f \in Flow : PortOf(f)' = None}
    <3>1. ports' = [f \in Flow |-> IF f \in S THEN None ELSE ports[f]]
      BY <2>2
    <3>2. Promise!Forget(S)
      BY <3>1 DEF Promise!Forget
    <3>3. S \in SUBSET Flow
      OBVIOUS
    <3> QED BY <3>2, <3>3 DEF Promise!Next
  <2>3. ASSUME NEW f \in Flow, NEW i \in Slot, Assigned(f, i) PROVE Promise!Next
    <3>1. ports' = [ports EXCEPT ![f] = i]
      BY <2>3 DEF Assigned
    <3>2. Promise!Assign(f, i)
      BY <2>3, <3>1 DEF Assigned, Promise!Assign
    <3> QED BY <3>2 DEF Promise!Next
  <2> QED BY <2>1, <2>2, <2>3, PortNext DEF Expiry, Cleared
<1> QED BY <1>1, <1>2, PortOfHits, UniqueInvariant, TypeCorrect, PTL
        DEF Spec, KeepsPromise, Promise!Spec

-----------------------------------------------------------------------------
(***************************************************************************)
(* Proofs about Checksum, for every word size: in particular for the 16-bit*)
(* words of the code, where the run has words of two bits.                 *)
(*                                                                         *)
(* fold is the code's carry loop, a recursive function.  What it computes  *)
(* needs no induction: FoldExists gives a closed form that satisfies its   *)
(* equation, so fold itself satisfies it (FoldDef), and for the sums that  *)
(* occur three rounds of the loop at most are unrolled (FoldIs).  From it: *)
(* a computed checksum sums to all ones (Finished) and RFC 1624's update   *)
(* keeps a right sum right and a wrong one wrong (Adjusted).  A hop then   *)
(* either Adjusts or Fills, and CsumInv says what that leaves true between *)
(* hops.                                                                   *)
(***************************************************************************)


\* A word is at least two bytes wide.
LEMMA WordSize ==
  B \in Nat /\ B > 1 /\ MSS \in Word /\ PATH_MTU \in Word /\ EXT \in Word /\ NAT \in Word
<1>1. K \in Nat /\ K > 1 /\ B = K * K
  BY WordsFit
<1>2. K * K \in Nat /\ K * K > 1
  BY <1>1, SMT
<1> QED BY <1>1, <1>2, WordsFit

\* Quotient and remainder.
LEMMA Divide ==
  ASSUME NEW m \in Nat \ {0}, NEW a \in Nat
  PROVE  /\ a \div m \in Nat /\ a % m \in 0 .. m - 1
         /\ a = m * (a \div m) + (a % m)
<1>1. a = m * (a \div m) + (a % m)
  BY Z3
<1>2. a \div m \in Int /\ a % m \in 0 .. m - 1
  BY SMT
<1> DEFINE q == a \div m
<1>3. ASSUME q <= -1 PROVE FALSE
  <2> HIDE DEF q
  <2>1. q \in Int BY <1>2 DEF q
  <2>2. m * q <= -m BY <1>3, <2>1, SMT
  <2> QED BY <1>1, <1>2, <2>1, <2>2 DEF q
<1>4. q \in Int /\ ~(q <= -1)
  BY <1>2, <1>3
<1> HIDE DEF q
<1>5. q \in Nat
  BY <1>4
<1>6. a \div m \in Nat
  BY <1>5 DEF q
<1> QED BY <1>1, <1>2, <1>6, Zenon

\* There is only one of each.
LEMMA OneQuotient ==
  ASSUME NEW m \in Nat \ {0}, NEW x \in Int, NEW y \in Int, NEW e \in 0 .. m - 1, NEW f \in 0 .. m - 1,
         m * x + e = m * y + f
  PROVE  x = y /\ e = f
<1>1. m * (x - y) = f - e
  BY SMT
<1>2. ASSUME x > y PROVE FALSE
  <2>1. x - y \in Nat /\ x - y >= 1 BY <1>2
  <2>2. m * (x - y) >= m BY <2>1, SMT
  <2> QED BY <1>1, <2>2
<1>3. ASSUME x < y PROVE FALSE
  <2>1. y - x \in Nat /\ y - x >= 1 BY <1>3
  <2>2. m * (y - x) >= m BY <2>1, SMT
  <2>3. m * (y - x) = e - f BY <1>1, SMT
  <2> QED BY <2>2, <2>3
<1> QED BY <1>2, <1>3

\* Whole multiples of the modulus leave the remainder alone.
LEMMA Shift ==
  ASSUME NEW m \in Nat \ {0}, NEW a \in Nat, NEW q \in Nat
  PROVE  (a + q * m) % m = a % m
<1> DEFINE b == a + q * m
           k == a \div m
           e == a % m
           h == b \div m
           f == b % m
<1>1. b \in Nat
  BY SMT
<1>2. k \in Nat /\ e \in 0 .. m - 1 /\ a = m * k + e
  BY Divide
<1>3. h \in Nat /\ f \in 0 .. m - 1 /\ b = m * h + f
  BY <1>1, Divide
<1> HIDE DEF k, e, h, f
<1>4. m * h + f = m * (k + q) + e
  BY <1>2, <1>3, SMT
<1>5. f = e
  BY <1>2, <1>3, <1>4, OneQuotient
<1> QED BY <1>5 DEF f, e

\* A word with its bytes exchanged is a word.
LEMMA SwapWord ==
  ASSUME NEW w \in Word
  PROVE  Swap(w) \in Word
<1> DEFINE q == w \div K
           e == w % K
<1>1. K \in Nat \ {0} /\ B = K * K /\ w \in Nat /\ w <= K * K - 1
  BY WordsFit, WordSize DEF Word
<1>2. q \in Nat /\ e \in 0 .. K - 1 /\ w = K * q + e
  BY <1>1, Divide
<1> HIDE DEF q, e
<1>3. ASSUME q >= K PROVE FALSE
  <2>1. K * q >= K * K
    BY <1>1, <1>2, <1>3, SMT
  <2> QED BY <1>1, <1>2, <2>1
<1>4. q \in 0 .. K - 1
  BY <1>1, <1>2, <1>3
<1>5. e * K <= (K - 1) * K /\ e * K >= 0 /\ e * K \in Int
  BY <1>1, <1>2, SMT
<1>6. (K - 1) * K = K * K - K
  BY <1>1, SMT
<1>7. e * K + q \in 0 .. K * K - 1
  BY <1>1, <1>4, <1>5, <1>6
<1>8. Swap(w) = e * K + q
  BY DEF Swap, e, q
<1> QED BY <1>1, <1>7, <1>8 DEF Word

\* The closed form of the loop, and the right-hand side of its equation.
Folded == [s \in Nat |-> IF s = 0 THEN 0 ELSE 1 + ((s - 1) % (B - 1))]
FoldOf(f) == [s \in Nat |-> IF s < B THEN s ELSE f[(s % B) + (s \div B)]]

\* The closed form satisfies the equation of the carry loop.
LEMMA FoldExists == Folded = FoldOf(Folded)
<1> DEFINE m == B - 1
<1>0. m \in Nat \ {0} /\ B \in Nat \ {0} /\ B = m + 1
  BY WordSize
<1> HIDE DEF m
<1>1. ASSUME NEW s \in Nat PROVE Folded[s] = FoldOf(Folded)[s]
  <2>1. CASE s = 0
    BY <1>0, <2>1 DEF Folded, FoldOf
  <2>2. CASE s # 0 /\ s < B
    <3>1. s - 1 \in 0 .. m - 1 /\ s - 1 \in Nat
      BY <1>0, <2>2
    <3>2. (s - 1) % m = s - 1
      BY <1>0, <3>1
    <3>3. Folded[s] = 1 + ((s - 1) % m)
      BY <2>2 DEF Folded, m
    <3>4. FoldOf(Folded)[s] = s
      BY <2>2 DEF FoldOf
    <3>5. Folded[s] = 1 + (s - 1)
      BY <3>2, <3>3, Zenon
    <3> QED BY <3>4, <3>5
  <2>3. CASE s >= B
    <3> DEFINE q == s \div B
               r == s % B
               t == r + q
    <3>1. q \in Nat /\ r \in 0 .. B - 1 /\ s = B * q + r
      BY <1>0, Divide
    <3> HIDE DEF q, r
    <3>2. q # 0
      BY <1>0, <2>3, <3>1
    <3>3. t \in Nat /\ t # 0 /\ t - 1 \in Nat
      BY <3>1, <3>2, <1>0
    <3>4. s - 1 = (t - 1) + q * m
      BY <3>1, <1>0, SMT
    <3> HIDE DEF t
    <3>5. (s - 1) % m = (t - 1) % m
      <4> DEFINE u == t - 1
      <4>1. u \in Nat /\ s - 1 = u + q * m
        BY <3>3, <3>4
      <4> HIDE DEF u
      <4>2. (u + q * m) % m = u % m
        BY <4>1, <3>1, <1>0, Shift
      <4> QED BY <4>1, <4>2, Zenon DEF u
    <3>6. Folded[s] = Folded[t]
      <4>1. Folded[s] = 1 + ((s - 1) % m)
        BY <2>3, <1>0 DEF Folded, m
      <4>2. Folded[t] = 1 + ((t - 1) % m)
        BY <3>3 DEF Folded, m
      <4> QED BY <4>1, <4>2, <3>5, Zenon
    <3>7. FoldOf(Folded)[s] = Folded[t]
      <4>1. ~(s < B)
        BY <2>3, <1>0
      <4>2. FoldOf(Folded)[s] = IF s < B THEN s ELSE Folded[(s % B) + (s \div B)]
        BY DEF FoldOf
      <4> QED BY <4>1, <4>2 DEF t, q, r
    <3> QED BY <3>6, <3>7
  <2> QED BY <2>1, <2>2, <2>3, <1>0
<1>2. Folded = [s \in Nat |-> Folded[s]]
  BY DEF Folded
<1>3. FoldOf(Folded) = [s \in Nat |-> FoldOf(Folded)[s]]
  BY DEF FoldOf
<1> QED BY <1>1, <1>2, <1>3

\* So fold does: a recursive function satisfies its equation if any function does.
LEMMA FoldDef == fold = FoldOf(fold)
<1>1. \E f : f = FoldOf(f)
  BY FoldExists
<1>2. fold = CHOOSE f : f = FoldOf(f)
  BY DEF fold, FoldOf
<1> QED BY <1>1, <1>2

\* All ones, the modulus of ones'-complement arithmetic.
Ones == B - 1

\* One round of the loop, for a sum of q whole words and a rest.
LEMMA Round ==
  ASSUME NEW s \in Nat, NEW q \in 1 .. 3, q * B <= s, s < (q + 1) * B
  PROVE  fold[s] = fold[s - q * Ones]
<1>1. B \in Nat \ {0} /\ s >= B
  BY WordSize, SMT
<1> DEFINE k == s \div B
           e == s % B
<1>2. k \in Nat /\ e \in 0 .. B - 1 /\ s = B * k + e
  BY <1>1, Divide
<1>3. fold[s] = fold[e + k]
  <2>1. fold[s] = FoldOf(fold)[s]
    BY FoldDef
  <2>2. FoldOf(fold)[s] = IF s < B THEN s ELSE fold[(s % B) + (s \div B)]
    BY DEF FoldOf
  <2>3. ~(s < B)
    BY <1>1
  <2> QED BY <2>1, <2>2, <2>3
<1> HIDE DEF k, e
<1>4. s - q * B \in 0 .. B - 1 /\ s = B * q + (s - q * B)
  BY <1>1, SMT
<1>5. k = q /\ e = s - q * B
  <2> DEFINE f == s - q * B
  <2>1. f \in 0 .. B - 1 /\ s = B * q + f
    BY <1>4
  <2> HIDE DEF f
  <2>2. k = q /\ e = f
    BY <1>1, <1>2, <2>1, OneQuotient
  <2> QED BY <2>2 DEF f
<1>6. e + k = s - q * Ones
  BY <1>1, <1>5, SMT DEF Ones
<1> QED BY <1>3, <1>6

\* A word is its own fold: the loop is not entered.
LEMMA NoRound ==
  ASSUME NEW s \in Word
  PROVE  fold[s] = s
<1>1. s \in Nat /\ s < B
  BY WordSize DEF Word
<1>2. fold[s] = FoldOf(fold)[s]
  BY FoldDef
<1> QED BY <1>1, <1>2 DEF FoldOf

\* What folding makes of a sum of up to four words and a carry.
LEMMA FoldIs ==
  ASSUME NEW s \in Nat
  PROVE  /\ s = 0 => fold[s] = 0
         /\ s \in 1 .. Ones => fold[s] = s
         /\ s \in Ones + 1 .. 2 * Ones => fold[s] = s - Ones
         /\ s \in 2 * Ones + 1 .. 3 * Ones => fold[s] = s - 2 * Ones
         /\ s \in 3 * Ones + 1 .. 4 * Ones => fold[s] = s - 3 * Ones
         /\ s = 4 * Ones + 1 => fold[s] = 1
<1>0. Ones \in Nat \ {0} /\ B = Ones + 1
  BY WordSize DEF Ones
<1>1. \A t \in 0 .. Ones : fold[t] = t
  BY <1>0, NoRound DEF Word
<1>2. \A t \in Ones + 1 .. 2 * Ones : fold[t] = t - Ones
  <2> TAKE t \in Ones + 1 .. 2 * Ones
  <2>1. fold[t] = fold[t - 1 * Ones]
    BY <1>0, Round
  <2> QED BY <1>0, <1>1, <2>1
<1>3. \A t \in 2 * Ones + 1 .. 3 * Ones : fold[t] = t - 2 * Ones
  <2> TAKE t \in 2 * Ones + 1 .. 3 * Ones
  <2>1. CASE t < 2 * B
    <3>1. fold[t] = fold[t - 1 * Ones]
      BY <1>0, <2>1, Round
    <3> QED BY <1>0, <1>2, <2>1, <3>1
  <2>2. CASE t >= 2 * B
    <3>1. fold[t] = fold[t - 2 * Ones]
      BY <1>0, <2>2, Round
    <3> QED BY <1>0, <1>1, <2>2, <3>1
  <2> QED BY <1>0, <2>1, <2>2
<1>4. \A t \in 3 * Ones + 1 .. 4 * Ones : fold[t] = t - 3 * Ones
  <2> TAKE t \in 3 * Ones + 1 .. 4 * Ones
  <2>1. CASE t < 3 * B
    <3>1. fold[t] = fold[t - 2 * Ones]
      BY <1>0, <2>1, Round
    <3> QED BY <1>0, <1>2, <2>1, <3>1
  <2>2. CASE t >= 3 * B
    <3>1. fold[t] = fold[t - 3 * Ones]
      BY <1>0, <2>2, Round
    <3> QED BY <1>0, <1>1, <2>2, <3>1
  <2> QED BY <1>0, <2>1, <2>2
<1>5. ASSUME s = 4 * Ones + 1 PROVE fold[s] = 1
  <2>1. CASE s < 3 * B
    <3>1. fold[s] = fold[s - 2 * Ones]
      BY <1>0, <1>5, <2>1, Round
    <3> QED BY <1>0, <1>3, <1>5, <2>1, <3>1
  <2>2. CASE s >= 3 * B
    <3>1. fold[s] = fold[s - 3 * Ones]
      BY <1>0, <1>5, <2>2, Round
    <3> QED BY <1>0, <1>2, <1>5, <2>2, <3>1
  <2> QED BY <1>0, <1>5, <2>1, <2>2
<1> QED BY <1>0, <1>1, <1>2, <1>3, <1>4, <1>5

-----------------------------------------------------------------------------

\* The constants in terms of all ones.
LEMMA Bounds ==
  /\ Ones \in Nat \ {0} /\ Word = 0 .. Ones /\ MSS \in Word /\ PATH_MTU \in Word
  /\ EXT \in Word /\ NAT \in Word /\ \A w : Not(w) = Ones - w
BY WordSize DEF Ones, Word, Not

\* The loop ends with a word, and with zero only for zero.
LEMMA FoldWord ==
  ASSUME NEW s \in 0 .. 4 * Ones + 1
  PROVE  fold[s] \in Word /\ (s # 0 => fold[s] # 0)
<1>1. s \in Nat
  BY Bounds
<1> QED BY <1>1, Bounds, FoldIs

\* A checksum that is computed makes the sum come out all ones.
LEMMA Finished ==
  ASSUME NEW s \in 0 .. 3 * Ones + 1
  PROVE  /\ csum_finish(s) \in Word
         /\ fold[s + csum_finish(s)] = Ones
         /\ csum_finish(s) = 0 => fold[s + Ones] = Ones
<1>1. s \in Nat /\ s \in 0 .. 4 * Ones + 1
  BY Bounds
<1> DEFINE f == fold[s]
<1>2. f \in 0 .. Ones /\ (s = 0 => f = 0)
      /\ (s \in 1 .. Ones => f = s)
      /\ (s \in Ones + 1 .. 2 * Ones => f = s - Ones)
      /\ (s \in 2 * Ones + 1 .. 3 * Ones => f = s - 2 * Ones)
      /\ (s = 3 * Ones + 1 => f = 1)
  BY <1>1, Bounds, FoldIs, FoldWord
<1>3. csum_finish(s) = Ones - f
  BY Bounds DEF csum_finish
<1> HIDE DEF f
<1>4. s + (Ones - f) \in Nat /\ s + Ones \in Nat
  BY <1>1, <1>2, Bounds
<1>5. s + (Ones - f) \in {Ones, 2 * Ones, 3 * Ones, 4 * Ones}
  BY <1>2, Bounds
<1>6. \A t \in {Ones, 2 * Ones, 3 * Ones, 4 * Ones} : fold[t] = Ones
  BY Bounds, FoldIs
<1>7. f = Ones => fold[s + Ones] = Ones
  <2>1. f = Ones => s + Ones \in {2 * Ones, 3 * Ones, 4 * Ones} \/ (Ones = 1 /\ s + Ones = 4 * Ones + 1)
    BY <1>2, Bounds
  <2>2. s + Ones = 4 * Ones + 1 => fold[s + Ones] = 1
    BY <1>4, FoldIs
  <2> QED BY <1>6, <2>1, <2>2
<1> QED BY <1>2, <1>3, <1>5, <1>6, <1>7, Bounds

\* RFC 1624's adjustment keeps a right sum right and a wrong one wrong: R is
\* the rest of the sum, and either zero may stand for the other.
LEMMA Adjusted ==
  ASSUME NEW R \in 0 .. 2 * Ones + 1, NEW c \in 1 .. Ones, NEW old \in Word, NEW new \in Word,
         NEW e \in 1 .. Ones,
         e = csum_adjust(c, old, new) \/ (csum_adjust(c, old, new) = 0 /\ e = Ones)
  PROVE  fold[R + old + c] = Ones <=> fold[R + new + e] = Ones
<1> DEFINE s == (Ones - c) + (Ones - old) + new
           f == fold[s]
<1>1. s \in 0 .. 3 * Ones /\ s \in Nat
  BY Bounds
<1>2. /\ f \in 0 .. Ones /\ (s = 0 => f = 0)
      /\ (s \in 1 .. Ones => f = s)
      /\ (s \in Ones + 1 .. 2 * Ones => f = s - Ones)
      /\ (s \in 2 * Ones + 1 .. 3 * Ones => f = s - 2 * Ones)
  BY <1>1, Bounds, FoldIs, FoldWord
<1>3. csum_adjust(c, old, new) = Ones - f
  BY Bounds DEF csum_adjust
<1> HIDE DEF f
<1> DEFINE x == R + old + c
           y == R + new + e
<1>4. x \in 1 .. 4 * Ones + 1 /\ y \in 1 .. 4 * Ones + 1
  BY Bounds
<1>5. \A t \in 1 .. 4 * Ones + 1 :
        fold[t] = Ones <=> t \in {Ones, 2 * Ones, 3 * Ones, 4 * Ones} \/ (Ones = 1 /\ t = 4 * Ones + 1)
  BY Bounds, FoldIs
<1>6. x - y \in {-3 * Ones, -2 * Ones, - Ones, 0, Ones, 2 * Ones, 3 * Ones}
  BY <1>1, <1>2, <1>3, Bounds
<1> HIDE DEF x, y
<1> QED
  <2>1. x \in {Ones, 2 * Ones, 3 * Ones, 4 * Ones} \/ (Ones = 1 /\ x = 4 * Ones + 1)
        <=> y \in {Ones, 2 * Ones, 3 * Ones, 4 * Ones} \/ (Ones = 1 /\ y = 4 * Ones + 1)
    BY <1>4, <1>6, Bounds
  <2> QED BY <1>4, <1>5, <2>1 DEF x, y

-----------------------------------------------------------------------------

\* The header checksum is missing or right.
HeaderFine(p) == p.hsum = 0 \/ HeaderOK(p)

\* q is p as a hop on the way leaves it, whatever its transport checksum.
Carries(p, q) ==
  /\ q \in Packet /\ q.kind = p.kind /\ q.frag = p.frag /\ q.flat = p.flat
  /\ HeaderFine(p) => HeaderFine(q)

\* q is p with its checksums adjusted: a checksum that was missing still is,
\* and one that is there tells what the old one told.
Adjusts(p, q) ==
  /\ Carries(p, q)
  /\ q.csum # 0 => p.csum # 0 /\ (BodyOK(p) <=> BodyOK(q))

\* The fields of a packet.
LEMMA Fields ==
  ASSUME NEW p \in Packet
  PROVE  /\ p.kind \in Kinds /\ p.frag \in BOOLEAN /\ p.flat \in BOOLEAN /\ p.odd \in BOOLEAN
         /\ p.addr \in Word /\ p.port \in Word /\ p.opt \in Word /\ p.hsum \in Word /\ p.csum \in Word
BY DEF Packet

\* The option's part of a transport sum.
LEMMA OptWord ==
  ASSUME NEW p \in Packet
  PROVE  OptSum(p) \in Word
<1>1. p.opt \in Word
  BY Fields
<1>2. Swap(p.opt) \in Word
  BY <1>1, SwapWord
<1> QED BY <1>1, <1>2 DEF OptSum

\* The sums stay within what FoldIs covers.
LEMMA Sums ==
  ASSUME NEW p \in Packet
  PROVE  HeaderSum(p) \in 1 .. Ones + 1 /\ BodySum(p) \in 0 .. 3 * Ones + 1
BY Fields, OptWord, Bounds DEF HeaderSum, BodySum

\* The pseudo header's part of a transport checksum.
Pseudo(p) == IF p.kind \in {"syn", "tcp", "udp"} THEN 1 + p.addr ELSE 0

\* The transport sum splits into port, option and pseudo header.
LEMMA PseudoSum ==
  ASSUME NEW p \in Packet
  PROVE  /\ Pseudo(p) \in 0 .. Ones + 1
         /\ BodySum(p) = p.port + OptSum(p) + Pseudo(p)
<1>1. p.addr \in 0 .. Ones /\ Ones \in Nat
  BY Fields, Bounds
<1> QED BY <1>1 DEF Pseudo, BodySum

\* Adjustments follow each other, as in a rewrite.
LEMMA AdjustsTrans ==
  ASSUME NEW p, NEW q, NEW r, Adjusts(p, q), Adjusts(q, r)
  PROVE  Adjusts(p, r)
BY DEF Adjusts, Carries

\* An adjusted checksum is a word.
LEMMA AdjustWord ==
  ASSUME NEW c \in Word, NEW old \in Word, NEW new \in Word
  PROVE  csum_adjust(c, old, new) \in Word /\ csum_adjust_nz(c, old, new) \in Word
<1> DEFINE s == (Ones - c) + (Ones - old) + new
<1>1. s \in 0 .. 4 * Ones + 1
  BY Bounds
<1>2. fold[s] \in 0 .. Ones
  BY <1>1, FoldWord, Bounds
<1>3. csum_adjust(c, old, new) = Ones - fold[s]
  BY Bounds DEF csum_adjust
<1>4. csum_adjust(c, old, new) \in Word
  BY <1>2, <1>3, Bounds
<1> QED BY <1>4, Bounds DEF csum_adjust_nz

\* The word old of p's sum becomes new, and its checksum is adjusted.
Swaps(p, q, old, new) ==
  /\ p \in Packet /\ q \in Packet /\ old \in Word /\ new \in Word /\ q.kind = p.kind
  /\ q.csum = AdjustBody(p, old, new)
  /\ \E R \in 0 .. 2 * Ones + 1 : BodySum(p) = R + old /\ BodySum(q) = R + new

\* The transport checksum after one word of the sum was swapped.
LEMMA BodyAdjusts ==
  ASSUME NEW p, NEW q, NEW old, NEW new, Swaps(p, q, old, new)
  PROVE  q.csum # 0 => p.csum # 0 /\ (BodyOK(p) <=> BodyOK(q))
<1> USE DEF Swaps
<1> PICK R \in 0 .. 2 * Ones + 1 : BodySum(p) = R + old /\ BodySum(q) = R + new
  OBVIOUS
<1> SUFFICES ASSUME q.csum # 0 PROVE p.csum # 0 /\ (BodyOK(p) <=> BodyOK(q))
  OBVIOUS
<1> DEFINE c == csum_adjust(p.csum, old, new)
<1>0. p.csum \in Word /\ q.csum \in 1 .. Ones /\ c \in Word
  <2>1. p.csum \in Word /\ q.csum \in Word
    BY Fields
  <2>2. c \in Word
    BY <2>1, AdjustWord
  <2> QED BY <2>1, <2>2, Bounds
<1>1. p.csum # 0
  BY DEF AdjustBody, csum_adjust_nz
<1>2. q.csum = c \/ (c = 0 /\ q.csum = Ones)
  BY <1>1 DEF AdjustBody, csum_adjust_nz, Alternate, Ones
<1>3. p.csum \in 1 .. Ones
  BY <1>0, <1>1, Bounds
<1> HIDE DEF c
<1>4. fold[R + old + p.csum] = Ones <=> fold[R + new + q.csum] = Ones
  BY <1>0, <1>2, <1>3, Adjusted DEF c
<1> QED BY <1>1, <1>4 DEF BodyOK, Ones

\* AdjustBody yields a word.
LEMMA AdjustBodyWord ==
  ASSUME NEW p \in Packet, NEW old \in Word, NEW new \in Word
  PROVE  AdjustBody(p, old, new) \in Word
<1>1. csum_adjust(p.csum, old, new) \in Word /\ csum_adjust_nz(p.csum, old, new) \in Word
  BY Fields, AdjustWord
<1>2. B - 1 \in Word
  BY Bounds DEF Ones
<1> QED BY <1>1, <1>2 DEF AdjustBody, Alternate

\* The header's checksum when the address changes.
LEMMA HeaderAdjusts ==
  ASSUME NEW p \in Packet, NEW q \in Packet, q.hsum = csum_adjust_nz(p.hsum, p.addr, q.addr),
         HeaderFine(p)
  PROVE  HeaderFine(q)
<1> SUFFICES ASSUME q.hsum # 0 PROVE HeaderOK(q)
  BY DEF HeaderFine
<1>1. p.hsum # 0 /\ q.hsum = csum_adjust(p.hsum, p.addr, q.addr)
  BY DEF csum_adjust_nz
<1>2. p.hsum \in 1 .. Ones /\ q.hsum \in 1 .. Ones /\ p.addr \in Word /\ q.addr \in Word
  BY <1>1, Fields, Bounds
<1>3. fold[1 + p.addr + p.hsum] = Ones
  BY <1>1 DEF HeaderFine, HeaderOK, HeaderSum, Ones
<1>4. 1 \in 0 .. 2 * Ones + 1
  BY Bounds
<1>5. fold[1 + q.addr + q.hsum] = Ones
  BY <1>1, <1>2, <1>3, <1>4, Adjusted
<1> QED BY <1>5 DEF HeaderOK, HeaderSum, Ones

\* The three steps of a rewrite.
LEMMA AddrAdjusts ==
  ASSUME NEW p \in Packet, NEW addr \in Word, p.kind # "toobig",
         NEW q, q = [p EXCEPT !.hsum = csum_adjust_nz(@, p.addr, addr), !.addr = addr,
                              !.csum = IF p.kind = "echo" THEN @ ELSE AdjustBody(p, p.addr, addr)]
  PROVE  Adjusts(p, q)
<1>0. csum_adjust_nz(p.hsum, p.addr, addr) \in Word /\ AdjustBody(p, p.addr, addr) \in Word
  BY Fields, AdjustWord, AdjustBodyWord
<1>1. q \in Packet /\ q.kind = p.kind /\ q.frag = p.frag /\ q.flat = p.flat /\ q.odd = p.odd /\ q.addr = addr
      /\ q.hsum = csum_adjust_nz(p.hsum, p.addr, q.addr) /\ q.port = p.port /\ q.opt = p.opt
      /\ q.csum = IF p.kind = "echo" THEN p.csum ELSE AdjustBody(p, p.addr, addr)
  BY <1>0 DEF Packet
<1>2. HeaderFine(p) => HeaderFine(q)
  BY <1>1, HeaderAdjusts
<1>3. CASE p.kind = "echo"
  BY <1>1, <1>2, <1>3 DEF Adjusts, Carries, BodyOK, BodySum, OptSum
<1>4. CASE p.kind # "echo"
  <2> DEFINE R == p.port + OptSum(p) + 1
  <2>0. p.port \in Nat /\ OptSum(p) \in Nat /\ p.addr \in Nat /\ addr \in Nat
    BY Fields, OptWord, Bounds
  <2>1. R \in 0 .. 2 * Ones + 1
    BY Fields, OptWord, Bounds
  <2>2. BodySum(p) = R + p.addr /\ BodySum(q) = R + addr
    <3>1. p.kind \in {"syn", "tcp", "udp"}
      BY <1>4, Fields DEF Kinds
    <3>2. Pseudo(p) = 1 + p.addr /\ Pseudo(q) = 1 + addr
      BY <1>1, <3>1 DEF Pseudo
    <3>3. BodySum(p) = p.port + OptSum(p) + Pseudo(p) /\ BodySum(q) = p.port + OptSum(p) + Pseudo(q)
      BY <1>1, PseudoSum DEF OptSum
    <3> QED BY <2>0, <3>2, <3>3
  <2>3. q.csum = AdjustBody(p, p.addr, addr)
    BY <1>1, <1>4
  <2> HIDE DEF R
  <2>4. q.csum # 0 => p.csum # 0 /\ (BodyOK(p) <=> BodyOK(q))
    <3>1. q \in Packet /\ p.addr \in Word /\ q.kind = p.kind
      BY <1>1, Fields
    <3>2. Swaps(p, q, p.addr, addr)
      BY <2>1, <2>2, <2>3, <3>1 DEF Swaps
    <3> QED BY <3>2, BodyAdjusts
  <2> QED BY <1>1, <1>2, <2>4 DEF Adjusts, Carries
<1> QED BY <1>3, <1>4

\* The port, as napt.c rewrites it.
LEMMA PortAdjusts ==
  ASSUME NEW p \in Packet, NEW port \in Word,
         NEW q, q = [p EXCEPT !.port = port, !.csum = AdjustBody(p, p.port, port)]
  PROVE  Adjusts(p, q)
<1>0. AdjustBody(p, p.port, port) \in Word
  BY Fields, AdjustBodyWord
<1>1. q \in Packet /\ q.kind = p.kind /\ q.frag = p.frag /\ q.flat = p.flat /\ q.odd = p.odd /\ q.addr = p.addr
      /\ q.hsum = p.hsum /\ q.port = port /\ q.opt = p.opt /\ q.csum = AdjustBody(p, p.port, port)
  BY <1>0 DEF Packet
<1>2. HeaderFine(p) => HeaderFine(q)
  BY <1>1 DEF HeaderFine, HeaderOK, HeaderSum
<1> DEFINE R == OptSum(p) + Pseudo(p)
<1>3. R \in 0 .. 2 * Ones + 1
  BY Fields, OptWord, Bounds, PseudoSum
<1>4. BodySum(p) = R + p.port /\ BodySum(q) = R + port
  <2>1. Pseudo(q) = Pseudo(p) /\ Pseudo(p) \in Nat /\ p.port \in Nat /\ OptSum(p) \in Nat /\ OptSum(q) = OptSum(p) /\ port \in Nat
    <3>1. OptSum(p) \in Nat
      BY OptWord, Bounds
    <3>2. OptSum(q) = OptSum(p)
      BY <1>1 DEF OptSum
    <3> QED BY <1>1, <3>1, <3>2, Fields, Bounds, PseudoSum DEF Pseudo
  <2>2. BodySum(p) = p.port + OptSum(p) + Pseudo(p) /\ BodySum(q) = q.port + OptSum(q) + Pseudo(q)
    BY <1>1, PseudoSum
  <2> QED BY <1>1, <2>1, <2>2
<1> HIDE DEF R
<1>5. q.csum # 0 => p.csum # 0 /\ (BodyOK(p) <=> BodyOK(q))
  <2>1. q \in Packet /\ p.port \in Word /\ q.kind = p.kind /\ q.csum = AdjustBody(p, p.port, port)
    BY <1>1, Fields
  <2>2. Swaps(p, q, p.port, port)
    BY <1>3, <1>4, <2>1 DEF Swaps
  <2> QED BY <2>2, BodyAdjusts
<1> QED BY <1>1, <1>2, <1>5 DEF Adjusts, Carries

\* The MSS, as napt.c clamps it: right where it is a word of the sum.
LEMMA OptAdjusts ==
  ASSUME NEW p \in Packet, NEW opt \in Word,
         NEW q, q = [p EXCEPT !.opt = opt, !.csum = AdjustBody(p, p.opt, opt)]
  PROVE  Carries(p, q) /\ (~p.odd => Adjusts(p, q))
<1>0. AdjustBody(p, p.opt, opt) \in Word
  BY Fields, AdjustBodyWord
<1>1. q \in Packet /\ q.kind = p.kind /\ q.frag = p.frag /\ q.flat = p.flat /\ q.odd = p.odd /\ q.addr = p.addr
      /\ q.hsum = p.hsum /\ q.port = p.port /\ q.opt = opt /\ q.csum = AdjustBody(p, p.opt, opt)
  BY <1>0 DEF Packet
<1>2. HeaderFine(p) => HeaderFine(q)
  BY <1>1 DEF HeaderFine, HeaderOK, HeaderSum
<1>6. Carries(p, q)
  BY <1>1, <1>2 DEF Carries
<1> SUFFICES ASSUME ~p.odd PROVE Adjusts(p, q)
  BY <1>6
<1>7. OptSum(p) = p.opt /\ OptSum(q) = q.opt
  BY <1>1 DEF OptSum
<1> DEFINE R == p.port + Pseudo(p)
<1>3. R \in 0 .. 2 * Ones + 1
  BY Fields, Bounds, PseudoSum
<1>4. BodySum(p) = R + p.opt /\ BodySum(q) = R + opt
  <2>1. Pseudo(q) = Pseudo(p) /\ Pseudo(p) \in Nat /\ p.port \in Nat /\ p.opt \in Nat /\ opt \in Nat
    BY <1>1, Fields, Bounds, PseudoSum DEF Pseudo
  <2>2. BodySum(p) = p.port + OptSum(p) + Pseudo(p) /\ BodySum(q) = q.port + OptSum(q) + Pseudo(q)
    BY <1>1, PseudoSum
  <2> QED BY <1>1, <1>7, <2>1, <2>2
<1> HIDE DEF R
<1>5. q.csum # 0 => p.csum # 0 /\ (BodyOK(p) <=> BodyOK(q))
  <2>1. q \in Packet /\ p.opt \in Word /\ q.kind = p.kind /\ q.csum = AdjustBody(p, p.opt, opt)
    BY <1>1, Fields
  <2>2. Swaps(p, q, p.opt, opt)
    BY <1>3, <1>4, <2>1 DEF Swaps
  <2> QED BY <2>2, BodyAdjusts
<1> QED BY <1>5, <1>6 DEF Adjusts

\* The NAT only adjusts, unless it clamps at an odd offset.
LEMMA RewriteAdjusts ==
  ASSUME NEW p \in Packet, NEW addr \in Word, NEW port \in Word, p.kind # "toobig"
  PROVE  /\ Carries(p, Rewrite(p, addr, port))
         /\ ~(p.odd /\ Clamps(p)) => Adjusts(p, Rewrite(p, addr, port))
<1> DEFINE a == [p EXCEPT !.hsum = csum_adjust_nz(@, p.addr, addr), !.addr = addr,
                     !.csum = IF p.kind = "echo" THEN @ ELSE AdjustBody(p, p.addr, addr)]
           b == [a EXCEPT !.port = port, !.csum = AdjustBody(a, a.port, port)]
           c == [b EXCEPT !.opt = MSS, !.csum = AdjustBody(b, b.opt, MSS)]
<1>1. Rewrite(p, addr, port) = IF Clamps(b) THEN c ELSE b
  BY DEF Rewrite
<1>2. a.kind = p.kind /\ a.opt = p.opt /\ a.odd = p.odd
  BY DEF Packet
<1>3. Adjusts(p, a) /\ a \in Packet
  <2>1. Adjusts(p, a)
    BY AddrAdjusts
  <2> QED BY <2>1 DEF Adjusts, Carries
<1> HIDE DEF a
<1>4. b.kind = p.kind /\ b.opt = p.opt /\ b.odd = p.odd
  BY <1>2, <1>3 DEF Packet
<1>5. Adjusts(a, b) /\ b \in Packet
  <2>1. Adjusts(a, b)
    BY <1>3, PortAdjusts
  <2> QED BY <2>1 DEF Adjusts, Carries
<1> HIDE DEF b
<1>6. Carries(b, c) /\ (~b.odd => Adjusts(b, c))
  BY <1>5, Bounds, OptAdjusts
<1> HIDE DEF c
<1>7. Adjusts(p, b)
  BY <1>3, <1>5, AdjustsTrans
<1>8. Carries(p, b) /\ Carries(p, c)
  BY <1>6, <1>7 DEF Adjusts, Carries
<1>9. ~b.odd => Adjusts(p, c)
  BY <1>6, <1>7, AdjustsTrans
<1>10. Clamps(b) <=> Clamps(p)
  BY <1>4 DEF Clamps
<1> QED BY <1>1, <1>4, <1>7, <1>8, <1>9, <1>10

\* A hop that fills in what is missing: afterwards the header's checksum is
\* right, and the transport's unless a wrong one was there; if kept holds, one
\* that was there is left alone.
Fills(p, q, kept) ==
  /\ q \in Packet /\ q.frag = p.frag /\ q.flat = p.flat
  /\ HeaderFine(p) => HeaderOK(q)
  /\ Intact(p) => q.frag \/ BodyOK(q)
  /\ kept /\ p.csum # 0 => q.csum # 0 /\ (BodyOK(p) <=> BodyOK(q))

\* FillHeader touches nothing but a header checksum that is missing.
LEMMA HeaderFills ==
  ASSUME NEW p \in Packet
  PROVE  /\ FillHeader(p) \in Packet /\ FillHeader(p) = [p EXCEPT !.hsum = FillHeader(p).hsum]
         /\ HeaderFine(p) => HeaderOK(FillHeader(p))
         /\ FillHeader(p).csum = p.csum /\ FillHeader(p).frag = p.frag /\ FillHeader(p).flat = p.flat
         /\ FillHeader(p).kind = p.kind /\ FillHeader(p).opt = p.opt
         /\ BodySum(FillHeader(p)) = BodySum(p)
<1> DEFINE s == HeaderSum(p)
           q == [p EXCEPT !.hsum = csum_finish(s)]
<1>1. s \in 0 .. 3 * Ones + 1
  BY Sums, Bounds
<1>2. csum_finish(s) \in Word /\ fold[s + csum_finish(s)] = Ones
  BY <1>1, Finished
<1>3. q \in Packet /\ q.hsum = csum_finish(s) /\ HeaderSum(q) = s
      /\ q.csum = p.csum /\ q.frag = p.frag /\ q.kind = p.kind /\ q.opt = p.opt
      /\ q.flat = p.flat /\ q.odd = p.odd
      /\ q.port = p.port /\ q.addr = p.addr /\ q = [p EXCEPT !.hsum = q.hsum]
  BY <1>2 DEF Packet, HeaderSum
<1>4. HeaderOK(q)
  BY <1>2, <1>3 DEF HeaderOK, Ones
<1>5. BodySum(q) = BodySum(p)
  BY <1>3 DEF BodySum, OptSum
<1>6. p = [p EXCEPT !.hsum = p.hsum]
  BY DEF Packet
<1>7. CASE p.hsum = 0
  <2>1. FillHeader(p) = q
    BY <1>7 DEF FillHeader
  <2> HIDE DEF q
  <2> QED BY <1>3, <1>4, <1>5, <2>1
<1>8. CASE p.hsum # 0
  <2>1. FillHeader(p) = p
    BY <1>8 DEF FillHeader
  <2> QED BY <1>6, <1>8, <2>1 DEF HeaderFine
<1> QED BY <1>7, <1>8

\* FillBody touches nothing but a transport checksum that is missing.
LEMMA BodyFills ==
  ASSUME NEW p \in Packet
  PROVE  /\ FillBody(p) \in Packet /\ FillBody(p).frag = p.frag /\ FillBody(p).flat = p.flat
         /\ HeaderOK(p) => HeaderOK(FillBody(p))
         /\ p.frag \/ p.csum # 0 => FillBody(p) = p
         /\ ~p.frag /\ p.csum = 0 => BodyOK(FillBody(p))
<1>1. CASE p.frag \/ p.csum # 0
  <2>1. FillBody(p) = p
    BY <1>1 DEF FillBody
  <2> QED BY <1>1, <2>1
<1>2. CASE ~p.frag /\ p.csum = 0
  <2> DEFINE s == BodySum(p)
             c == csum_finish(s)
             e == Alternate(p, c)
             q == [p EXCEPT !.csum = e]
  <2>0. FillBody(p) = q
    BY <1>2 DEF FillBody
  <2>1. s \in 0 .. 3 * Ones + 1
    BY Sums
  <2> HIDE DEF s
  <2>2. c \in Word /\ fold[s + c] = Ones /\ (c = 0 => fold[s + Ones] = Ones)
    BY <2>1, Finished
  <2> HIDE DEF c
  <2>3. e \in Word /\ fold[s + e] = Ones /\ (p.kind = "udp" => e # 0)
    BY <2>2, Bounds DEF Alternate, Ones
  <2> HIDE DEF e
  <2>4. q \in Packet /\ q.csum = e /\ q.frag = p.frag /\ q.kind = p.kind /\ q.hsum = p.hsum
        /\ q.addr = p.addr /\ q.port = p.port /\ q.opt = p.opt /\ q.odd = p.odd /\ q.flat = p.flat
    BY <2>3 DEF Packet
  <2>5. BodySum(q) = s
    BY <2>4 DEF BodySum, OptSum, s
  <2>6. HeaderOK(p) => HeaderOK(q)
    BY <2>4 DEF HeaderOK, HeaderSum
  <2>7. BodyOK(q)
    BY <2>3, <2>4, <2>5 DEF BodyOK, Ones
  <2> HIDE DEF q
  <2> QED BY <1>2, <2>0, <2>4, <2>6, <2>7
<1> QED BY <1>1, <1>2

\* The hops of the radio links and of the tunnel fill in what is missing.
LEMMA FillsIn ==
  ASSUME NEW p \in Packet
  PROVE  Fills(p, FillBody(FillHeader(p)), TRUE)
<1> DEFINE h == FillHeader(p)
           q == FillBody(h)
<1>1. h \in Packet /\ h.csum = p.csum /\ h.frag = p.frag /\ h.flat = p.flat /\ (HeaderFine(p) => HeaderOK(h))
      /\ (BodyOK(h) <=> BodyOK(p))
  BY HeaderFills DEF BodyOK
<1> HIDE DEF h
<1>2. /\ q \in Packet /\ q.frag = h.frag /\ q.flat = h.flat /\ (HeaderOK(h) => HeaderOK(q))
      /\ (h.frag \/ h.csum # 0 => q = h)
      /\ (~h.frag /\ h.csum = 0 => BodyOK(q))
  BY <1>1, BodyFills
<1> HIDE DEF q
<1>3. Intact(p) => q.frag \/ BodyOK(q)
  BY <1>1, <1>2 DEF Intact
<1>4. p.csum # 0 => q.csum # 0 /\ (BodyOK(p) <=> BodyOK(q))
  BY <1>1, <1>2
<1>5. Fills(p, q, TRUE)
  BY <1>1, <1>2, <1>3, <1>4 DEF Fills
<1> QED BY <1>5 DEF q, h

\* The USB link's hop also replaces a checksum: where it clamps.
LEMMA FillsHost ==
  ASSUME NEW p \in Packet
  PROVE  Fills(p, fix_host_checksums(p), ~Clamps(p))
<1> DEFINE h == FillHeader(p)
           clamp == ~p.frag /\ Clamps(p)
           stamp == ~p.frag /\ p.kind = "toobig" /\ p.csum = 0 /\ p.opt = 0
           c == [h EXCEPT !.opt = MSS, !.csum = 0]
           t == [h EXCEPT !.opt = PATH_MTU]
           g == CASE clamp -> c [] stamp -> t [] OTHER -> h
<1>1. h \in Packet /\ h.csum = p.csum /\ h.frag = p.frag /\ h.flat = p.flat /\ h.kind = p.kind
      /\ (HeaderFine(p) => HeaderOK(h))
  BY HeaderFills
<1>2. fix_host_checksums(p) = FillBody(g)
  BY DEF fix_host_checksums
<1> HIDE DEF h
<1>3. 0 \in Word /\ MSS \in Word /\ PATH_MTU \in Word
  BY Bounds
<1>4. c \in Packet /\ c.frag = h.frag /\ c.flat = h.flat /\ c.csum = 0 /\ c.hsum = h.hsum /\ c.addr = h.addr
  BY <1>1, <1>3 DEF Packet
<1>5. t \in Packet /\ t.frag = h.frag /\ t.flat = h.flat /\ t.csum = h.csum /\ t.hsum = h.hsum /\ t.addr = h.addr
  BY <1>1, <1>3 DEF Packet
<1>6. (HeaderOK(h) => HeaderOK(c)) /\ (HeaderOK(h) => HeaderOK(t))
  BY <1>4, <1>5 DEF HeaderOK, HeaderSum
<1>7. (clamp => ~stamp) /\ clamp \in BOOLEAN /\ stamp \in BOOLEAN
  BY DEF Clamps
<1>8. (clamp => p.csum = 0 \/ ~(~Clamps(p))) /\ (stamp => p.csum = 0) /\ (clamp \/ stamp => ~p.frag)
  OBVIOUS
<1> HIDE DEF c, t, clamp, stamp
<1>9. (clamp => g = c) /\ (stamp => g = t) /\ (~clamp /\ ~stamp => g = h)
  BY <1>7
<1> HIDE DEF g
<1>10. CASE clamp
  <2>1. fix_host_checksums(p) = FillBody(c)
    BY <1>2, <1>9, <1>10
  <2>2. FillBody(c) \in Packet /\ FillBody(c).frag = p.frag /\ FillBody(c).flat = p.flat /\ BodyOK(FillBody(c))
        /\ (HeaderFine(p) => HeaderOK(FillBody(c)))
    BY <1>1, <1>4, <1>6, <1>8, <1>10, BodyFills
  <2> QED BY <1>8, <1>10, <2>1, <2>2 DEF Fills
<1>11. CASE stamp
  <2>1. fix_host_checksums(p) = FillBody(t)
    BY <1>2, <1>9, <1>11
  <2>2. FillBody(t) \in Packet /\ FillBody(t).frag = p.frag /\ FillBody(t).flat = p.flat /\ BodyOK(FillBody(t))
        /\ (HeaderFine(p) => HeaderOK(FillBody(t)))
    BY <1>1, <1>5, <1>6, <1>8, <1>11, BodyFills
  <2> QED BY <1>8, <1>11, <2>1, <2>2 DEF Fills
<1>12. CASE ~clamp /\ ~stamp
  <2>1. fix_host_checksums(p) = FillBody(h)
    BY <1>2, <1>9, <1>12
  <2>2. Fills(p, FillBody(h), TRUE)
    BY FillsIn DEF h
  <2> QED BY <2>1, <2>2 DEF Fills
<1> QED BY <1>10, <1>11, <1>12

-----------------------------------------------------------------------------

\* What is left of a way.
Rest ==
  Ways \cup {<<"forward", "wg">>, <<"out", "eth">>, <<>>}

\* The links at which a packet leaves.
Edges == {"usb", "wg", "eth"}

\* The ways on which a packet may be in several buffers.
Split == {<<"host", "forward", "wg">>, <<"in", "forward", "wg">>, <<"forward", "wg">>, <<"wg">>, <<>>}

\* The inductive invariant: whatever the hops so far, a checksum is missing or
\* tells of the packet what the original one told.
CsumInv ==
  /\ pkt \in Packet /\ hops \in Rest
  /\ ~pkt.flat => hops \in Split
  /\ HeaderFine(pkt)
  /\ Intact(origin) /\ ~skewed => Intact(pkt)
  /\ ~Intact(origin) /\ ~refilled /\ ~skewed => ~pkt.frag /\ pkt.csum # 0 /\ ~BodyOK(pkt)
  /\ LeavesValid

\* A way ends at one of the edges, where the missing checksums are filled in.
LEMMA RestOf ==
  ASSUME hops \in Rest, hops # <<>>
  PROVE  /\ Tail(hops) \in Rest
         /\ Head(hops) \in Edges \cup {"host", "forward", "out", "in"}
         /\ Tail(hops) = <<>> => Head(hops) \in Edges
         /\ hops \in Split => Tail(hops) \in Split /\ Head(hops) \notin {"usb", "eth"}
<1> USE DEF Rest, Ways, Edges, Split
<1>1. CASE hops = <<"host", "forward", "wg">>
  BY <1>1
<1>2. CASE hops = <<"forward", "usb">>
  BY <1>2
<1>3. CASE hops = <<"forward", "eth">>
  BY <1>3
<1>4. CASE hops = <<"forward", "out", "eth">>
  BY <1>4
<1>5. CASE hops = <<"in", "forward", "wg">>
  BY <1>5
<1>6. CASE hops = <<"usb">>
  BY <1>6
<1>7. CASE hops = <<"forward", "wg">>
  BY <1>7
<1>8. CASE hops = <<"out", "eth">>
  BY <1>8
<1>9. CASE hops = <<"wg">>
  BY <1>9
<1>10. CASE hops = <<"eth">>
  BY <1>10
<1> QED BY <1>1, <1>2, <1>3, <1>4, <1>5, <1>6, <1>7, <1>8, <1>9, <1>10

\* Packets enter with the invariant.
LEMMA Starts == CsumInit => CsumInv
<1> SUFFICES ASSUME CsumInit PROVE CsumInv
  OBVIOUS
<1>1. hops \in Rest /\ hops # <<>>
  BY DEF CsumInit, Rest, Ways
<1>2. ~Intact(origin) => ~pkt.frag /\ pkt.csum # 0 /\ ~BodyOK(pkt)
  BY DEF CsumInit, Intact
<1>3. ~pkt.flat => hops \in Split
  BY DEF CsumInit, Ways, Split
<1> QED BY <1>1, <1>2, <1>3 DEF CsumInit, CsumInv, HeaderFine, LeavesValid, Left

\* What a hop that fills in has to do, and does.
LEMMA EdgeKeeps ==
  ASSUME CsumInv, NEW q, pkt' = q, NEW kept \in BOOLEAN, Fills(pkt, q, kept),
         refilled' = (refilled \/ pkt.csum = 0 \/ q.csum = 0 \/ ~kept), ~skewed' => ~skewed,
         hops' \in Rest, hops \in Split => hops' \in Split, UNCHANGED origin
  PROVE  CsumInv'
<1>1. q \in Packet /\ q.frag = pkt.frag /\ q.flat = pkt.flat /\ HeaderOK(q)
      /\ (Intact(pkt) => q.frag \/ BodyOK(q))
      /\ (kept /\ pkt.csum # 0 => q.csum # 0 /\ (BodyOK(pkt) <=> BodyOK(q)))
  BY DEF CsumInv, Fills
<1>2. Intact(origin) /\ ~skewed' => q.frag \/ BodyOK(q)
  BY <1>1 DEF CsumInv
<1>3. ~Intact(origin) /\ ~refilled' /\ ~skewed' => ~q.frag /\ q.csum # 0 /\ ~BodyOK(q)
  BY <1>1 DEF CsumInv
<1>4. ~q.flat => hops' \in Split
  BY <1>1 DEF CsumInv
<1> QED BY <1>1, <1>2, <1>3, <1>4 DEF CsumInv, HeaderFine, Intact, LeavesValid

\* And what a hop on the way has to do.
LEMMA InnerKeeps ==
  ASSUME CsumInv, NEW q, pkt' = q, Carries(pkt, q), ~skewed' => ~skewed /\ Adjusts(pkt, q),
         ~refilled' => ~refilled /\ pkt.csum # 0 /\ q.csum # 0,
         hops' \in Rest, hops \in Split => hops' \in Split, hops' # <<>>, UNCHANGED origin
  PROVE  CsumInv'
<1>1. q \in Packet /\ q.frag = pkt.frag /\ q.flat = pkt.flat /\ HeaderFine(q)
  BY DEF CsumInv, Carries
<1>2. ~skewed' => (q.csum # 0 => pkt.csum # 0 /\ (BodyOK(pkt) <=> BodyOK(q)))
  BY DEF Adjusts
<1>3. Intact(origin) /\ ~skewed' => Intact(q)
  BY <1>1, <1>2 DEF CsumInv, Intact
<1>4. ~Intact(origin) /\ ~refilled' /\ ~skewed' => ~q.frag /\ q.csum # 0 /\ ~BodyOK(q)
  BY <1>1, <1>2 DEF CsumInv
<1>5. ~q.flat => hops' \in Split
  BY <1>1 DEF CsumInv
<1> QED BY <1>1, <1>3, <1>4, <1>5 DEF CsumInv, LeavesValid, Left

\* Forwarding drops the header checksum and touches nothing else.
LEMMA ForwardAdjusts ==
  ASSUME NEW p \in Packet
  PROVE  Adjusts(p, Forward(p))
<1>1. 0 \in Word
  BY Bounds
<1>2. /\ Forward(p) \in Packet /\ Forward(p).hsum = 0 /\ Forward(p).frag = p.frag
      /\ Forward(p).flat = p.flat /\ Forward(p).odd = p.odd
      /\ Forward(p).kind = p.kind /\ Forward(p).csum = p.csum /\ Forward(p).addr = p.addr
      /\ Forward(p).port = p.port /\ Forward(p).opt = p.opt
  BY <1>1 DEF Forward, Packet
<1>3. BodyOK(Forward(p)) <=> BodyOK(p)
  BY <1>2 DEF BodyOK, BodySum, OptSum
<1> QED BY <1>2, <1>3 DEF Adjusts, Carries, HeaderFine

\* Each hop keeps the invariant.
LEMMA HopKeeps == CsumInv /\ [CsumNext]_csumvars => CsumInv'
<1> SUFFICES ASSUME CsumInv, [CsumNext]_csumvars PROVE CsumInv'
  OBVIOUS
<1>1. CASE UNCHANGED csumvars
  BY <1>1 DEF csumvars, CsumInv, LeavesValid, Left
<1>2. CASE Step
  <2> DEFINE head == Head(hops)
  <2>1. PICK addr \in Word, port \in Word :
          /\ pkt' = Hop(pkt, addr, port)
          /\ refilled' = (refilled \/ pkt.csum = 0 \/ pkt'.csum = 0
                          \/ (head \in {"host", "usb"} /\ Clamps(pkt)))
    BY <1>2 DEF Step
  <2>2. hops # <<>> /\ hops \in Rest /\ hops' = Tail(hops) /\ origin' = origin /\ pkt \in Packet
        /\ (head \in {"in", "out"} => pkt.kind # "toobig")
        /\ skewed' = (skewed \/ (head \in {"in", "out"} /\ pkt.odd /\ Clamps(pkt)))
    BY <1>2 DEF Step, CsumInv, parse
  <2>3. /\ hops' \in Rest /\ head \in Edges \cup {"host", "forward", "out", "in"}
        /\ hops' = <<>> => head \in Edges
        /\ hops \in Split => hops' \in Split
        /\ head \in {"usb", "eth"} => pkt.flat
    BY <2>2, RestOf DEF CsumInv
  <2> DEFINE q == Hop(pkt, addr, port)
  <2>4. /\ head = "host" => q = usb_net_update(pkt)
        /\ head = "usb" => q = tud_network_xmit_cb(pkt)
        /\ head = "wg" => q = wireguardif_fix_checksums(pkt)
        /\ head = "eth" => q = eth_csum_restore(pkt)
        /\ head = "forward" => q = Forward(pkt)
        /\ head = "out" => q = RewriteOut(pkt)
        /\ head = "in" => q = RewriteIn(pkt, addr, port)
    BY DEF Hop
  <2> HIDE DEF head, q
  <2>5. pkt' = q
    BY <2>1 DEF q
  <2>6. CASE head = "usb" \/ (head = "host" /\ pkt.flat)
    <3>1. q = fix_host_checksums(pkt)
      BY <2>4, <2>6 DEF usb_net_update, tud_network_xmit_cb
    <3>2. Fills(pkt, q, ~Clamps(pkt))
      BY <2>2, <3>1, FillsHost
    <3>3. refilled' = (refilled \/ pkt.csum = 0 \/ q.csum = 0 \/ ~(~Clamps(pkt)))
      BY <2>1, <2>5, <2>6
    <3>4. (~Clamps(pkt)) \in BOOLEAN /\ (~skewed' => ~skewed)
      BY <2>2, <2>6 DEF Clamps
    <3> QED BY <2>2, <2>3, <2>5, <3>2, <3>3, <3>4, EdgeKeeps
  <2>7. CASE head \in {"wg", "eth"}
    <3>1. Fills(pkt, q, TRUE)
      BY <2>2, <2>3, <2>4, <2>7, FillsIn DEF wireguardif_fix_checksums, eth_csum_restore
    <3>2. refilled' = (refilled \/ pkt.csum = 0 \/ q.csum = 0 \/ ~TRUE) /\ (~skewed' => ~skewed)
      BY <2>1, <2>2, <2>5, <2>7
    <3> QED BY <2>2, <2>3, <2>5, <3>1, <3>2, EdgeKeeps
  <2>8. CASE head \in {"forward", "out", "in"} \/ (head = "host" /\ ~pkt.flat)
    <3>1. Carries(pkt, q) /\ (~skewed' => ~skewed /\ Adjusts(pkt, q))
      <4>1. CASE head = "forward"
        BY <2>2, <2>4, <4>1, ForwardAdjusts DEF Adjusts
      <4>2. CASE head = "out"
        BY <2>2, <2>4, <4>2, RewriteAdjusts, Bounds DEF RewriteOut
      <4>3. CASE head = "in"
        BY <2>1, <2>2, <2>4, <4>3, RewriteAdjusts DEF RewriteIn
      <4>4. CASE head = "host" /\ ~pkt.flat
        BY <2>2, <2>4, <4>4 DEF usb_net_update, Adjusts, Carries
      <4> QED BY <2>8, <4>1, <4>2, <4>3, <4>4
    <3>2. ~refilled' => ~refilled /\ pkt.csum # 0 /\ q.csum # 0
      BY <2>1, <2>5
    <3>3. hops' # <<>>
      BY <2>3, <2>8 DEF Edges
    <3> QED BY <2>2, <2>3, <2>5, <3>1, <3>2, <3>3, InnerKeeps
  <2> QED BY <2>3, <2>6, <2>7, <2>8 DEF Edges
<1> QED BY <1>1, <1>2 DEF CsumNext

\* The invariant holds on every way.
LEMMA CsumAlways == CsumSpec => []CsumInv
BY Starts, HopKeeps, PTL DEF CsumSpec

\* Every header leaves right, and what enters with a right checksum, or with
\* none, leaves with a right one by every way through the device: the repair in
\* usb_net.c, eth_csum.c and wireguardif.c completes what napt.c's updates and
\* lwIP's forwarding leave, for every byte size and all values of the words,
\* except where napt.c clamps an MSS at an odd offset.
THEOREM AlwaysLeavesValid == CsumSpec => []LeavesValid
<1>1. CsumInv => LeavesValid
  BY DEF CsumInv
<1> QED BY <1>1, CsumAlways, PTL

\* What enters corrupt leaves detectably corrupt: napt.c's updates of words of
\* the sum never hide the damage.  Excepted are the packets some hop wrote a
\* checksum for (it found none, or clamped at the USB link), and those whose MSS
\* napt.c clamped at an odd offset.
THEOREM AlwaysCorruptionKept == CsumSpec => []CorruptionKept
<1>1. CsumInv => CorruptionKept
  BY DEF CsumInv, CorruptionKept
<1> QED BY <1>1, CsumAlways, PTL
=============================================================================
