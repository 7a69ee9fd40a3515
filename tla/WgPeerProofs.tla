---------------------------- MODULE WgPeerProofs ----------------------------
(***************************************************************************)
(* No nonce is used twice, however the handshakes of the two sides cross,  *)
(* for every choice of the limits.  The argument: a keypair's name enters  *)
(* a slot only once, because a name that is in a slot or was encrypted     *)
(* with is neither the pending handshake nor an initiation still           *)
(* acceptable (IdInv), and a keypair is never in two slots.                *)
(***************************************************************************)
EXTENDS WgPeer, TLAPS

KP == [Slots -> Keypair \cup {None}]

\* NonceFresh of keypairs q and used nonces S.
Fresh(q, S) ==
  \A s \in Slots : q[s] # None =>
    /\ \A u \in S : u.sid = q[s].sid => u.n < q[s].tx
    /\ \A t \in Slots : t # s /\ q[t] # None => q[t].sid # q[s].sid

\* Session x is in a slot of q or was encrypted with.
Named(x, q, S) ==
  (\E s \in Slots : q[s] # None /\ q[s].sid = x) \/ (\E u \in S : u.sid = x)

IdInv ==
  /\ \A x \in Session : Named(x, kp, sent) =>
       x <= count /\ (Request(x) \in net => x <= gts) /\ x # hs
  /\ \A x \in Session : Request(x) \in net => x <= count
  /\ hs # None => hs <= count /\ Request(hs) \notin net

\* r holds keypairs of q, in their slots, perhaps used further.
Kept(r, q) ==
  \A s \in Slots : r[s] # None => q[s] # None /\ r[s].sid = q[s].sid /\ r[s].tx >= q[s].tx

LEMMA KeptFresh ==
  ASSUME NEW q \in KP, NEW r \in KP, NEW S, Kept(r, q), Fresh(q, S),
         \A u \in S : u.n \in Nat
  PROVE  Fresh(r, S) /\ \A x : Named(x, r, S) => Named(x, q, S)
<1>1. \A s \in Slots : r[s] # None => r[s].tx \in Nat /\ q[s].tx \in Nat
  BY ConstTypes DEF KP, Keypair, Kept
<1>2. Fresh(r, S)
  BY <1>1 DEF Fresh, Kept
<1> QED BY <1>2 DEF Named, Kept

LEMMA SlotType == \A q : SendSlot(q) \in Slots
  BY DEF SendSlot, Slots

\* What sending does to the keypairs and to the nonces used.
LEMMA UsedFresh ==
  ASSUME NEW q \in KP, NEW S, Fresh(q, S), \A u \in S : u.n \in Nat
  PROVE  /\ Used(q) \in KP
         /\ Fresh(Used(q), S \cup Nonce(q))
         /\ \A x : Named(x, Used(q), S \cup Nonce(q)) => Named(x, q, S)
         /\ Nonce(q) \subseteq [sid: Session, n: 0..RejectMsgs]
<1> DEFINE s == SendSlot(q)
<1> s \in Slots
  BY SlotType
<1>1. CASE CanSend(q)
  <2> DEFINE k == [q[s] EXCEPT !.tx = @ + 1]
  <2>1. q[s] \in Keypair /\ q[s] # None /\ q[s].tx < RejectMsgs
    BY <1>1 DEF CanSend, Confirmed, usable, KP
  <2>2. q[s].tx \in Nat /\ q[s].tx + 1 \in 0..RejectMsgs /\ q[s].sid \in Session
    BY <2>1, ConstTypes DEF Keypair
  <2>3. k \in Keypair /\ k.sid = q[s].sid /\ k.tx = q[s].tx + 1 /\ k # None
    BY <2>1, <2>2, NoneAssumption DEF Keypair
  <2>4. Used(q) = [q EXCEPT ![s] = k]
    BY <1>1 DEF Used
  <2>5. Nonce(q) = {[sid |-> q[s].sid, n |-> q[s].tx]}
    BY <1>1 DEF Nonce
  <2>6. Used(q) \in KP
    BY <2>3, <2>4 DEF KP
  <2>7. Fresh(Used(q), S)
    <3>1. Kept(Used(q), q)
      BY <2>1, <2>2, <2>3, <2>4 DEF Kept, KP, Keypair
    <3> QED BY <3>1, <2>6, KeptFresh
  <2>8. Fresh(Used(q), S \cup Nonce(q))
    <3>1. Used(q)[s] = k /\ \A t \in Slots : t # s => Used(q)[t] = q[t]
      BY <2>4 DEF KP
    <3>2. \A t \in Slots : t # s /\ q[t] # None => q[t].sid # q[s].sid
      BY <2>1 DEF Fresh
    <3>3. \A u \in Nonce(q) : u.sid = q[s].sid /\ u.n = q[s].tx
      BY <2>5
    <3>4. \A t \in Slots, u \in Nonce(q) :
            Used(q)[t] # None /\ u.sid = Used(q)[t].sid => u.n < Used(q)[t].tx
      <4> TAKE t \in Slots, u \in Nonce(q)
      <4>1. CASE t = s
        <5>1. u.n = q[s].tx /\ Used(q)[t].tx = q[s].tx + 1
          BY <2>3, <3>1, <3>3, <4>1
        <5> QED BY <2>2, <5>1
      <4>2. CASE t # s
        BY <3>1, <3>2, <3>3, <4>2
      <4> QED BY <4>1, <4>2
    <3> QED BY <2>7, <3>4 DEF Fresh
  <2>9. \A x : Named(x, Used(q), S \cup Nonce(q)) => Named(x, q, S)
    BY <2>1, <2>3, <2>4, <2>5 DEF Named, KP
  <2>10. Nonce(q) \subseteq [sid: Session, n: 0..RejectMsgs]
    BY <2>1, <2>2, <2>5, ConstTypes
  <2> QED BY <2>6, <2>8, <2>9, <2>10
<1>2. CASE ~CanSend(q)
  <2>1. Nonce(q) = {}
    BY <1>2 DEF Nonce
  <2>2. Used(q) \in KP /\ Kept(Used(q), q)
    BY <1>2, ConstTypes DEF Used, KP, Kept, Keypair
  <2> QED BY <2>1, <2>2, KeptFresh
<1> QED BY <1>1, <1>2

\* What a new session does, if its name is new.
LEMMA AddFresh ==
  ASSUME NEW q \in KP, NEW S, Fresh(q, S), NEW k \in Keypair, ~Named(k.sid, q, S)
  PROVE  /\ add_new_keypair(q, k) \in KP
         /\ Fresh(add_new_keypair(q, k), S)
         /\ \A x : Named(x, add_new_keypair(q, k), S) => Named(x, q, S) \/ x = k.sid
<1> DEFINE r == add_new_keypair(q, k)
           old == IF q["next"] # None THEN "next" ELSE "curr"
<1>1. CASE k.initiator
  <2>1. r["curr"] = k /\ r["next"] = None /\ r["prev"] = q[old] /\ r \in KP
    BY <1>1 DEF add_new_keypair, KP, Slots
  <2> QED BY <2>1 DEF Fresh, Named, Slots
<1>2. CASE ~k.initiator
  <2>1. r["curr"] = q["curr"] /\ r["next"] = k /\ r["prev"] = None /\ r \in KP
    BY <1>2 DEF add_new_keypair, KP, Slots
  <2> QED BY <2>1 DEF Fresh, Named, Slots
<1> QED BY <1>1, <1>2

\* The promotion of the next keypair moves it; it does not copy it.
LEMMA UpdateFresh ==
  ASSUME NEW q \in KP, NEW S, Fresh(q, S), NEW slot \in Slots
  PROVE  /\ keypair_update(q, slot) \in KP
         /\ Fresh(keypair_update(q, slot), S)
         /\ \A x : Named(x, keypair_update(q, slot), S) => Named(x, q, S)
<1> DEFINE r == keypair_update(q, slot)
<1>1. CASE slot = "next"
  <2>1. r["curr"] = q["next"] /\ r["prev"] = q["curr"] /\ r["next"] = None /\ r \in KP
    BY <1>1 DEF keypair_update, KP, Slots
  <2> QED BY <2>1 DEF Fresh, Named, Slots
<1>2. CASE slot # "next"
  BY <1>2 DEF keypair_update
<1> QED BY <1>1, <1>2

LEMMA ExpiredKept ==
  ASSUME NEW q \in KP
  PROVE  Expired(q) \in KP /\ Kept(Expired(q), q) /\ (PeerUp(Expired(q)) => PeerUp(q))
<1> DEFINE r == IF q["curr"] # None /\ q["curr"].age >= 3 * RejectAge
                THEN [s \in Slots |-> None] ELSE q
<1>1. r \in KP /\ Kept(r, q) /\ (PeerUp(r) => PeerUp(q))
  BY ConstTypes DEF KP, Kept, PeerUp, Slots, Keypair
<1>2. Expired(q) = r \/ Expired(q) = [r EXCEPT !["curr"] = None]
  BY DEF Expired
<1> QED BY <1>1, <1>2 DEF KP, Kept, PeerUp, Slots

LEMMA RecordType ==
  ASSUME NEW k \in Keypair, NEW n \in 0 .. MaxRx - 1, Acceptable(k, n)
  PROVE  Record(k, n) \in Keypair /\ Record(k, n).sid = k.sid /\ Record(k, n).tx = k.tx
<1>1. n + 1 \in 0..MaxRx /\ k.top \in 0..MaxRx /\ k.seen \subseteq 0 .. Window - 1 /\ 0 \in 0 .. Window - 1
  BY ConstTypes DEF Keypair
<1>2. CASE n + 1 > k.top
  <2> DEFINE new == {0} \cup {o + n + 1 - k.top : o \in {x \in k.seen : x + n + 1 - k.top < Window}}
  <2>1. new \subseteq 0 .. Window - 1
    BY <1>1, <1>2, ConstTypes
  <2>2. Record(k, n) = [k EXCEPT !.top = n + 1, !.seen = new]
    BY <1>2 DEF Record
  <2> QED BY <1>1, <2>1, <2>2 DEF Keypair
<1>3. CASE ~(n + 1 > k.top)
  <2>1. k.seen \cup {k.top - (n + 1)} \subseteq 0 .. Window - 1
    BY <1>1, <1>3, ConstTypes DEF Acceptable
  <2>2. Record(k, n) = [k EXCEPT !.seen = k.seen \cup {k.top - (n + 1)}]
    BY <1>3 DEF Record
  <2> QED BY <2>1, <2>2 DEF Keypair
<1> QED BY <1>2, <1>3

(***************************************************************************)
(* The inductive invariant.                                                *)
(***************************************************************************)
Nonces == [sid: Session, n: 0..RejectMsgs]

Control ==
  /\ hs \in Session \cup {None}
  /\ gts \in 0..MaxSession /\ count \in 0..MaxSession
  /\ \A m \in net : m.type = "data" => m.n \in 0 .. MaxRx - 1

Switches ==
  /\ active \in BOOLEAN /\ send_handshake \in BOOLEAN
  /\ link \in BOOLEAN /\ due \in BOOLEAN

Keys == kp \in KP /\ sent \subseteq Nonces /\ Fresh(kp, sent)

LEMMA NoncesNat == sent \subseteq Nonces => \A u \in sent : u.n \in Nat
  BY DEF Nonces

\* A step that names nothing new.
LEMMA NoNewName ==
  ASSUME Control, IdInv, \A x : Named(x, kp', sent') => Named(x, kp, sent),
         hs' = hs \/ hs' = None, UNCHANGED <<count, net, gts>>
  PROVE  IdInv'
<1>1. \A x \in Session : Named(x, kp', sent') =>
        x <= count' /\ (Request(x) \in net' => x <= gts') /\ x # hs'
  BY NoneAssumption DEF IdInv
<1> QED BY <1>1 DEF IdInv, Named, Request

LEMMA OutputKeys ==
  Keys /\ IdInv /\ Control /\ wireguardif_output => Keys' /\ IdInv' /\ Control'
<1> SUFFICES ASSUME Keys, IdInv, Control, wireguardif_output PROVE Keys' /\ IdInv' /\ Control'
  OBVIOUS
<1>1. kp' = Used(kp) /\ sent' = sent \cup Nonce(kp) /\ UNCHANGED <<hs, count, net, gts>>
  BY DEF wireguardif_output
<1>2. Keys' /\ \A x : Named(x, kp', sent') => Named(x, kp, sent)
  BY <1>1, UsedFresh, NoncesNat DEF Keys, Nonces
<1> QED BY <1>1, <1>2, NoNewName DEF Control

LEMMA TimerKeys ==
  ASSUME Keys, IdInv, Control,
         NEW quiet \in BOOLEAN, NEW free \in BOOLEAN, NEW mem \in BOOLEAN,
         wireguardif_tmr(quiet, free, mem)
  PROVE  Keys' /\ IdInv' /\ Control'
<1> DEFINE q == Expired(kp)
<1>1. q \in KP /\ Fresh(q, sent) /\ \A x : Named(x, q, sent) => Named(x, kp, sent)
  BY ExpiredKept, KeptFresh, NoncesNat DEF Keys
<1>2. \/ kp' = Used(q) /\ sent' = sent \cup Nonce(q)
      \/ kp' = q /\ sent' = sent
  BY DEF wireguardif_tmr
<1>3. Keys' /\ \A x : Named(x, kp', sent') => Named(x, kp, sent)
  BY <1>1, <1>2, UsedFresh, NoncesNat DEF Keys, Nonces
<1>4. UNCHANGED <<gts, net>>
  BY DEF wireguardif_tmr
<1>5. \/ count < MaxSession /\ count' = count + 1 /\ hs' = count + 1
      \/ count' = count /\ (hs' = hs \/ hs' = None)
  BY DEF wireguardif_tmr
<1>6. CASE count < MaxSession /\ count' = count + 1 /\ hs' = count + 1
  <2>1. count + 1 \in Session /\ count' \in 0..MaxSession
    BY <1>6, ConstTypes DEF Control, Session
  <2>2. Request(count + 1) \notin net
    BY <2>1 DEF IdInv, Control, Session
  <2>3. \A x \in Session : Named(x, kp', sent') => x <= count /\ (Request(x) \in net => x <= gts)
    BY <1>3 DEF IdInv
  <2>4. \A x \in Session : Named(x, kp', sent') =>
          x <= count' /\ (Request(x) \in net' => x <= gts') /\ x # hs'
    BY <1>4, <1>6, <2>3 DEF Control, Session
  <2>5. IdInv'
    <3>1. \A x \in Session : Request(x) \in net' => x <= count'
      BY <1>4, <1>6 DEF IdInv, Control, Session
    <3>2. hs' <= count' /\ Request(hs') \notin net'
      BY <1>4, <1>6, <2>1, <2>2 DEF Session
    <3> QED BY <2>4, <3>1, <3>2 DEF IdInv, Named, Request
  <2> QED BY <1>3, <1>4, <1>6, <2>1, <2>5 DEF Control
<1>7. CASE count' = count /\ (hs' = hs \/ hs' = None)
  BY <1>3, <1>4, <1>7, NoNewName DEF Control
<1> QED BY <1>5, <1>6, <1>7

LEMMA NewType ==
  ASSUME NEW s \in Session, NEW i \in BOOLEAN
  PROVE  NewKeypair(s, i) \in Keypair /\ NewKeypair(s, i).sid = s
  BY ConstTypes DEF NewKeypair, Keypair

LEMMA ResponseKeys ==
  ASSUME Keys, IdInv, Control, NEW s \in Session, NEW mem \in BOOLEAN,
         HandshakeResponse(s, mem)
  PROVE  Keys' /\ IdInv' /\ Control'
<1> DEFINE q == add_new_keypair(kp, NewKeypair(s, TRUE))
<1>1. ~Named(s, kp, sent) /\ s <= count /\ Request(s) \notin net
  BY NoneAssumption DEF HandshakeResponse, IdInv
<1>2. q \in KP /\ Fresh(q, sent) /\ \A x : Named(x, q, sent) => Named(x, kp, sent) \/ x = s
  BY <1>1, NewType, AddFresh DEF Keys
<1>3. \/ kp' = Used(q) /\ sent' = sent \cup Nonce(q)
      \/ kp' = q /\ sent' = sent
  BY DEF HandshakeResponse
<1>4. Keys' /\ \A x : Named(x, kp', sent') => Named(x, kp, sent) \/ x = s
  BY <1>2, <1>3, UsedFresh, NoncesNat DEF Keys, Nonces
<1>5. hs' = None /\ UNCHANGED <<count, net, gts>>
  BY DEF HandshakeResponse
<1>6. \A x \in Session : Named(x, kp', sent') =>
        x <= count' /\ (Request(x) \in net' => x <= gts') /\ x # hs'
  BY <1>1, <1>4, <1>5, NoneAssumption DEF IdInv
<1>7. IdInv'
  BY <1>5, <1>6 DEF IdInv, Named, Request
<1> QED BY <1>4, <1>5, <1>7 DEF Control

LEMMA InitiationKeys ==
  ASSUME Keys, IdInv, Control, NEW s \in Session, HandshakeInitiation(s)
  PROVE  Keys' /\ IdInv' /\ Control'
<1> DEFINE q == add_new_keypair(kp, NewKeypair(s, FALSE))
<1>1. Request(s) \in net /\ s > gts /\ gts' = s /\ hs' = None /\ kp' = q /\ sent' = sent
      /\ UNCHANGED <<count, net>>
  BY DEF HandshakeInitiation
<1>2. ~Named(s, kp, sent) /\ s <= count
  BY <1>1 DEF IdInv, Control, Session
<1>3. Keys' /\ \A x : Named(x, kp', sent') => Named(x, kp, sent) \/ x = s
  BY <1>1, <1>2, NewType, AddFresh DEF Keys
<1>4. \A x \in Session : Named(x, kp', sent') =>
        x <= count' /\ (Request(x) \in net' => x <= gts') /\ x # hs'
  <2> SUFFICES ASSUME NEW x \in Session, Named(x, kp', sent')
               PROVE  x <= count' /\ (Request(x) \in net' => x <= gts') /\ x # hs'
    OBVIOUS
  <2>1. x # hs'
    BY <1>1, NoneAssumption
  <2>2. CASE x = s
    BY <1>1, <1>2, <2>1, <2>2 DEF Session
  <2>3. CASE Named(x, kp, sent)
    <3>1. x <= count /\ (Request(x) \in net => x <= gts)
      BY <2>3 DEF IdInv
    <3>2. x \in Nat /\ s \in Nat /\ gts \in Nat
      BY DEF Session, Control
    <3> QED BY <1>1, <2>1, <3>1, <3>2
  <2> QED BY <1>3, <2>2, <2>3
<1>5. IdInv'
  BY <1>1, <1>4 DEF IdInv, Named, Request
<1> QED BY <1>1, <1>3, <1>5 DEF Control, Session

\* The slot a message is found in.
LEMMA FoundSlot ==
  ASSUME NEW x, get_peer_keypair_for_idx(x) # None
  PROVE  get_peer_keypair_for_idx(x) \in Slots /\ kp[get_peer_keypair_for_idx(x)] # None
  BY DEF get_peer_keypair_for_idx, Slots

LEMMA AcceptedKeys ==
  ASSUME Keys, IdInv, Control, NEW m, NEW up, Accepted(m, up)
  PROVE  Keys' /\ IdInv' /\ Control'
<1> DEFINE slot == get_peer_keypair_for_idx(m.sid)
           h == [kp[slot] EXCEPT !.heard = TRUE]
           g == [kp EXCEPT ![slot] = h]
           q == keypair_update(g, slot)
<1>1. slot \in Slots /\ kp[slot] # None /\ kp[slot] \in Keypair /\ m.n \in 0 .. MaxRx - 1
  BY FoundSlot DEF Accepted, Keys, KP, Control
<1>2. h \in Keypair /\ h.sid = kp[slot].sid /\ h.tx = kp[slot].tx /\ h.top = kp[slot].top
      /\ h.seen = kp[slot].seen
  BY <1>1 DEF Keypair
<1>3. g \in KP /\ Kept(g, kp)
  BY <1>1, <1>2, ConstTypes DEF Kept, KP, Keypair, Keys
<1>4. Fresh(g, sent) /\ \A x : Named(x, g, sent) => Named(x, kp, sent)
  BY <1>3, KeptFresh, NoncesNat DEF Keys
<1>5. q \in KP /\ Fresh(q, sent) /\ \A x : Named(x, q, sent) => Named(x, g, sent)
  BY <1>1, <1>3, <1>4, UpdateFresh
<1>6. \/ kp' = q
      \/ slot # "next" /\ Acceptable(kp[slot], m.n) /\ kp' = [q EXCEPT ![slot] = Record(@, m.n)]
  BY DEF Accepted
<1>7. CASE kp' = q
  <2>1. sent' = sent /\ UNCHANGED <<hs, count, net, gts>>
    BY DEF Accepted
  <2>2. \A x : Named(x, kp', sent') => Named(x, kp, sent)
    BY <1>4, <1>5, <1>7, <2>1
  <2>3. IdInv'
    BY <2>1, <2>2, NoNewName
  <2> QED BY <1>5, <1>7, <2>1, <2>3 DEF Keys, Control
<1>8. CASE slot # "next" /\ Acceptable(kp[slot], m.n) /\ kp' = [q EXCEPT ![slot] = Record(@, m.n)]
  <2>1. sent' = sent /\ UNCHANGED <<hs, count, net, gts>>
    BY DEF Accepted
  <2>2. q = g /\ q[slot] = h
    BY <1>1, <1>8 DEF keypair_update, Keys, KP
  <2>3. Acceptable(h, m.n)
    BY <1>2, <1>8 DEF Acceptable
  <2>4. Record(h, m.n) \in Keypair /\ Record(h, m.n).sid = h.sid /\ Record(h, m.n).tx = h.tx
    BY <1>1, <1>2, <2>3, RecordType
  <2>5. kp' = [g EXCEPT ![slot] = Record(h, m.n)]
    BY <1>8, <2>2
  <2>6. kp' \in KP /\ Kept(kp', g)
    BY <1>1, <1>2, <1>3, <2>2, <2>4, <2>5, NoneAssumption, ConstTypes DEF Kept, KP, Keypair
  <2>7. PICK r \in KP : r = kp'
    BY <2>6
  <2>8. Fresh(kp', sent) /\ \A x : Named(x, kp', sent) => Named(x, kp, sent)
    BY <1>3, <1>4, <2>6, <2>7, KeptFresh, NoncesNat DEF Keys
  <2>9. IdInv'
    BY <2>1, <2>8, NoNewName
  <2> QED BY <2>1, <2>6, <2>8, <2>9 DEF Keys, Control
<1> QED BY <1>6, <1>7, <1>8

\* A step that keeps the nonces, and the keypairs in their slots.
LEMMA KeptKeys ==
  ASSUME Keys, IdInv, Control, kp' \in KP, Kept(kp', kp), UNCHANGED <<sent, hs, count, net, gts>>
  PROVE  Keys' /\ IdInv' /\ Control'
<1>1. PICK r \in KP : r = kp'
  OBVIOUS
<1>2. Fresh(kp', sent) /\ \A x : Named(x, kp', sent) => Named(x, kp, sent)
  BY <1>1, KeptFresh, NoncesNat DEF Keys
<1>3. IdInv'
  BY <1>2, NoNewName
<1> QED BY <1>2, <1>3 DEF Keys, Control

LEMMA KeysNext ==
  Keys /\ IdInv /\ Control /\ [Next]_vars => Keys' /\ IdInv' /\ Control'
<1> SUFFICES ASSUME Keys, IdInv, Control, [Next]_vars PROVE Keys' /\ IdInv' /\ Control'
  OBVIOUS
<1> USE DEF peervars, history
<1>0. Kept(kp, kp)
  BY ConstTypes DEF Kept, Keys, KP, Keypair
<1>1. CASE UNCHANGED vars
  BY <1>0, <1>1, KeptKeys DEF vars, Keys
<1>2. CASE wireguardif_connect
  BY <1>0, <1>2, KeptKeys DEF wireguardif_connect, Keys
<1>3. CASE wireguardif_output
  BY <1>3, OutputKeys
<1>4. ASSUME NEW quiet \in BOOLEAN, NEW free \in BOOLEAN, NEW mem \in BOOLEAN,
             wireguardif_tmr(quiet, free, mem)
      PROVE  Keys' /\ IdInv' /\ Control'
  BY <1>4, TimerKeys
<1>5. ASSUME NEW s \in Session, NEW mem \in BOOLEAN, HandshakeResponse(s, mem)
      PROVE  Keys' /\ IdInv' /\ Control'
  BY <1>5, ResponseKeys
<1>6. ASSUME NEW s \in Session, HandshakeInitiation(s) PROVE Keys' /\ IdInv' /\ Control'
  BY <1>6, InitiationKeys
<1>7. ASSUME NEW m \in net, DataAccepted(m) PROVE Keys' /\ IdInv' /\ Control'
  BY <1>7, AcceptedKeys DEF DataAccepted
<1>8. ASSUME NEW m \in net, DataExpired(m) PROVE Keys' /\ IdInv' /\ Control'
  <2>1. kp' \in KP /\ Kept(kp', kp)
    BY <1>0, <1>8, FoundSlot DEF DataExpired, Keys, KP, Kept
  <2> QED BY <1>8, <2>1, KeptKeys DEF DataExpired
<1>9. CASE Tick
  <2>1. \A k \in Keypair \cup {None} :
          /\ Older(k) \in Keypair \cup {None}
          /\ Older(k) # None => k # None /\ Older(k).sid = k.sid /\ Older(k).tx = k.tx
    BY ConstTypes, NoneAssumption DEF Older, Keypair
  <2>2. kp' \in KP /\ Kept(kp', kp)
    BY <1>0, <1>9, <2>1 DEF Tick, Keys, KP, Kept
  <2> QED BY <1>9, <2>2, KeptKeys DEF Tick
<1>10. ASSUME NEW s \in Session, SrvRespond(s) PROVE Keys' /\ IdInv' /\ Control'
  <2>1. \A x \in Session : Request(x) \in net' <=> Request(x) \in net
    BY <1>10 DEF SrvRespond, Request, Resp
  <2>2. \A m \in net' : m.type = "data" => m \in net
    BY <1>10 DEF SrvRespond, Resp
  <2>3. Keys' /\ IdInv'
    BY <1>10, <2>1 DEF SrvRespond, Keys, IdInv, Control, Named, Request
  <2> QED BY <1>10, <2>2, <2>3 DEF SrvRespond, Control
<1>11. CASE SrvInitiate
  <2>1. count' = count + 1 /\ count < MaxSession /\ UNCHANGED <<kp, sent, hs, gts>>
    BY <1>11 DEF SrvInitiate
  <2>2. \A x : Request(x) \in net' => Request(x) \in net \/ x = count + 1
    BY <1>11 DEF SrvInitiate, Request
  <2>3. \A m \in net' : m.type = "data" => m \in net
    BY <1>11 DEF SrvInitiate, Request
  <2>4. \A x \in Session : Named(x, kp, sent) =>
          x <= count' /\ (Request(x) \in net' => x <= gts) /\ x # hs
    BY <2>1, <2>2 DEF IdInv, Control, Session
  <2>5. \A x \in Session : Request(x) \in net' => x <= count'
    BY <2>1, <2>2 DEF IdInv, Control, Session
  <2>6. hs # None => hs <= count' /\ Request(hs) \notin net'
    BY <2>1, <2>2 DEF IdInv, Control, Session
  <2>7. IdInv'
    BY <2>1, <2>4, <2>5, <2>6 DEF IdInv, Named, Request
  <2>8. count' \in 0..MaxSession
    BY <2>1, ConstTypes DEF Control
  <2> QED BY <2>1, <2>3, <2>7, <2>8 DEF Keys, Control
<1>12. ASSUME NEW s \in Session, NEW empty \in BOOLEAN, SrvSend(s, empty)
       PROVE  Keys' /\ IdInv' /\ Control'
  <2>1. PICK n \in 0 .. MaxRx - 1 : net' = net \cup {Data(s, n, empty)}
    BY <1>12 DEF SrvSend
  <2>2. Data(s, n, empty).type = "data" /\ Data(s, n, empty).n = n
    BY DEF Data
  <2>3. \A x \in Session : Request(x).type = "init"
    BY DEF Request
  <2>4. \A x \in Session : Request(x) \in net' <=> Request(x) \in net
    BY <2>1, <2>2, <2>3
  <2>5. UNCHANGED <<kp, sent, hs, count, gts>>
    BY <1>12 DEF SrvSend
  <2>6. Keys' /\ IdInv'
    BY <2>4, <2>5 DEF Keys, IdInv, Control, Named, Request
  <2> QED BY <2>1, <2>2, <2>5, <2>6 DEF Control
<1> QED BY <1>1, <1>2, <1>3, <1>4, <1>5, <1>6, <1>7, <1>8, <1>9, <1>10, <1>11, <1>12 DEF Next

\* A peer without a session gets one only in a step that sets the link.
LEMMA UsedUp ==
  ASSUME NEW q \in KP, PeerUp(Used(q)) PROVE PeerUp(q)
<1>1. \A s \in Slots : q[s] = None => Used(q)[s] = None
  BY SlotType DEF Used, CanSend, Confirmed, KP
<1> QED BY <1>1 DEF PeerUp, Slots

LEMMA LinkNext ==
  Keys /\ LinkFollowsKeys /\ [Next]_vars => LinkFollowsKeys'
<1> SUFFICES ASSUME Keys, LinkFollowsKeys, [Next]_vars, PeerUp(kp') PROVE link'
  BY DEF LinkFollowsKeys, PeerUp
<1> USE DEF peervars, history, LinkFollowsKeys
<1>1. CASE UNCHANGED <<kp, link>>
  BY <1>1
<1>2. CASE wireguardif_output
  BY <1>2, UsedUp DEF wireguardif_output, Keys
<1>3. ASSUME NEW quiet \in BOOLEAN, NEW free \in BOOLEAN, NEW mem \in BOOLEAN,
             wireguardif_tmr(quiet, free, mem)
      PROVE  link'
  <2> DEFINE q == Expired(kp)
  <2>1. kp' = Used(q) \/ kp' = q
    BY <1>3 DEF wireguardif_tmr
  <2>2. q \in KP /\ (PeerUp(q) => PeerUp(kp))
    BY ExpiredKept DEF Keys
  <2>3. PeerUp(kp)
    BY <2>1, <2>2, UsedUp
  <2>4. link' = (link /\ PeerUp(kp'))
    BY <1>3 DEF wireguardif_tmr
  <2> QED BY <2>3, <2>4
<1>4. ASSUME NEW s \in Session, NEW mem \in BOOLEAN, HandshakeResponse(s, mem) PROVE link'
  BY <1>4 DEF HandshakeResponse
<1>5. ASSUME NEW s \in Session, HandshakeInitiation(s) PROVE link'
  <2> DEFINE k == NewKeypair(s, FALSE)
  <2>1. ~k.initiator
    BY DEF NewKeypair
  <2>2. kp' = [kp EXCEPT !["next"] = k, !["prev"] = None]
    BY <1>5, <2>1 DEF HandshakeInitiation, add_new_keypair
  <2>3. kp'["curr"] = kp["curr"] /\ kp'["prev"] = None
    BY <2>2 DEF Keys, KP, Slots
  <2> QED BY <1>5, <2>3 DEF HandshakeInitiation, PeerUp
<1>6. ASSUME NEW m \in net, DataAccepted(m) PROVE link'
  BY <1>6 DEF DataAccepted, Accepted
<1>7. ASSUME NEW m \in net, DataExpired(m) PROVE link'
  BY <1>7, FoundSlot DEF DataExpired, PeerUp, Keys, KP, Slots
<1>8. CASE Tick
  BY <1>8 DEF Tick, Older, PeerUp, Slots
<1>9. CASE wireguardif_connect BY <1>1, <1>9 DEF wireguardif_connect
<1>10. ASSUME NEW s \in Session, SrvRespond(s) PROVE link' BY <1>1, <1>10 DEF SrvRespond
<1>11. CASE SrvInitiate BY <1>1, <1>11 DEF SrvInitiate
<1>12. ASSUME NEW s \in Session, NEW empty \in BOOLEAN, SrvSend(s, empty) PROVE link'
  BY <1>1, <1>12 DEF SrvSend
<1>13. CASE UNCHANGED vars BY <1>1, <1>13 DEF vars
<1> QED BY <1>2, <1>3, <1>4, <1>5, <1>6, <1>7, <1>8, <1>9, <1>10, <1>11, <1>12, <1>13 DEF Next

LEMMA SwitchesNext == Switches /\ [Next]_vars => Switches'
<1> SUFFICES ASSUME Switches, [Next]_vars PROVE Switches'
  OBVIOUS
<1> USE DEF peervars, history, Switches
<1>1. CASE wireguardif_output
  <2>1. send_handshake' \in BOOLEAN BY <1>1, Zenon DEF wireguardif_output
  <2> QED BY <1>1, <2>1 DEF wireguardif_output
<1>2. ASSUME NEW quiet \in BOOLEAN, NEW free \in BOOLEAN, NEW mem \in BOOLEAN,
             wireguardif_tmr(quiet, free, mem)
      PROVE  Switches'
  <2>1. send_handshake' \in BOOLEAN /\ link' \in BOOLEAN /\ due' \in BOOLEAN
    BY <1>2, Zenon DEF wireguardif_tmr
  <2> QED BY <1>2, <2>1 DEF wireguardif_tmr
<1>3. ASSUME NEW s \in Session, NEW mem \in BOOLEAN, HandshakeResponse(s, mem) PROVE Switches'
  <2>1. send_handshake' \in BOOLEAN /\ link' \in BOOLEAN
    BY <1>3, Zenon DEF HandshakeResponse
  <2> QED BY <1>3, <2>1 DEF HandshakeResponse
<1>4. ASSUME NEW s \in Session, HandshakeInitiation(s) PROVE Switches'
  BY <1>4 DEF HandshakeInitiation
<1>5. ASSUME NEW m \in net, DataAccepted(m) PROVE Switches'
  <2>1. send_handshake' \in BOOLEAN /\ link' \in BOOLEAN
    BY <1>5, Zenon DEF DataAccepted, Accepted
  <2> QED BY <1>5, <2>1 DEF DataAccepted, Accepted
<1>6. ASSUME NEW m \in net, DataExpired(m) PROVE Switches'
  BY <1>6 DEF DataExpired
<1>7. CASE Tick
  <2>1. due' \in BOOLEAN BY <1>7, Zenon DEF Tick
  <2> QED BY <1>7, <2>1 DEF Tick
<1>8. CASE wireguardif_connect
  <2>1. active' \in BOOLEAN BY <1>8, Zenon DEF wireguardif_connect
  <2> QED BY <1>8, <2>1 DEF wireguardif_connect
<1>9. ASSUME NEW s \in Session, SrvRespond(s) PROVE Switches' BY <1>9 DEF SrvRespond
<1>10. CASE SrvInitiate BY <1>10 DEF SrvInitiate
<1>11. ASSUME NEW s \in Session, NEW empty \in BOOLEAN, SrvSend(s, empty) PROVE Switches'
  BY <1>11 DEF SrvSend
<1>12. CASE UNCHANGED vars BY <1>12 DEF vars
<1> QED BY <1>1, <1>2, <1>3, <1>4, <1>5, <1>6, <1>7, <1>8, <1>9, <1>10, <1>11, <1>12 DEF Next

LEMMA KeysInit == Init => Keys /\ IdInv /\ Control /\ Switches /\ LinkFollowsKeys
<1> SUFFICES ASSUME Init PROVE Keys /\ IdInv /\ Control /\ Switches /\ LinkFollowsKeys
  OBVIOUS
<1>1. Keys
  BY DEF Init, Keys, KP, Fresh
<1>2. IdInv
  BY DEF Init, IdInv, Named
<1>3. Control
  BY ConstTypes DEF Init, Control
<1>4. Switches
  BY Zenon DEF Init, Switches
<1>5. LinkFollowsKeys
  BY DEF Init, LinkFollowsKeys, PeerUp, Slots
<1> QED BY <1>1, <1>2, <1>3, <1>4, <1>5

\* The peer's keypairs, counters and flags keep their types: in particular no
\* keypair ever counts past REJECT_AFTER_MESSAGES.
THEOREM TypeCorrect == Spec => []TypeOK
<1>1. Keys /\ Control /\ Switches => TypeOK
  BY DEF Keys, KP, Control, Switches, TypeOK, Nonces
<1> QED BY <1>1, KeysInit, KeysNext, SwitchesNext, PTL DEF Spec

\* wireguard_encrypt_packet never meets a (key, counter) pair again, whatever
\* the network does with handshakes and however the three slots rotate.
THEOREM NonceSafe == Spec => []NonceFresh
<1>1. Keys => NonceFresh
  BY DEF Keys, Fresh, NonceFresh
<1> QED BY <1>1, KeysInit, KeysNext, PTL DEF Spec

\* A peer that wireguardif_peer_is_up reports has its interface's link up.
THEOREM LinkSafe == Spec => []LinkFollowsKeys
  BY KeysInit, KeysNext, LinkNext, PTL DEF Spec

-----------------------------------------------------------------------------
(***************************************************************************)
(* Confirmation and replay.  Both are about what a keypair remembers, so   *)
(* they go through one statement of it, Good, which moves with the keypair *)
(* from slot to slot and survives everything but the two steps that write  *)
(* what it speaks of: a message heard, a session begun.                    *)
(***************************************************************************)

\* The server has shown it has the keys of session x, by the messages of N.
Shown(x, N) == Resp(x) \in N \/ \E m \in N : m.type = "data" /\ m.sid = x

\* Keypair k is confirmed only with reason, is the server's only if this side
\* answered, and otherwise has every message of D it delivered in its window.
Windowed(k, D) ==
  \A id \in D : id.sid = k.sid =>
    id.n + 1 <= k.top /\ (k.top - (id.n + 1) < Window => k.top - (id.n + 1) \in k.seen)

Good(k, N, A, D) ==
  /\ k.initiator \/ k.heard => Shown(k.sid, N)
  /\ ~k.initiator => k.sid \in A
  /\ k.initiator => Windowed(k, D)

AllGood(q, N, A, D) == \A s \in Slots : q[s] # None => Good(q[s], N, A, D)

\* Only a session the server began waits in the next slot.
NextTheirs(q) == q["next"] # None => ~q["next"].initiator

\* What was delivered belongs to a session that is no pending handshake.
DelInv ==
  \A id \in delivered :
    id.sid \in Session /\ id.n \in Nat /\ id.sid <= count /\ id.sid # hs

RxInv ==
  /\ AllGood(kp, net, answered, delivered) /\ NextTheirs(kp) /\ DelInv
  /\ SendsConfirmed /\ InitiatorOnce

\* k is j as far as Good goes.
Same(k, j) ==
  /\ k.sid = j.sid /\ k.initiator = j.initiator /\ k.heard = j.heard
  /\ k.top = j.top /\ k.seen = j.seen

\* The keypairs of r are keypairs of q, perhaps elsewhere.
From(r, q) ==
  \A s \in Slots : r[s] # None => \E t \in Slots : q[t] # None /\ Same(r[s], q[t])

LEMMA GoodFrom ==
  ASSUME NEW q, NEW r, From(r, q), NEW N, NEW N2, NEW A, NEW A2, NEW D,
         AllGood(q, N, A, D), N \subseteq N2, A \subseteq A2
  PROVE  AllGood(r, N2, A2, D)
<1>1. \A x : Shown(x, N) => Shown(x, N2)
  BY DEF Shown
<1> SUFFICES ASSUME NEW s \in Slots, r[s] # None PROVE Good(r[s], N2, A2, D)
  BY DEF AllGood
<1>2. PICK t \in Slots : q[t] # None /\ Same(r[s], q[t])
  BY DEF From
<1>3. Good(q[t], N, A, D)
  BY <1>2 DEF AllGood
<1> QED BY <1>1, <1>2, <1>3 DEF Good, Same, Windowed

LEMMA UsedFrom ==
  ASSUME NEW q \in KP
  PROVE  /\ From(Used(q), q) /\ (NextTheirs(q) => NextTheirs(Used(q)))
         /\ \A N, A, D : AllGood(q, N, A, D) => \A u \in Nonce(q) : Shown(u.sid, N)
<1> DEFINE s == SendSlot(q)
<1> s \in Slots /\ s # "next"
  BY SlotType DEF SendSlot
<1>1. CASE CanSend(q)
  <2>1. q[s] # None /\ q[s] \in Keypair /\ (q[s].initiator \/ q[s].heard)
    BY <1>1 DEF CanSend, Confirmed, KP
  <2>2. Used(q) = [q EXCEPT ![s] = [q[s] EXCEPT !.tx = @ + 1]]
    BY <1>1 DEF Used
  <2>3. Same([q[s] EXCEPT !.tx = @ + 1], q[s])
    BY <2>1 DEF Same, Keypair
  <2>4. Used(q)[s] = [q[s] EXCEPT !.tx = @ + 1] /\ \A t \in Slots : t # s => Used(q)[t] = q[t]
    BY <2>2 DEF KP
  <2>5. From(Used(q), q)
    BY <2>1, <2>3, <2>4 DEF From, Same
  <2>6. Nonce(q) = {[sid |-> q[s].sid, n |-> q[s].tx]}
    BY <1>1 DEF Nonce
  <2> QED BY <2>1, <2>4, <2>5, <2>6 DEF NextTheirs, Slots, AllGood, Good
<1>2. CASE ~CanSend(q)
  <2>1. Nonce(q) = {}
    BY <1>2 DEF Nonce
  <2>2. Used(q) = q \/ Used(q) = [q EXCEPT ![s] = None]
    BY <1>2 DEF Used
  <2>3. \A t \in Slots : Used(q)[t] = q[t] \/ Used(q)[t] = None
    BY <2>2 DEF KP
  <2> QED BY <2>1, <2>3 DEF From, Same, NextTheirs, Slots
<1> QED BY <1>1, <1>2

LEMMA ExpiredFrom ==
  ASSUME NEW q \in KP
  PROVE  From(Expired(q), q) /\ (NextTheirs(q) => NextTheirs(Expired(q)))
<1> DEFINE r == IF q["curr"] # None /\ q["curr"].age >= 3 * RejectAge
                THEN [s \in Slots |-> None] ELSE q
<1>1. r \in KP /\ \A t \in Slots : r[t] = q[t] \/ r[t] = None
  BY DEF KP
<1>2. Expired(q) = r \/ Expired(q) = [r EXCEPT !["curr"] = None]
  BY DEF Expired
<1>3. \A t \in Slots : Expired(q)[t] = q[t] \/ Expired(q)[t] = None
  BY <1>1, <1>2 DEF KP
<1> QED BY <1>3 DEF From, Same, NextTheirs, Slots

\* A step that leaves the histories alone and only moves or drops keypairs.
LEMMA MovedRx ==
  ASSUME RxInv, From(kp', kp), NextTheirs(kp'), hs' = hs \/ hs' = None,
         UNCHANGED <<count, net, sent, answered, delivered, twice>>
  PROVE  RxInv'
<1>1. PICK r : r = kp'
  OBVIOUS
<1>2. AllGood(r, net, answered, delivered)
  BY <1>1, GoodFrom DEF RxInv
<1>3. DelInv'
  BY NoneAssumption DEF RxInv, DelInv
<1>4. SendsConfirmed' /\ InitiatorOnce'
  BY DEF RxInv, SendsConfirmed, InitiatorOnce, Resp
<1> QED BY <1>1, <1>2, <1>3, <1>4 DEF RxInv, AllGood, Good, Shown, Windowed, NextTheirs, Resp

\* A step that may also send, on keypairs q.
LEMMA SentRx ==
  ASSUME RxInv, NEW q \in KP, AllGood(q, net, answered, delivered), NextTheirs(q),
         \/ kp' = Used(q) /\ sent' = sent \cup Nonce(q)
         \/ kp' = q /\ sent' = sent,
         DelInv', UNCHANGED <<net, answered, delivered, twice>>
  PROVE  RxInv'
<1>1. PICK r : r = kp'
  OBVIOUS
<1>2. AllGood(r, net, answered, delivered) /\ NextTheirs(r)
  BY <1>1, GoodFrom, UsedFrom
<1>3. \A u \in Nonce(q) : Shown(u.sid, net)
  BY UsedFrom
<1>4. \A u \in sent' : Shown(u.sid, net)
  BY <1>3 DEF RxInv, SendsConfirmed, Shown
<1>5. SendsConfirmed'
  BY <1>4 DEF SendsConfirmed, Shown, Resp
<1> QED BY <1>1, <1>2, <1>5 DEF RxInv, AllGood, Good, Shown, Windowed, NextTheirs, Resp,
                                  InitiatorOnce

LEMMA TimerRx ==
  ASSUME Keys, Control, RxInv,
         NEW quiet \in BOOLEAN, NEW free \in BOOLEAN, NEW mem \in BOOLEAN,
         wireguardif_tmr(quiet, free, mem)
  PROVE  RxInv'
<1> DEFINE q == Expired(kp)
<1>1. q \in KP /\ From(q, kp) /\ NextTheirs(q)
  BY ExpiredKept, ExpiredFrom DEF Keys, RxInv
<1>2. AllGood(q, net, answered, delivered)
  BY <1>1, GoodFrom DEF RxInv
<1>3. \/ kp' = Used(q) /\ sent' = sent \cup Nonce(q)
      \/ kp' = q /\ sent' = sent
  BY DEF wireguardif_tmr
<1>4. UNCHANGED <<net, answered, delivered, twice>>
  BY DEF wireguardif_tmr
<1>5. \/ count' = count + 1 /\ hs' = count + 1
      \/ count' = count /\ (hs' = hs \/ hs' = None)
  BY DEF wireguardif_tmr
<1>6. DelInv'
  BY <1>4, <1>5, NoneAssumption DEF RxInv, DelInv, Control, Session
<1> HIDE DEF q
<1> QED BY <1>1, <1>2, <1>3, <1>4, <1>6, SentRx

\* A new session of this side: nothing was delivered under its name.
LEMMA ResponseRx ==
  ASSUME Keys, Control, RxInv, NEW s \in Session, NEW mem \in BOOLEAN,
         IdInv, HandshakeResponse(s, mem)
  PROVE  RxInv'
<1> DEFINE k == NewKeypair(s, TRUE)
           q == add_new_keypair(kp, k)
<1>1. k \in Keypair /\ k.sid = s /\ k.initiator /\ ~Named(s, kp, sent)
  BY NewType, NoneAssumption DEF HandshakeResponse, IdInv, NewKeypair
<1>2. Good(k, net, answered, delivered)
  BY <1>1 DEF HandshakeResponse, Good, Shown, Windowed, RxInv, DelInv
<1> HIDE DEF k
<1>3. q["curr"] = k /\ q["next"] = None /\ (q["prev"] = kp["next"] \/ q["prev"] = kp["curr"])
      /\ q \in KP
  BY <1>1 DEF add_new_keypair, Keys, KP, Slots
<1>4. AllGood(q, net, answered, delivered) /\ NextTheirs(q)
  BY <1>2, <1>3 DEF AllGood, NextTheirs, Slots, RxInv
<1>5. \/ kp' = Used(q) /\ sent' = sent \cup Nonce(q)
      \/ kp' = q /\ sent' = sent
  BY DEF HandshakeResponse, k
<1>6. UNCHANGED <<net, answered, delivered, twice, count>> /\ hs' = None
  BY DEF HandshakeResponse
<1>7. DelInv'
  BY <1>6, NoneAssumption DEF RxInv, DelInv
<1> HIDE DEF q
<1> QED BY <1>3, <1>4, <1>5, <1>6, <1>7, SentRx

\* A new session of the server's, answered and not yet heard.
LEMMA InitiationRx ==
  ASSUME Keys, Control, RxInv, NEW s \in Session, HandshakeInitiation(s)
  PROVE  RxInv'
<1> DEFINE k == NewKeypair(s, FALSE)
           q == add_new_keypair(kp, k)
<1>1. k \in Keypair /\ k.sid = s /\ k.initiator = FALSE /\ k.heard = FALSE
  BY NewType DEF NewKeypair
<1>2. answered' = answered \cup {s} /\ UNCHANGED <<net, delivered, twice, count, sent>> /\ hs' = None
  BY DEF HandshakeInitiation
<1>3. kp' = q
  BY DEF HandshakeInitiation
<1> HIDE DEF k
<1>4. q["next"] = k /\ q["prev"] = None /\ q["curr"] = kp["curr"]
  BY <1>1 DEF add_new_keypair, Keys, KP, Slots
<1>5. PICK A : A = answered'
  OBVIOUS
<1>6. Good(k, net, A, delivered)
  BY <1>1, <1>2, <1>5 DEF Good
<1>7. kp["curr"] # None => Good(kp["curr"], net, A, delivered)
  BY <1>2, <1>5 DEF RxInv, AllGood, Good, Slots
<1>8. AllGood(q, net, A, delivered) /\ NextTheirs(q)
  BY <1>1, <1>4, <1>6, <1>7 DEF AllGood, NextTheirs, Slots
<1>9. DelInv'
  BY <1>2, NoneAssumption DEF RxInv, DelInv
<1>10. SendsConfirmed' /\ InitiatorOnce'
  BY <1>2 DEF RxInv, SendsConfirmed, InitiatorOnce, Resp
<1> HIDE DEF q
<1> QED BY <1>2, <1>3, <1>5, <1>8, <1>9, <1>10
         DEF RxInv, AllGood, Good, Shown, Windowed, NextTheirs, Resp

\* A message the window accepts was not delivered before, and then is in it.
LEMMA RecordWindow ==
  ASSUME NEW k \in Keypair, NEW n \in 0 .. MaxRx - 1, Acceptable(k, n), NEW D,
         Windowed(k, D), \A id \in D : id.n \in Nat
  PROVE  /\ Windowed(Record(k, n), D \cup {[sid |-> k.sid, n |-> n]})
         /\ \A id \in D : id.sid = k.sid => id.n # n
<1>1. n \in Nat /\ k.top \in Nat /\ Window \in Nat \ {0} /\ k.seen \subseteq Nat
  BY ConstTypes DEF Keypair
<1>2. \A id \in D : id.sid = k.sid => id.n # n
  BY <1>1 DEF Acceptable, Windowed
<1>3. CASE n + 1 > k.top
  <2> DEFINE new == {0} \cup {o + n + 1 - k.top : o \in {x \in k.seen : x + n + 1 - k.top < Window}}
             r == Record(k, n)
  <2>1. r.sid = k.sid /\ r.top = n + 1 /\ r.seen = new
    BY <1>3 DEF Record, Keypair
  <2>2. ASSUME NEW id \in D, id.sid = k.sid
        PROVE  id.n + 1 <= n + 1 /\ (n + 1 - (id.n + 1) < Window => n + 1 - (id.n + 1) \in new)
    <3>1. id.n \in Nat /\ id.n + 1 <= k.top
          /\ (k.top - (id.n + 1) < Window => k.top - (id.n + 1) \in k.seen)
      BY <2>2 DEF Windowed
    <3>2. ASSUME n + 1 - (id.n + 1) < Window PROVE n + 1 - (id.n + 1) \in new
      <4> DEFINE o == k.top - (id.n + 1)
      <4>1. o \in k.seen /\ o + n + 1 - k.top = n + 1 - (id.n + 1) /\ o + n + 1 - k.top < Window
        BY <1>1, <1>3, <3>1, <3>2
      <4> HIDE DEF o
      <4> QED BY <4>1
    <3> QED BY <1>1, <1>3, <3>1, <3>2
  <2>3. n + 1 - (n + 1) = 0 /\ 0 \in new
    BY <1>1
  <2> HIDE DEF new, r
  <2>4. \A id \in D \cup {[sid |-> k.sid, n |-> n]} : id.sid = r.sid =>
          id.n + 1 <= r.top /\ (r.top - (id.n + 1) < Window => r.top - (id.n + 1) \in r.seen)
    BY <1>1, <2>1, <2>2, <2>3
  <2> QED BY <1>2, <2>4 DEF Windowed, r
<1>4. CASE ~(n + 1 > k.top)
  <2> DEFINE r == Record(k, n)
  <2>1. r.sid = k.sid /\ r.top = k.top /\ r.seen = k.seen \cup {k.top - (n + 1)}
    BY <1>4 DEF Record, Keypair
  <2> HIDE DEF r
  <2>2. \A id \in D \cup {[sid |-> k.sid, n |-> n]} : id.sid = r.sid =>
          id.n + 1 <= r.top /\ (r.top - (id.n + 1) < Window => r.top - (id.n + 1) \in r.seen)
    BY <1>1, <1>4, <2>1 DEF Windowed
  <2> QED BY <1>2, <2>2 DEF Windowed, r
<1> QED BY <1>3, <1>4

\* Recording changes nothing else that Good speaks of.
LEMMA RecordKeeps ==
  ASSUME NEW k \in Keypair, NEW n
  PROVE  Record(k, n).sid = k.sid /\ Record(k, n).initiator = k.initiator
         /\ Record(k, n).heard = k.heard
BY DEF Record, Keypair

\* A data message: heard, perhaps promoting its keypair, delivered if new.
LEMMA AcceptedRx ==
  ASSUME Keys, Control, IdInv, RxInv, NEW m, NEW up, Accepted(m, up)
  PROVE  RxInv'
<1> DEFINE slot == get_peer_keypair_for_idx(m.sid)
           id == [sid |-> m.sid, n |-> m.n]
           k == kp[slot]
           h == [k EXCEPT !.heard = TRUE]
           g == [kp EXCEPT ![slot] = h]
           q == keypair_update(g, slot)
           moved == slot = "next"
           fresh == ~m.empty /\ (moved \/ Acceptable(k, m.n))
<1>1. m \in net /\ m.type = "data" /\ slot \in Slots /\ k # None /\ k \in Keypair
      /\ m.n \in 0 .. MaxRx - 1 /\ m.n \in Nat
  BY FoundSlot DEF Accepted, Keys, KP, Control
<1>2. k.sid = m.sid /\ k.sid \in Session
  BY <1>1 DEF get_peer_keypair_for_idx, Accepted, Keypair
<1>3. kp' = (IF fresh /\ ~moved THEN [q EXCEPT ![slot] = Record(@, m.n)] ELSE q)
      /\ delivered' = (IF fresh THEN delivered \cup {id} ELSE delivered)
      /\ twice' = (IF fresh /\ id \in delivered THEN twice \cup {id} ELSE twice)
      /\ UNCHANGED <<hs, count, net, sent, answered>>
  BY DEF Accepted
<1>4. h \in Keypair /\ h.sid = m.sid /\ h.initiator = k.initiator /\ h.heard = TRUE
      /\ h.top = k.top /\ h.seen = k.seen /\ h # None
  BY <1>1, <1>2, NoneAssumption DEF Keypair
<1>5. Shown(m.sid, net)
  BY <1>1 DEF Shown
<1>6. Good(k, net, answered, delivered)
  BY <1>1 DEF RxInv, AllGood
<1>7. Good(h, net, answered, delivered)
  BY <1>2, <1>4, <1>5, <1>6 DEF Good, Windowed
<1>8. g[slot] = h /\ \A t \in Slots : t # slot => g[t] = kp[t]
  BY <1>1 DEF Keys, KP
\* Other keypairs do not care about this message.
<1>9. ASSUME NEW t \in Slots, t # slot, kp[t] # None
      PROVE  Good(kp[t], net, answered, delivered \cup {id})
  <2>1. Good(kp[t], net, answered, delivered)
    BY <1>9 DEF RxInv, AllGood
  <2>2. kp[t].sid # m.sid
    BY <1>1, <1>2, <1>9 DEF Keys, Fresh
  <2> QED BY <2>1, <2>2 DEF Good, Windowed
<1>10. PICK D : D = delivered'
  OBVIOUS
<1>11. D \in {delivered, delivered \cup {id}}
  BY <1>3, <1>10
<1>12. \A t \in Slots : t # slot /\ kp[t] # None => Good(kp[t], net, answered, D)
  BY <1>9, <1>11 DEF RxInv, AllGood
<1>13. \A d \in delivered : d.n \in Nat
  BY DEF RxInv, DelInv
<1>14. DelInv'
  <2>1. m.sid <= count /\ m.sid # hs
    BY <1>1, <1>2 DEF IdInv, Named
  <2> QED BY <1>1, <1>2, <1>3, <2>1 DEF RxInv, DelInv
<1>15. k.initiator => slot # "next"
  BY <1>1 DEF RxInv, NextTheirs
<1>16. PICK r : r = kp'
  OBVIOUS
<1> HIDE DEF h, g, k, id
<1>17. AllGood(r, net, answered, D) /\ NextTheirs(r)
  <2>1. CASE moved
    <3>1. r["prev"] = kp["curr"] /\ r["curr"] = h /\ r["next"] = None
      BY <1>3, <1>8, <1>16, <2>1 DEF keypair_update, Keys, KP, Slots, g
    <3>2. Good(h, net, answered, D)
      BY <1>4, <1>7, <1>15, <2>1 DEF Good
    <3>3. kp["curr"] # None => Good(kp["curr"], net, answered, D)
      BY <1>12, <2>1 DEF Slots
    <3> QED BY <3>1, <3>2, <3>3 DEF AllGood, NextTheirs, Slots
  <2>2. CASE ~moved /\ ~fresh
    <3>1. r = g /\ D = delivered
      BY <1>3, <1>10, <1>16, <2>2 DEF keypair_update
    <3> QED BY <1>7, <1>8, <1>12, <2>2, <3>1 DEF AllGood, NextTheirs, Slots, RxInv
  <2>3. CASE ~moved /\ fresh
    <3>1. r = [g EXCEPT ![slot] = Record(h, m.n)] /\ D = delivered \cup {id}
      BY <1>3, <1>8, <1>10, <1>16, <2>3 DEF keypair_update
    <3>2. r[slot] = Record(h, m.n) /\ \A t \in Slots : t # slot => r[t] = kp[t]
      BY <1>1, <1>8, <3>1 DEF g, Keys, KP
    <3>3. Acceptable(h, m.n)
      BY <1>4, <2>3 DEF Acceptable
    <3>4. Good(Record(h, m.n), net, answered, D)
      <4>1. Record(h, m.n).sid = h.sid /\ Record(h, m.n).initiator = h.initiator
            /\ Record(h, m.n).heard = h.heard
        BY <1>4, RecordKeeps
      <4>2. h.initiator => Windowed(Record(h, m.n), D)
        BY <1>1, <1>4, <1>7, <1>13, <3>1, <3>3, RecordWindow DEF Good, id
      <4> QED BY <1>7, <4>1, <4>2 DEF Good
    <3> QED BY <1>12, <2>3, <3>2, <3>4 DEF AllGood, NextTheirs, Slots, RxInv
  <2> QED BY <2>1, <2>2, <2>3
<1>18. InitiatorOnce'
  <2>1. CASE fresh /\ id \in delivered
    <3>1. ~k.initiator
      <4> SUFFICES ASSUME k.initiator PROVE FALSE
        OBVIOUS
      <4>1. Acceptable(k, m.n)
        BY <1>15, <2>1
      <4>2. Windowed(k, delivered) /\ k \in Keypair
        BY <1>1, <1>6 DEF Good
      <4>3. id.sid = k.sid /\ id.n = m.n
        BY <1>2 DEF id
      <4> QED BY <1>1, <1>13, <2>1, <4>1, <4>2, <4>3, RecordWindow
    <3>2. id.sid \in answered
      BY <1>2, <1>6, <3>1 DEF Good, id
    <3> QED BY <1>3, <2>1, <3>2 DEF RxInv, InitiatorOnce
  <2>2. CASE ~(fresh /\ id \in delivered)
    BY <1>3, <2>2 DEF RxInv, InitiatorOnce
  <2> QED BY <2>1, <2>2
<1>19. SendsConfirmed'
  BY <1>3 DEF RxInv, SendsConfirmed, Resp
<1> QED BY <1>3, <1>10, <1>14, <1>16, <1>17, <1>18, <1>19
         DEF RxInv, AllGood, Good, Shown, Windowed, NextTheirs, Resp

\* A server's step: the network only ever gains messages.
LEMMA ServerRx ==
  ASSUME RxInv, Control, net \subseteq net', UNCHANGED <<peervars, sent, answered, delivered, twice>>,
         count' \in Nat, count <= count'
  PROVE  RxInv'
<1>1. PICK N : N = net'
  OBVIOUS
<1>2. From(kp, kp)
  BY DEF From, Same
<1>3. AllGood(kp, N, answered, delivered)
  BY <1>1, <1>2, GoodFrom DEF RxInv
<1>4. kp' = kp /\ hs' = hs
  BY DEF peervars
<1>5. DelInv'
  BY <1>4 DEF RxInv, DelInv, Session, Control
<1>6. SendsConfirmed' /\ InitiatorOnce'
  BY DEF RxInv, SendsConfirmed, InitiatorOnce, Resp
<1> QED BY <1>1, <1>3, <1>4, <1>5, <1>6 DEF RxInv, AllGood, Good, Shown, Windowed, NextTheirs, Resp

LEMMA RxNext == Keys /\ Control /\ IdInv /\ RxInv /\ [Next]_vars => RxInv'
<1> SUFFICES ASSUME Keys, Control, IdInv, RxInv, [Next]_vars PROVE RxInv'
  OBVIOUS
<1>0. From(kp, kp) /\ NextTheirs(kp) /\ AllGood(kp, net, answered, delivered) /\ count \in Nat
  BY DEF From, Same, RxInv, Control
<1>1. CASE UNCHANGED vars
  BY <1>0, <1>1, MovedRx DEF vars, peervars, history
<1>2. CASE wireguardif_connect
  BY <1>0, <1>2, MovedRx DEF wireguardif_connect, history
<1>3. CASE wireguardif_output
  <2>1. kp' = Used(kp) /\ sent' = sent \cup Nonce(kp)
        /\ UNCHANGED <<hs, count, net, answered, delivered, twice>>
    BY <1>3 DEF wireguardif_output
  <2>2. DelInv'
    BY <2>1 DEF RxInv, DelInv
  <2> QED BY <1>0, <2>1, <2>2, SentRx DEF Keys
<1>4. ASSUME NEW quiet \in BOOLEAN, NEW free \in BOOLEAN, NEW mem \in BOOLEAN,
             wireguardif_tmr(quiet, free, mem)
      PROVE  RxInv'
  BY <1>4, TimerRx
<1>5. ASSUME NEW s \in Session, NEW mem \in BOOLEAN, HandshakeResponse(s, mem) PROVE RxInv'
  BY <1>5, ResponseRx
<1>6. ASSUME NEW s \in Session, HandshakeInitiation(s) PROVE RxInv'
  BY <1>6, InitiationRx
<1>7. ASSUME NEW m \in net, DataAccepted(m) PROVE RxInv'
  BY <1>7, AcceptedRx DEF DataAccepted
<1>8. ASSUME NEW m \in net, DataExpired(m) PROVE RxInv'
  <2>1. \A t \in Slots : kp'[t] = kp[t] \/ kp'[t] = None
    BY <1>8 DEF DataExpired, Keys, KP
  <2>2. From(kp', kp) /\ NextTheirs(kp')
    BY <1>0, <2>1 DEF From, Same, NextTheirs, Slots
  <2> QED BY <1>8, <2>2, MovedRx DEF DataExpired, history
<1>9. CASE Tick
  <2>1. \A k \in Keypair \cup {None} : Older(k) # None => k # None /\ Same(Older(k), k)
    BY ConstTypes, NoneAssumption DEF Older, Keypair, Same
  <2>2. From(kp', kp) /\ NextTheirs(kp')
    BY <1>0, <1>9, <2>1 DEF Tick, Keys, KP, From, NextTheirs, Same, Slots
  <2> QED BY <1>9, <2>2, MovedRx DEF Tick, history
<1>10. ASSUME NEW s \in Session, SrvRespond(s) PROVE RxInv'
  BY <1>0, <1>10, ServerRx DEF SrvRespond
<1>11. CASE SrvInitiate
  BY <1>0, <1>11, ServerRx DEF SrvInitiate
<1>12. ASSUME NEW s \in Session, NEW empty \in BOOLEAN, SrvSend(s, empty) PROVE RxInv'
  BY <1>0, <1>12, ServerRx DEF SrvSend
<1> QED BY <1>1, <1>2, <1>3, <1>4, <1>5, <1>6, <1>7, <1>8, <1>9, <1>10, <1>11, <1>12 DEF Next

LEMMA RxInit == Init => RxInv
BY DEF Init, RxInv, AllGood, NextTheirs, DelInv, SendsConfirmed, InitiatorOnce, Slots

\* wireguardif_output_to_peer encrypts nothing under keys the server has not
\* shown to have, through every crossing of handshakes.
THEOREM ConfirmedSafe == Spec => []SendsConfirmed
<1>1. RxInv => SendsConfirmed
  BY DEF RxInv
<1> QED BY <1>1, KeysInit, KeysNext, RxInit, RxNext, PTL DEF Spec

\* wireguard_check_replay: a message of a session this side began reaches IP
\* once at most, for a window of any width.
THEOREM ReplaySafe == Spec => []InitiatorOnce
<1>1. RxInv => InitiatorOnce
  BY DEF RxInv
<1> QED BY <1>1, KeysInit, KeysNext, RxInit, RxNext, PTL DEF Spec
=============================================================================
