------------------------------- MODULE WgPeer -------------------------------
(***************************************************************************)
(* The WireGuard engine's one peer (wireguard.c, wireguardif.c): three     *)
(* keypair slots, the pending handshake, the timer and the replay window,  *)
(* against a network that loses, duplicates and reorders.                  *)
(*                                                                         *)
(* Cryptography is ideal.  A handshake's messages and the keys it makes are *)
(* named by its initiation, numbered in the order both sides make them.    *)
(* Ages are counted in ticks much longer than the 400 ms timer.  The 5 s   *)
(* between initiations and the keepalive interval are shorter than a tick: *)
(* whether they have passed is an input of the timer.                      *)
(***************************************************************************)
EXTENDS Naturals

CONSTANTS
  None,
  MaxSession,   \* bound on the handshakes either side starts
  RekeyAge,     \* REKEY_AFTER_TIME
  LateRx,       \* REJECT_AFTER_TIME - keepalive_interval - REKEY_TIMEOUT
  LateTx,       \* REJECT_AFTER_TIME - keepalive_interval
  RejectAge,    \* REJECT_AFTER_TIME
  MaxAge,       \* cap on ages, above RejectAge
  RekeyMsgs,    \* REKEY_AFTER_MESSAGES
  RejectMsgs,   \* REJECT_AFTER_MESSAGES
  MaxRx,        \* bound on the data messages the server sends per session, less
                \* than 2^32 (what wireguard_check_replay keeps of a difference)
  Window        \* bits of replay_bitmap

Session == 1..MaxSession

ASSUME ConstTypes ==
  /\ MaxSession \in Nat /\ MaxRx \in Nat
  /\ RekeyAge \in Nat /\ LateRx \in Nat /\ LateTx \in Nat
  /\ RejectAge \in Nat \ {0} /\ MaxAge \in Nat /\ RejectAge <= MaxAge
  /\ RekeyMsgs \in Nat /\ RejectMsgs \in Nat
  /\ Window \in Nat \ {0}

\* struct wireguard_keypair: heard is last_rx # 0, tx is sending_counter, top
\* and seen are replay_counter and the offsets set in replay_bitmap.
Keypair == [sid: Session, initiator: BOOLEAN, age: 0..MaxAge, heard: BOOLEAN,
            tx: 0..RejectMsgs, top: 0..MaxRx, seen: SUBSET (0 .. Window - 1)]

ASSUME NoneAssumption == None \notin Keypair /\ None \notin Session

Slots == {"curr", "next", "prev"}

VARIABLES
  kp,                \* the three keypairs, None where valid is false
  hs,                \* the initiation this side sent and has no answer to
  active, send_handshake,
  gts,               \* greatest_timestamp: the last initiation accepted
  link,              \* the interface's link flag
  due,               \* the timer has not run since the last tick
  count,             \* initiations made so far, by both sides
  net,               \* history: messages to this side; each may arrive again
  sent,              \* history: nonces this side has encrypted with
  answered,          \* history: initiations this side has answered
  delivered, twice   \* history: messages handed to IP, and handed to it again

peervars == <<kp, hs, active, send_handshake, gts, link>>
history == <<count, net, sent, answered, delivered, twice>>
vars == <<peervars, due, history>>

Resp(s) == [type |-> "resp", sid |-> s]
Request(s) == [type |-> "init", sid |-> s]
Data(s, n, empty) == [type |-> "data", sid |-> s, n |-> n, empty |-> empty]

Init ==
  /\ kp = [s \in Slots |-> None] /\ hs = None
  /\ active = FALSE /\ send_handshake = FALSE
  /\ link = FALSE /\ due = FALSE
  /\ gts = 0 /\ count = 0
  /\ net = {} /\ sent = {} /\ answered = {} /\ delivered = {} /\ twice = {}

\* wireguardif_connect, at first and at every kick of wg_poll.
wireguardif_connect ==
  /\ active' = TRUE
  /\ UNCHANGED <<kp, hs, send_handshake, gts, link, due, history>>

(***************************************************************************)
(* Sending: wireguardif_output_to_peer on the keypairs q.                  *)
(***************************************************************************)
\* The mutant sends one message too many.
UsableOnce(k) == k.age < RejectAge /\ k.tx <= RejectMsgs

usable(k) == k.age < RejectAge /\ k.tx < RejectMsgs

\* The previous keypair stands in for a current one that is not confirmed.
SendSlot(q) ==
  IF q["curr"] # None /\ ~q["curr"].initiator /\ ~q["curr"].heard THEN "prev" ELSE "curr"

Confirmed(k) == k # None /\ (k.initiator \/ k.heard)

CanSend(q) == Confirmed(q[SendSlot(q)]) /\ usable(q[SendSlot(q)])

\* The keypair that encrypts counts on; one that is too old is destroyed.
Used(q) ==
  LET s == SendSlot(q) IN
  IF CanSend(q) THEN [q EXCEPT ![s].tx = @ + 1]
  ELSE IF Confirmed(q[s]) THEN [q EXCEPT ![s] = None] ELSE q

Nonce(q) ==
  LET k == q[SendSlot(q)] IN IF CanSend(q) THEN {[sid |-> k.sid, n |-> k.tx]} ELSE {}

\* The packet sent asks for a new handshake.
Rekeys(q) ==
  LET k == q[SendSlot(q)] IN
  CanSend(q) /\ (k.tx + 1 >= RekeyMsgs \/ (k.initiator /\ k.age >= RekeyAge))

\* IP sends a packet into the tunnel; one without a buffer changes nothing.
wireguardif_output ==
  /\ kp' = Used(kp)
  /\ sent' = sent \cup Nonce(kp)
  /\ send_handshake' = (send_handshake \/ Rekeys(kp))
  /\ UNCHANGED <<hs, active, gts, link, due, count, net, answered, delivered, twice>>

(***************************************************************************)
(* The timer.                                                              *)
(***************************************************************************)
\* should_reset_peer, then should_destroy_current_keypair.
Expired(q) ==
  LET r == IF q["curr"] # None /\ q["curr"].age >= 3 * RejectAge
           THEN [s \in Slots |-> None] ELSE q
  IN  IF r["curr"] # None /\ ~usable(r["curr"]) THEN [r EXCEPT !["curr"] = None] ELSE r

\* peer_is_up, and the timer's link_up.
PeerUp(q) == q["curr"] # None \/ q["prev"] # None

should_send_initiation(q, wanted) ==
  \/ wanted
  \/ q["curr"] # None /\ ~q["curr"].initiator /\ q["curr"].age >= LateTx
  \/ q["curr"] = None /\ active

\* Expiry, keepalive, initiation and the link flag, in this order: quiet when
\* nothing was sent for the keepalive interval (and there is a buffer for it),
\* free when the last initiation is 5 s old, mem when there is a buffer for
\* the next: without it the handshake is prepared all the same, and nothing
\* answers it.  A handshake beyond the bound has no buffer.
wireguardif_tmr(quiet, free, mem) ==
  LET q      == Expired(kp)
      keep   == quiet /\ PeerUp(q)
      r      == IF keep THEN Used(q) ELSE q
      wanted == send_handshake \/ (keep /\ Rekeys(q))
      start  == free /\ should_send_initiation(r, wanted)
      made   == start /\ mem /\ count < MaxSession
  IN
  /\ kp' = r
  /\ sent' = IF keep THEN sent \cup Nonce(q) ELSE sent
  /\ count' = IF made THEN count + 1 ELSE count
  /\ hs' = IF made THEN count + 1 ELSE IF start THEN None ELSE hs
  /\ send_handshake' = (wanted /\ ~made)
  /\ link' = (link /\ PeerUp(r))
  /\ due' = FALSE
  /\ UNCHANGED <<active, gts, net, answered, delivered, twice>>

(***************************************************************************)
(* Receiving.                                                              *)
(***************************************************************************)
\* The mutant takes every session for one this side started.
OwnKeypair(s, initiator) ==
  [sid |-> s, initiator |-> TRUE, age |-> 0, heard |-> FALSE, tx |-> 0, top |-> 0, seen |-> {}]

NewKeypair(s, initiator) ==
  [sid |-> s, initiator |-> initiator, age |-> 0, heard |-> FALSE, tx |-> 0,
   top |-> 0, seen |-> {}]

\* The mutant keeps the keypair it moves in its old slot too.
CopyKeypair(q, k) ==
  IF k.initiator
  THEN [q EXCEPT !["prev"] = IF q["next"] # None THEN q["next"] ELSE q["curr"],
                 !["curr"] = k]
  ELSE [q EXCEPT !["next"] = k, !["prev"] = None]

add_new_keypair(q, k) ==
  IF k.initiator
  THEN [q EXCEPT !["prev"] = IF q["next"] # None THEN q["next"] ELSE q["curr"],
                 !["curr"] = k, !["next"] = None]
  ELSE [q EXCEPT !["next"] = k, !["prev"] = None]

\* The answer to the pending initiation starts a session and a keepalive, if
\* there is a buffer for it.
HandshakeResponse(s, mem) ==
  LET q == add_new_keypair(kp, NewKeypair(s, TRUE)) IN
  /\ Resp(s) \in net /\ hs = s
  /\ kp' = IF mem THEN Used(q) ELSE q
  /\ sent' = IF mem THEN sent \cup Nonce(q) ELSE sent
  /\ send_handshake' = (send_handshake \/ (mem /\ Rekeys(q)))
  /\ hs' = None /\ link' = TRUE
  /\ UNCHANGED <<active, gts, due, count, net, answered, delivered, twice>>

\* The server's initiation, if its stamp is later than all before; it takes
\* the place of a handshake this side had started.  The rate limit rejects
\* only a second one in the same millisecond, which is like losing it.
HandshakeInitiation(s) ==
  /\ Request(s) \in net /\ s > gts
  /\ gts' = s /\ hs' = None
  /\ kp' = add_new_keypair(kp, NewKeypair(s, FALSE))
  /\ answered' = answered \cup {s}
  /\ UNCHANGED <<active, send_handshake, link, due, count, net, sent, delivered, twice>>

get_peer_keypair_for_idx(s) ==
  LET has(slot) == kp[slot] # None /\ kp[slot].sid = s IN
  IF has("curr") THEN "curr" ELSE IF has("next") THEN "next"
  ELSE IF has("prev") THEN "prev" ELSE None

keypair_update(q, slot) ==
  IF slot = "next"
  THEN [q EXCEPT !["prev"] = q["curr"], !["curr"] = q["next"], !["next"] = None] ELSE q

\* wireguard_check_replay on a keypair: seq is one more than the nonce.
Acceptable(k, n) ==
  n + 1 > k.top \/ (k.top - (n + 1) < Window /\ k.top - (n + 1) \notin k.seen)

\* The mutant forgets the packets before the one that moves the window.
RecordOnly(k, n) == [k EXCEPT !.top = IF n + 1 > @ THEN n + 1 ELSE @, !.seen = {0}]

Record(k, n) ==
  IF n + 1 > k.top
  THEN [k EXCEPT !.top = n + 1,
                 !.seen = {0} \cup {o + n + 1 - k.top : o \in {x \in @ : x + n + 1 - k.top < Window}}]
  ELSE [k EXCEPT !.seen = @ \cup {k.top - (n + 1)}]

\* A keypair in use: the slot found is updated and perhaps rotated, and only
\* then are rekeying and replay checked, through the pointer found before: a
\* keypair that was "next" has moved away and left zeroes behind it.
Accepted(m, up) ==
  LET slot  == get_peer_keypair_for_idx(m.sid)
      moved == slot = "next"
      fresh == ~m.empty /\ (moved \/ Acceptable(kp[slot], m.n))
      q     == keypair_update([kp EXCEPT ![slot].heard = TRUE], slot)
      id    == [sid |-> m.sid, n |-> m.n]
  IN
  /\ m \in net /\ m.type = "data"
  /\ slot # None /\ usable(kp[slot])
  /\ kp' = IF fresh /\ ~moved THEN [q EXCEPT ![slot] = Record(@, m.n)] ELSE q
  /\ send_handshake' = (send_handshake \/ (kp[slot].initiator /\ ~moved /\ kp[slot].age >= LateRx))
  /\ delivered' = IF fresh THEN delivered \cup {id} ELSE delivered
  /\ twice' = IF fresh /\ id \in delivered THEN twice \cup {id} ELSE twice
  /\ link' = up
  /\ UNCHANGED <<hs, active, gts, due, count, net, sent, answered>>

\* The mutant leaves the interface's link as it was.
DataLeavesLink(m) == Accepted(m, link)

DataAccepted(m) == Accepted(m, TRUE)

\* A keypair past its limits is destroyed by the message that meets it.
DataExpired(m) ==
  LET slot == get_peer_keypair_for_idx(m.sid) IN
  /\ m \in net /\ m.type = "data"
  /\ slot # None /\ ~usable(kp[slot])
  /\ kp' = [kp EXCEPT ![slot] = None]
  /\ UNCHANGED <<hs, active, send_handshake, gts, link, due, history>>

(***************************************************************************)
(* Time, and the server.                                                   *)
(***************************************************************************)
Older(k) == IF k # None /\ k.age < MaxAge THEN [k EXCEPT !.age = @ + 1] ELSE k

\* A tick passes; the timer has run since the one before.
Tick ==
  /\ ~due /\ due' = TRUE
  /\ kp' = [s \in Slots |-> Older(kp[s])]
  /\ UNCHANGED <<hs, active, send_handshake, gts, link, history>>

\* The server answers an initiation later than all it answered.
SrvRespond(s) ==
  /\ s <= count /\ Request(s) \notin net
  /\ \A t \in Session : Resp(t) \in net => t < s
  /\ net' = net \cup {Resp(s)}
  /\ UNCHANGED <<peervars, due, count, sent, answered, delivered, twice>>

SrvInitiate ==
  /\ count < MaxSession
  /\ count' = count + 1 /\ net' = net \cup {Request(count + 1)}
  /\ UNCHANGED <<peervars, due, sent, answered, delivered, twice>>

\* The server sends its next data message once it knows the keys are shared.
SrvSend(s, empty) ==
  /\ s \in answered \/ (Resp(s) \in net /\ \E u \in sent : u.sid = s)
  /\ \E n \in 0 .. MaxRx - 1 :
       /\ \A m \in net : m.type = "data" /\ m.sid = s => m.n < n
       /\ n > 0 => \E m \in net : m.type = "data" /\ m.sid = s /\ m.n = n - 1
       /\ net' = net \cup {Data(s, n, empty)}
  /\ UNCHANGED <<peervars, due, count, sent, answered, delivered, twice>>

Next ==
  \/ wireguardif_connect \/ wireguardif_output
  \/ \E quiet, free, mem \in BOOLEAN : wireguardif_tmr(quiet, free, mem)
  \/ \E s \in Session, mem \in BOOLEAN : HandshakeResponse(s, mem)
  \/ \E s \in Session : HandshakeInitiation(s) \/ SrvRespond(s)
  \/ \E m \in net : DataAccepted(m) \/ DataExpired(m)
  \/ Tick \/ SrvInitiate
  \/ \E s \in Session, empty \in BOOLEAN : SrvSend(s, empty)

Spec == Init /\ [][Next]_vars

(***************************************************************************)
(* Properties.                                                             *)
(***************************************************************************)
\* Every variable of the peer has its type.
TypeOK ==
  /\ kp \in [Slots -> Keypair \cup {None}]
  /\ hs \in Session \cup {None}
  /\ active \in BOOLEAN /\ send_handshake \in BOOLEAN
  /\ link \in BOOLEAN /\ due \in BOOLEAN
  /\ gts \in 0..MaxSession /\ count \in 0..MaxSession
  /\ sent \subseteq [sid: Session, n: 0..RejectMsgs]

\* wireguard.c 1004-1007: however keypairs move between the slots, the counter
\* a keypair would use next was never used with its keys, and no two slots
\* hold the same keys.
NonceFresh ==
  \A s \in Slots : kp[s] # None =>
    /\ \A u \in sent : u.sid = kp[s].sid => u.n < kp[s].tx
    /\ \A t \in Slots : t # s /\ kp[t] # None => kp[t].sid # kp[s].sid

\* wireguardif.c 175-180: nothing is encrypted for keys the server has not
\* shown to have, by its answer or by a message under them.
SendsConfirmed ==
  \A u \in sent : Resp(u.sid) \in net \/ \E m \in net : m.type = "data" /\ m.sid = u.sid

\* wireguard.c 320-365: a message of a session this side initiated reaches IP
\* at most once, whatever order and number its copies arrive in.
InitiatorOnce == \A id \in twice : id.sid \in answered

\* wireguardif.c 300-301, 386, 954-963: a peer with a session has its link up, so
\* that IP can route into the tunnel, although the timer, the handshake and
\* every data message set or clear the two on their own.
LinkFollowsKeys == PeerUp(kp) => link
=============================================================================
