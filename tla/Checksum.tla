------------------------------ MODULE Checksum ------------------------------
(***************************************************************************)
(* What the hops of a packet's way do to its checksums: the repair at the  *)
(* USB link (usb_net.c), at the radio links (eth_csum.c) and before the    *)
(* tunnel encrypts (wireguardif.c), the NAT's incremental update (napt.c)  *)
(* and lwIP's forwarding.  Zero means "not computed" to every hop, and is  *)
(* also a value a checksum may have.                                       *)
(*                                                                         *)
(* Words are below B instead of 2^16, bytes below K.  A packet has the     *)
(* words that hops change; those they do not are the constants of the two  *)
(* sums.  The packets are IPv4 and as long as they say: lwIP drops others. *)
(***************************************************************************)
EXTENDS Naturals, Sequences

CONSTANTS
  K, B,        \* bytes are 0 .. K-1, words 0 .. B-1
  MSS,         \* the clamp, 0 for none
  PATH_MTU,    \* wg_path_mtu
  EXT, NAT     \* the address and the port the NAT puts in

Word == 0 .. B - 1
Kinds == {"syn", "tcp", "udp", "echo", "toobig"}

ASSUME WordsFit ==
  /\ K \in Nat /\ K > 1 /\ B = K * K
  /\ MSS \in Word /\ PATH_MTU \in Word /\ EXT \in Word /\ NAT \in Word

\* opt is the MSS of a SYN, the next-hop MTU of a frag-needed, else payload; odd
\* says that the options before the MSS put it at an odd offset, flat that the
\* packet is in one buffer.
Packet == [kind: Kinds, frag: BOOLEAN, flat: BOOLEAN, odd: BOOLEAN,
           addr: Word, port: Word, opt: Word, hsum: Word, csum: Word]

VARIABLES
  pkt, hops,       \* the packet and the hops it has before it
  origin,          \* the packet that entered
  refilled,        \* some hop found no checksum, or replaced the one it found
  skewed           \* the NAT clamped an MSS at an odd offset

csumvars == <<pkt, hops, origin, refilled, skewed>>

(***************************************************************************)
(* Ones'-complement arithmetic.                                            *)
(***************************************************************************)
fold[s \in Nat] == IF s < B THEN s ELSE fold[(s % B) + (s \div B)]
Not(w) == B - 1 - w

csum_finish(s) == Not(fold[s])

\* At an odd offset a word's bytes are in the other halves of their words.
Swap(w) == (w % K) * K + (w \div K)
OptSum(p) == IF p.odd THEN Swap(p.opt) ELSE p.opt

\* The IPv4 header's sum, and the transport's with its pseudo header.
HeaderSum(p) == 1 + p.addr
BodySum(p) == p.port + OptSum(p) + IF p.kind \in {"syn", "tcp", "udp"} THEN 1 + p.addr ELSE 0

\* The sums with the checksum in them come out all ones.
HeaderOK(p) == fold[HeaderSum(p) + p.hsum] = B - 1
BodyOK(p) == fold[BodySum(p) + p.csum] = B - 1 /\ (p.kind = "udp" => p.csum # 0)

(***************************************************************************)
(* The hops.                                                               *)
(***************************************************************************)
FillHeader(p) == IF p.hsum = 0 THEN [p EXCEPT !.hsum = csum_finish(HeaderSum(p))] ELSE p

\* UDP sends the other zero.
Alternate(p, c) == IF p.kind = "udp" /\ c = 0 THEN B - 1 ELSE c

\* The mutant computes every checksum afresh.
FillAlways(p) == [p EXCEPT !.csum = Alternate(p, csum_finish(BodySum(p)))]

\* A missing transport checksum is computed; a fragment has none of its own.
FillBody(p) ==
  IF p.frag \/ p.csum # 0 THEN p ELSE [p EXCEPT !.csum = Alternate(p, csum_finish(BodySum(p)))]

\* A frame in several buffers is passed on as it is.
eth_csum_restore(p) == IF p.flat THEN FillBody(FillHeader(p)) ELSE p

\* The tunnel and the USB link's transmit side work on a copy in one piece.
wireguardif_fix_checksums(p) == FillBody(FillHeader(p))

Clamps(p) == p.kind = "syn" /\ MSS # 0 /\ p.opt > MSS

\* A clamped SYN is summed again; our own frag-needed is given the MTU first.
fix_host_checksums(p) ==
  LET clamp == ~p.frag /\ Clamps(p)
      stamp == ~p.frag /\ p.kind = "toobig" /\ p.csum = 0 /\ p.opt = 0
  IN FillBody(CASE clamp -> [FillHeader(p) EXCEPT !.opt = MSS, !.csum = 0]
                [] stamp -> [FillHeader(p) EXCEPT !.opt = PATH_MTU]
                [] OTHER -> FillHeader(p))

\* What the host sends is repaired if it was received in one buffer.
usb_net_update(p) == IF p.flat THEN fix_host_checksums(p) ELSE p
tud_network_xmit_cb(p) == fix_host_checksums(p)

\* The mutant drops the carries.
AdjustNoCarry(c, old, new) == Not((Not(c) + Not(old) + new) % B)

\* RFC 1624: the checksum c of a packet in which `old` becomes `new`.
csum_adjust(c, old, new) == Not(fold[Not(c) + Not(old) + new])

csum_adjust_nz(c, old, new) == IF c = 0 THEN 0 ELSE csum_adjust(c, old, new)

\* The adjustment of a transport checksum, with UDP's other zero.
AdjustBody(p, old, new) ==
  IF p.kind = "udp" /\ p.csum # 0 THEN Alternate(p, csum_adjust(p.csum, old, new))
  ELSE csum_adjust_nz(p.csum, old, new)

\* Header and pseudo header, then the port, then the MSS, one after the other:
\* a checksum that passes through zero is left for the egress to fill.  The MSS
\* is adjusted as if it were a word of the sum, wherever it is.
Rewrite(p, addr, port) ==
  LET a == [p EXCEPT !.hsum = csum_adjust_nz(@, p.addr, addr), !.addr = addr,
                     !.csum = IF p.kind = "echo" THEN @ ELSE AdjustBody(p, p.addr, addr)]
      b == [a EXCEPT !.port = port, !.csum = AdjustBody(a, a.port, port)]
  IN IF Clamps(b) THEN [b EXCEPT !.opt = MSS, !.csum = AdjustBody(b, b.opt, MSS)] ELSE b

\* What the NAT translates: whole packets, of ICMP only echoes.
parse(p) == ~p.frag /\ p.kind # "toobig"
RewriteOut(p) == Rewrite(p, EXT, NAT)
\* Back to the inner address and port, which an entry remembers.
RewriteIn(p, addr, port) == Rewrite(p, addr, port)

\* lwIP's ip4_forward clears the header checksum.
Forward(p) == [p EXCEPT !.hsum = 0]

\* The hops of each way through the device.
Ways == {<<"host", "forward", "wg">>,     \* the host into the tunnel
         <<"forward", "usb">>,            \* the tunnel to the host
         <<"forward", "eth">>,            \* the tunnel to the quarantine client
         <<"forward", "out", "eth">>,     \* the tunnel out by the station
         <<"in", "forward", "wg">>,       \* and back
         <<"usb">>, <<"wg">>, <<"eth">>}  \* the device's own packets

Local(way) == Len(way) = 1

\* Packets that enter: the device's own have no transport checksum, others have
\* one, right or wrong, or none if the host left it to us or UDP does without.
\* What the stack builds and what the tunnel decrypts is in one buffer.
CsumInit ==
  /\ hops \in Ways
  /\ pkt \in Packet /\ HeaderOK(pkt)
  /\ Local(hops) => pkt.csum = 0 /\ ~pkt.frag
  /\ ~Local(hops) /\ pkt.csum = 0 => pkt.frag \/ BodyOK(pkt) \/ pkt.kind = "udp" \/ Head(hops) = "host"
  /\ pkt.odd => pkt.kind = "syn"
  /\ ~pkt.flat => Head(hops) \in {"host", "in"}
  /\ origin = pkt /\ refilled = Local(hops) /\ skewed = FALSE

Hop(p, addr, port) ==
  CASE Head(hops) = "host"    -> usb_net_update(p)
    [] Head(hops) = "usb"     -> tud_network_xmit_cb(p)
    [] Head(hops) = "wg"      -> wireguardif_fix_checksums(p)
    [] Head(hops) = "eth"     -> eth_csum_restore(p)
    [] Head(hops) = "forward" -> Forward(p)
    [] Head(hops) = "out"     -> RewriteOut(p)
    [] Head(hops) = "in"      -> RewriteIn(p, addr, port)

\* The packet takes its next hop; what the NAT cannot translate goes no further.
Step ==
  /\ hops # <<>>
  /\ Head(hops) \in {"in", "out"} => parse(pkt)
  /\ \E addr \in Word, port \in Word :
       /\ Head(hops) # "in" => addr = 0 /\ port = 0
       /\ pkt' = Hop(pkt, addr, port)
       /\ refilled' = (refilled \/ pkt.csum = 0 \/ pkt'.csum = 0
                       \/ (Head(hops) \in {"host", "usb"} /\ Clamps(pkt)))
  /\ skewed' = (skewed \/ (Head(hops) \in {"in", "out"} /\ pkt.odd /\ Clamps(pkt)))
  /\ hops' = Tail(hops)
  /\ UNCHANGED origin

CsumNext == Step

CsumSpec == CsumInit /\ [][CsumNext]_csumvars

(***************************************************************************)
(* Properties.                                                             *)
(***************************************************************************)
Left == hops = <<>>
Intact(p) == p.frag \/ p.csum = 0 \/ BodyOK(p)

\* Every header leaves right.  A packet that enters right, or without a
\* checksum, leaves right, by every way, through every rewrite, also where a sum
\* passes through zero: unless the NAT clamps its MSS at an odd offset.
LeavesValid ==
  Left => HeaderOK(pkt) /\ (Intact(origin) /\ ~skewed => pkt.frag \/ BodyOK(pkt))

\* What enters corrupt is still detectably so when it leaves: only a hop that
\* found no checksum, or had to replace it, writes one afresh, and only the
\* clamp at an odd offset can make a wrong one right.
CorruptionKept == Left /\ ~Intact(origin) /\ ~refilled /\ ~skewed => ~BodyOK(pkt)
=============================================================================
