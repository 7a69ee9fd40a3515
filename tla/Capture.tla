------------------------------ MODULE Capture ------------------------------
(***************************************************************************)
(* The packet-capture ring of pcap.c: records of different lengths in a    *)
(* byte array, the oldest evicted record by record, a download that holds  *)
(* the ring still.  A cell of the ring knows the record it belongs to, so  *)
(* that reading the ring back is parsing, not looking up a list.           *)
(***************************************************************************)
EXTENDS Naturals, Sequences

CONSTANTS
  RING_SIZE,   \* cells of the ring
  REC_HDR,     \* cells of a record's header
  SNAPLEN,     \* most cells of a frame that are kept
  FrameLen,    \* lengths of the frames crossing the USB link
  MaxPackets   \* bound on the frames captured

\* The array holds at least one whole record.
ASSUME RingFits ==
  /\ REC_HDR \in Nat \ {0} /\ SNAPLEN \in Nat \ {0} /\ MaxPackets \in Nat
  /\ RING_SIZE \in Nat /\ REC_HDR + SNAPLEN <= RING_SIZE
  /\ FrameLen \subseteq Nat

VARIABLES
  ring,        \* cell -> the record it stores a part of
  head, tail, high, wrapped,
  enabled, paused,
  n_packets,   \* records since the last clear
  captured     \* history: records ever written; the last one has this number

ringvars == <<ring, head, tail, high, wrapped, n_packets, captured>>
capvars == <<ringvars, enabled, paused>>

Cells == 0 .. RING_SIZE - 1
\* Cell `at` of record `id`, which takes `len` cells; record 0 is no record.
Cell == [id: 0 .. MaxPackets, at: 0 .. RING_SIZE, len: 0 .. RING_SIZE]
Blank == [id |-> 0, at |-> 0, len |-> 0]

CapInit ==
  /\ ring = [c \in Cells |-> Blank]
  /\ head = 0 /\ tail = 0 /\ high = 0 /\ wrapped = FALSE
  /\ enabled = FALSE /\ paused = FALSE
  /\ n_packets = 0 /\ captured = 0

\* The length a record's header tells.
rec_len_at(off) == ring[off].len

\* Where the tail comes to rest once it is clear of [from, from + need), and
\* whether the records at the top of the ring are used up on the way.
evict(start, from, need, top) ==
  LET rest[t \in Cells] ==
        IF t >= from + need \/ t + rec_len_at(t) <= from
        THEN [tail |-> t, emptied |-> FALSE]
        ELSE IF t + rec_len_at(t) >= top THEN [tail |-> 0, emptied |-> TRUE]
        ELSE rest[t + rec_len_at(t)]
  IN rest[start]

\* The mutant forgets to evict what the new record overwrites.
RoomNoEvict(need) ==
  LET wraps == head + need > RING_SIZE
  IN [head |-> IF wraps THEN 0 ELSE head, tail |-> tail,
      high |-> IF wraps THEN head ELSE high, wrapped |-> wrapped \/ wraps]

\* Room for need cells: the offsets after wrapping and evicting.
Room(need) ==
  LET wraps == head + need > RING_SIZE
      at    == IF wraps THEN 0 ELSE head
      top   == IF wraps THEN head ELSE high
      old   == IF wraps /\ wrapped /\ tail >= head THEN 0 ELSE tail
      e     == evict(old, at, need, top)
  IN IF ~wrapped /\ ~wraps
     THEN [head |-> head, tail |-> tail, high |-> high, wrapped |-> FALSE]
     ELSE [head |-> at, tail |-> e.tail, wrapped |-> ~e.emptied,
           high |-> IF e.emptied THEN at ELSE top]

Write(len) ==
  LET incl == IF len > SNAPLEN THEN SNAPLEN ELSE len
      need == REC_HDR + incl
      r    == Room(need)
      id   == captured + 1
  IN /\ ring' = [c \in Cells |->
                   IF c >= r.head /\ c < r.head + need
                   THEN [id |-> id, at |-> c - r.head, len |-> need] ELSE ring[c]]
     /\ head' = r.head + need
     /\ tail' = r.tail /\ wrapped' = r.wrapped
     /\ high' = IF r.head + need > r.high /\ ~r.wrapped THEN r.head + need ELSE r.high
     /\ n_packets' = n_packets + 1 /\ captured' = id

\* One frame crosses the link: recorded unless capturing is off or held.
pcap_capture(len) ==
  /\ enabled /\ ~paused /\ len > 0 /\ captured < MaxPackets
  /\ Write(len)
  /\ UNCHANGED <<enabled, paused>>

pcap_set_enabled(on) == enabled' = on /\ UNCHANGED <<ringvars, paused>>

pcap_clear ==
  /\ head' = 0 /\ tail' = 0 /\ high' = 0 /\ wrapped' = FALSE /\ n_packets' = 0
  /\ UNCHANGED <<ring, captured, enabled, paused>>

\* The two spans a download streams, oldest first.
Span(from, len) == [from |-> from, len |-> len]
pcap_freeze ==
  IF wrapped THEN <<Span(tail, high - tail), Span(0, head)>>
             ELSE <<Span(tail, head - tail), Span(0, 0)>>

(***************************************************************************)
(* Reading the ring back.                                                  *)
(***************************************************************************)
\* A whole record starts at cell c of the ring r.
RecordAt(r, c) ==
  /\ r[c].id # 0 /\ r[c].at = 0
  /\ \A k \in 0 .. r[c].len - 1 :
       c + k \in Cells /\ r[c + k] = [r[c] EXCEPT !.at = k]

\* The records of a span in order; 0 marks a place that does not parse.
Parse(r, span) ==
  LET end == span.from + span.len
      from[c \in 0 .. RING_SIZE] ==
        IF c >= end THEN IF c = end THEN <<>> ELSE <<0>>
        ELSE IF c \notin Cells \/ ~RecordAt(r, c) THEN <<0>>
        ELSE <<r[c].id>> \o from[c + r[c].len]
  IN from[span.from]

Stream(r, spans) == Parse(r, spans[1]) \o Parse(r, spans[2])

\* pcap.c 3-7 "preserving a parseable stream at all times": the ring reads as
\* an unbroken run of the latest records, the newest included.
StreamIsLatest ==
  LET s == Stream(ring, pcap_freeze)
  IN /\ \A i \in DOMAIN s : s[i] = captured - Len(s) + i
     /\ n_packets > 0 => s # <<>>
=============================================================================
