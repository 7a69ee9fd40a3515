------------------------------- MODULE Portal -------------------------------
(***************************************************************************)
(* The web portal of http_portal.c: a fixed pool of connections fed by     *)
(* lwIP's callbacks, whose downloads stream the capture ring in place.     *)
(*                                                                         *)
(* A callback runs to its end under the lwIP lock, so each is one action.  *)
(* A request is its kind; a response's three segments are counted in the   *)
(* fills of the send buffer they take.                                     *)
(***************************************************************************)
EXTENDS Capture

CONSTANTS
  HTTP_CONNS,   \* connection slots
  REQ_MAX,      \* pieces of a request that fit in req[]
  IDLE_POLLS,   \* polls without progress before a connection is aborted
  SND_BUF,      \* TCP_SND_BUF
  RespLen       \* lengths of responses, in the same unit

ASSUME PortalBounds ==
  /\ HTTP_CONNS \in Nat /\ REQ_MAX \in Nat \ {0} /\ IDLE_POLLS \in Nat
  /\ SND_BUF \in Nat \ {0} /\ RespLen \subseteq Nat \ {0}

VARIABLE conns   \* conn_t conns[HTTP_CONNS]

vars == <<capvars, conns>>

Slot == 1 .. HTTP_CONNS

\* A zeroed conn_t: total, queued and acked measure the response; spans are
\* where a download's segments point, and want (history) what was there at the
\* freeze, both forgotten once another download's end lets capturing go on.
NoSpans == <<Span(0, 0), Span(0, 0)>>
Free == [open |-> FALSE, req |-> 0, responded |-> FALSE, idle |-> 0,
         pcap_hold |-> FALSE, total |-> 0, queued |-> 0, acked |-> 0,
         spans |-> NoSpans, want |-> <<>>]

Init == CapInit /\ conns = [c \in Slot |-> Free]

\* How far a call of conn_send_more may queue a response: until the send
\* buffer is full, all is queued, or tcp_write refuses a segment.
Queued(r) == {q \in r.queued .. r.total : q <= r.acked + SND_BUF}

\* The mutant leaves the ring held when the reader goes.
FreeStillHeld(c) ==
  /\ conns' = [conns EXCEPT ![c] = Free]
  /\ UNCHANGED capvars

\* Connection c is torn down; a download among them lets the capture go on,
\* whoever else still reads the ring.
conn_free(c) ==
  /\ conns' = [d \in Slot |->
       IF d = c THEN Free
       ELSE IF conns[c].pcap_hold THEN [conns[d] EXCEPT !.spans = NoSpans, !.want = <<>>]
       ELSE conns[d]]
  /\ paused' = (paused /\ ~conns[c].pcap_hold)
  /\ UNCHANGED <<ringvars, enabled>>

\* Everything is queued and acknowledged: the connection closes.
Drained(r) == r.queued = r.total /\ r.acked = r.queued

\* The connection's record r once conn_send_more queued what it could.
Pushed(r) == {[r EXCEPT !.queued = q] : q \in Queued(r)}

conn_send_more(c, r) ==
  \E s \in Pushed(r) :
    IF Drained(s) THEN conn_free(c)
    ELSE conns' = [conns EXCEPT ![c] = s] /\ UNCHANGED capvars

\* conn_respond: headers with a generated body, or headers and a page in flash.
conn_respond(c, r) ==
  \E n \in RespLen : conn_send_more(c, [r EXCEPT !.responded = TRUE, !.total = n])

\* The responses to GET /api/pcap: the ring, streamed where it lies.
Capturing(r) ==
  {[r EXCEPT !.responded = TRUE, !.pcap_hold = TRUE, !.total = n,
             !.spans = pcap_freeze, !.want = Stream(ring, pcap_freeze)] : n \in RespLen}

\* The mutant streams the ring without holding it.
DownloadUnheld(c, r) ==
  /\ \E d \in Capturing(r) : \E s \in Pushed(d) : conns' = [conns EXCEPT ![c] = s]
  /\ UNCHANGED capvars

\* GET /api/pcap holds the ring; nothing is acknowledged yet, so it stays open.
Download(c, r) ==
  /\ \E d \in Capturing(r) : \E s \in Pushed(d) : conns' = [conns EXCEPT ![c] = s]
  /\ paused' = TRUE
  /\ UNCHANGED <<ringvars, enabled>>

\* POST /api/cmd: a console line, here those that reach the capture.
Command(c, r) ==
  /\ \E n \in RespLen : \E s \in Pushed([r EXCEPT !.responded = TRUE, !.total = n]) :
       conns' = [conns EXCEPT ![c] = s]
  /\ \/ \E on \in BOOLEAN : pcap_set_enabled(on)
     \/ pcap_clear

\* The request is still incomplete, or one of the kinds above.
handle_request(c, r) ==
  \/ conns' = [conns EXCEPT ![c] = r] /\ UNCHANGED capvars
  \/ conn_respond(c, r)
  \/ Download(c, r)
  \/ Command(c, r)

\* Data from the peer.  A request that fills the buffer unfinished is aborted;
\* what follows an answered request only shows that the peer is there.
http_recv(c) ==
  /\ conns[c].open
  /\ LET r == [conns[c] EXCEPT !.idle = 0, !.req = IF @ < REQ_MAX THEN @ + 1 ELSE @]
     IN \/ /\ conns[c].responded
           /\ conns' = [conns EXCEPT ![c] = r]
           /\ UNCHANGED capvars
        \/ /\ ~conns[c].responded /\ conns[c].req = REQ_MAX
           /\ conn_free(c)
        \/ /\ ~conns[c].responded /\ conns[c].req < REQ_MAX
           /\ handle_request(c, r)

\* The peer closed, or lwIP reports that the connection is gone.
Closed(c) == conns[c].open /\ conn_free(c)

\* The peer acknowledged n more.
http_sent(c, n) ==
  /\ conns[c].open /\ conns[c].responded
  /\ n > 0 /\ conns[c].acked + n <= conns[c].queued
  /\ conn_send_more(c, [conns[c] EXCEPT !.acked = @ + n, !.idle = 0])

\* The mutant counts no idle second while a response is under way.
PollNudges(c) ==
  /\ conns[c].open
  /\ LET r == [conns[c] EXCEPT !.idle = @ + 1]
     IN IF r.idle > IDLE_POLLS THEN conn_free(c)
        ELSE IF r.responded THEN conn_send_more(c, conns[c])
        ELSE conns' = [conns EXCEPT ![c] = r] /\ UNCHANGED capvars

\* The one-second poll: count an idle second, give up, or nudge the send.
http_poll(c) ==
  /\ conns[c].open
  /\ LET r == [conns[c] EXCEPT !.idle = @ + 1]
     IN IF r.idle > IDLE_POLLS THEN conn_free(c)
        ELSE IF r.responded THEN conn_send_more(c, r)
        ELSE conns' = [conns EXCEPT ![c] = r] /\ UNCHANGED capvars

\* A client of the USB link takes the first free slot, if there is one.
http_accept ==
  \E c \in Slot :
    /\ ~conns[c].open /\ \A d \in Slot : d < c => conns[d].open
    /\ conns' = [conns EXCEPT ![c] = [Free EXCEPT !.open = TRUE]]
    /\ UNCHANGED capvars

\* A frame crosses the USB link.
Frame == (\E len \in FrameLen : pcap_capture(len)) /\ UNCHANGED conns

Next ==
  \/ http_accept
  \/ Frame
  \/ \E c \in Slot : http_recv(c) \/ Closed(c) \/ http_poll(c)
  \/ \E c \in Slot, n \in 1 .. SND_BUF : http_sent(c, n)

\* lwIP's timer polls every connection it has.
Fairness == \A c \in Slot : WF_vars(http_poll(c))

Spec == Init /\ [][Next]_vars /\ Fairness

(***************************************************************************)
(* Properties.                                                             *)
(***************************************************************************)
\* Capturing is held only for a reader that exists: no early return, abort or
\* error leaves the ring frozen for good (conn_free's pcap_resume).
HeldForAReader == paused => \E c \in Slot : conns[c].open /\ conns[c].pcap_hold

\* A download reads the records the ring held when it began, in order, as long
\* as no other download ended meanwhile: neither frames, nor `pcap clear`, nor
\* `pcap on` reach the cells its segments point into.
DownloadIntact ==
  \A c \in Slot : conns[c].spans # NoSpans => Stream(ring, conns[c].spans) = conns[c].want

\* A slot is given back, whether its peer is silent, stalled, slow to
\* acknowledge or slow to ask.  The one peer that can keep it is one that goes
\* on sending after its answer without reading it: every segment counts as
\* progress.
SlotsComeBack ==
  \A c \in Slot : <>[](conns[c].open) => []<><<conns[c].responded /\ http_recv(c)>>_vars
=============================================================================
