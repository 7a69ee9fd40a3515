---------------------------- MODULE PortalProofs ----------------------------
(***************************************************************************)
(* Proofs about Portal and its Capture: the capture is held only for a     *)
(* reader, what a download streams does not change under it, and the ring  *)
(* always reads as the latest records.  What Stream reads out of the ring  *)
(* plays no part in the first two: the ring stands still while it is held. *)
(***************************************************************************)
EXTENDS Portal, Integers, FunctionTheorems, FiniteSetTheorems, TLAPS

Fields == {"open", "req", "responded", "idle", "pcap_hold", "total", "queued", "acked",
           "spans", "want"}

\* A connection's own record is whole.
Whole(r) == DOMAIN r = Fields /\ r.open \in BOOLEAN /\ r.pcap_hold \in BOOLEAN

\* What a connection's record streams is what it was promised, and is held.
Streams(r) == r.spans # NoSpans => paused /\ Stream(ring, r.spans) = r.want

\* The inductive invariant: DownloadIntact needs to know that spans are
\* remembered only while the ring is held.
PortalInv ==
  /\ DOMAIN conns = Slot /\ paused \in BOOLEAN
  /\ \A c \in Slot : Whole(conns[c]) /\ Streams(conns[c])
  /\ HeldForAReader

\* Record s is r as far as holding and streaming the ring goes.
SameHold(r, s) ==
  /\ Whole(s) /\ s.open = r.open /\ s.pcap_hold = r.pcap_hold
  /\ s.spans = r.spans /\ s.want = r.want

-----------------------------------------------------------------------------

\* A zeroed record is whole, holds nothing and streams nothing.
LEMMA FreeWhole ==
  /\ Whole(Free) /\ Whole([Free EXCEPT !.open = TRUE])
  /\ \A r \in {Free, [Free EXCEPT !.open = TRUE]} : r.spans = NoSpans /\ r.pcap_hold = FALSE
BY DEF Free, Whole, Fields

\* Init establishes the invariant.
LEMMA InitInv == Init => PortalInv
<1> SUFFICES ASSUME Init PROVE PortalInv
  OBVIOUS
<1>1. \A c \in Slot : conns[c] = Free
  BY DEF Init
<1>2. paused = FALSE /\ paused \in BOOLEAN
  BY DEF Init, CapInit
<1> QED
  BY <1>1, <1>2, FreeWhole DEF Init, PortalInv, Streams, HeldForAReader

\* A step that leaves the ring and its hold alone, and of the connections
\* changes one record's bookkeeping only, keeps the invariant.
LEMMA Bookkeeping ==
  ASSUME PortalInv, NEW c \in Slot, NEW s, SameHold(conns[c], s),
         conns' = [conns EXCEPT ![c] = s], UNCHANGED <<ring, paused>>
  PROVE  PortalInv'
<1>1. DOMAIN conns' = Slot /\ paused' \in BOOLEAN
  BY DEF PortalInv
<1>2. \A d \in Slot : SameHold(conns[d], conns'[d])
  BY DEF PortalInv, SameHold
<1>3. ASSUME NEW d \in Slot PROVE Whole(conns'[d]) /\ Streams(conns[d])'
  <2>1. SameHold(conns[d], conns'[d]) /\ Streams(conns[d])
    BY <1>2 DEF PortalInv
  <2>2. Stream(ring, conns[d].spans)' = Stream(ring, conns[d].spans)
    BY <2>1 DEF SameHold
  <2> QED
    BY <2>1, <2>2 DEF SameHold, Streams
<1>4. HeldForAReader'
  BY <1>2 DEF PortalInv, HeldForAReader, SameHold
<1> QED
  BY <1>1, <1>3, <1>4 DEF PortalInv

\* Tearing a connection down keeps it: a reader's end releases the ring, and
\* all that was remembered of it.
LEMMA Freed ==
  ASSUME PortalInv, NEW c \in Slot, conn_free(c)
  PROVE  PortalInv'
<1>1. DOMAIN conns' = Slot /\ ring' = ring
  BY DEF conn_free, ringvars
<1>2. paused' = (paused /\ ~conns[c].pcap_hold) /\ paused' \in BOOLEAN
  BY Zenon DEF conn_free
<1>3. conns'[c] = Free
  BY DEF conn_free
<1>4. CASE conns[c].pcap_hold
  <2>1. ~paused'
    BY <1>2, <1>4
  <2>2. ASSUME NEW d \in Slot PROVE Whole(conns'[d]) /\ conns'[d].spans = NoSpans
    BY <1>3, <1>4, <2>2, FreeWhole DEF conn_free, PortalInv, Whole, Fields
  <2> QED
    BY <1>1, <1>2, <2>1, <2>2 DEF PortalInv, Streams, HeldForAReader
<1>5. CASE ~conns[c].pcap_hold
  <2>1. paused' = paused
    BY <1>2, <1>5 DEF PortalInv
  <2>2. \A d \in Slot : d # c => conns'[d] = conns[d]
    BY <1>5 DEF conn_free
  <2>3. ASSUME NEW d \in Slot PROVE Whole(conns'[d]) /\ Streams(conns[d])'
    <3>1. CASE d = c
      BY <3>1, <1>3, FreeWhole DEF Streams
    <3>2. CASE d # c
      <4>1. Stream(ring, conns[d].spans)' = Stream(ring, conns[d].spans)
        BY <3>2, <2>2, <1>1
      <4> QED
        BY <3>2, <4>1, <2>1, <2>2 DEF PortalInv, Streams
    <3> QED
      BY <3>1, <3>2
  <2>4. HeldForAReader'
    BY <1>5, <2>1, <2>2 DEF PortalInv, HeldForAReader
  <2> QED
    BY <1>1, <1>2, <2>3, <2>4 DEF PortalInv
<1> QED
  BY <1>4, <1>5

\* What conn_send_more queues changes nothing else of the record.
LEMMA PushedSame ==
  ASSUME NEW r, Whole(r), NEW s \in Pushed(r)
  PROVE  SameHold(r, s)
BY DEF Pushed, Whole, Fields, SameHold

\* So sending more keeps the invariant, whether or not it ends the connection.
LEMMA SendMore ==
  ASSUME PortalInv, NEW c \in Slot, NEW r, SameHold(conns[c], r), conn_send_more(c, r)
  PROVE  PortalInv'
<1>1. PICK s \in Pushed(r) :
        IF Drained(s) THEN conn_free(c)
        ELSE conns' = [conns EXCEPT ![c] = s] /\ UNCHANGED capvars
  BY DEF conn_send_more
<1>2. CASE conn_free(c)
  BY <1>2, Freed
<1>3. CASE conns' = [conns EXCEPT ![c] = s] /\ UNCHANGED capvars
  <2>1. SameHold(conns[c], s)
    BY PushedSame DEF SameHold
  <2> QED
    BY <1>3, <2>1, Bookkeeping DEF capvars, ringvars
<1> QED
  BY <1>1, <1>2, <1>3

\* The answer to a request keeps the invariant when it is not a download.
LEMMA Answered ==
  ASSUME PortalInv, NEW c \in Slot, NEW r, SameHold(conns[c], r),
         conn_respond(c, r) \/ Command(c, r)
  PROVE  PortalInv'
<1> DEFINE Resp(n) == [r EXCEPT !.responded = TRUE, !.total = n]
<1>1. \A n : SameHold(conns[c], Resp(n))
  BY DEF SameHold, Whole, Fields
<1>2. CASE conn_respond(c, r)
  <2>1. PICK n \in RespLen : conn_send_more(c, Resp(n))
    BY <1>2 DEF conn_respond
  <2> QED
    BY <1>1, <2>1, SendMore
<1>3. CASE Command(c, r)
  <2>1. PICK n \in RespLen : \E s \in Pushed(Resp(n)) : conns' = [conns EXCEPT ![c] = s]
    BY <1>3 DEF Command
  <2>2. PICK s \in Pushed(Resp(n)) : conns' = [conns EXCEPT ![c] = s]
    BY <2>1
  <2>3. SameHold(conns[c], s)
    <3>1. SameHold(conns[c], Resp(n))
      BY <1>1
    <3>2. SameHold(Resp(n), s)
      <4> HIDE DEF Resp
      <4> QED
        BY <3>1, PushedSame DEF SameHold
    <3> HIDE DEF Resp
    <3> QED
      BY <3>1, <3>2 DEF SameHold
  <2>4. UNCHANGED <<ring, paused>>
    BY <1>3 DEF Command, pcap_set_enabled, pcap_clear, ringvars
  <2> QED
    BY <2>2, <2>3, <2>4, Bookkeeping
<1> QED
  BY <1>2, <1>3

\* A download begins: the ring is held, and stands as the reader was promised.
LEMMA Downloads ==
  ASSUME PortalInv, NEW c \in Slot, NEW r, SameHold(conns[c], r), r.open, Download(c, r)
  PROVE  PortalInv'
<1>1. PICK d \in Capturing(r) : \E s \in Pushed(d) : conns' = [conns EXCEPT ![c] = s]
  BY DEF Download
<1>2. PICK s \in Pushed(d) : conns' = [conns EXCEPT ![c] = s]
  BY <1>1
<1>3. Whole(d) /\ d.open = r.open /\ d.pcap_hold = TRUE /\ d.want = Stream(ring, d.spans)
  BY DEF Capturing, SameHold, Whole, Fields
<1>4. Whole(s) /\ s.open /\ s.pcap_hold /\ s.want = Stream(ring, s.spans)
  BY <1>3, PushedSame DEF SameHold
<1>5. ring' = ring /\ paused' = TRUE /\ paused' \in BOOLEAN
  BY DEF Download, ringvars
<1>6. DOMAIN conns' = Slot /\ conns'[c] = s /\ \A e \in Slot : e # c => conns'[e] = conns[e]
  BY <1>2 DEF PortalInv
<1>7. ASSUME NEW e \in Slot PROVE Whole(conns'[e]) /\ Streams(conns[e])'
  <2>1. CASE e = c
    <3>1. Stream(ring, conns[e].spans)' = Stream(ring, s.spans)
      BY <2>1, <1>5, <1>6
    <3> QED
      BY <2>1, <3>1, <1>4, <1>5, <1>6 DEF Streams
  <2>2. CASE e # c
    <3>1. Stream(ring, conns[e].spans)' = Stream(ring, conns[e].spans)
      BY <2>2, <1>5, <1>6
    <3> QED
      BY <2>2, <3>1, <1>5, <1>6 DEF PortalInv, Streams
  <2> QED
    BY <2>1, <2>2
<1>8. HeldForAReader'
  BY <1>4, <1>6 DEF HeldForAReader
<1> QED
  BY <1>5, <1>6, <1>7, <1>8 DEF PortalInv

-----------------------------------------------------------------------------

\* Data from the peer.
LEMMA RecvKeeps ==
  ASSUME PortalInv, NEW c \in Slot, http_recv(c)
  PROVE  PortalInv'
<1> DEFINE r == [conns[c] EXCEPT !.idle = 0, !.req = IF @ < REQ_MAX THEN @ + 1 ELSE @]
<1>1. SameHold(conns[c], r) /\ r.open
  BY DEF PortalInv, SameHold, Whole, Fields, http_recv
<1> HIDE DEF r
<1>2. CASE conns' = [conns EXCEPT ![c] = r] /\ UNCHANGED capvars
  BY <1>1, <1>2, Bookkeeping DEF capvars, ringvars
<1>3. CASE conn_free(c)
  BY <1>3, Freed
<1>4. CASE handle_request(c, r)
  <2>1. CASE conns' = [conns EXCEPT ![c] = r] /\ UNCHANGED capvars
    BY <1>1, <2>1, Bookkeeping DEF capvars, ringvars
  <2>2. CASE conn_respond(c, r) \/ Command(c, r)
    BY <1>1, <2>2, Answered
  <2>3. CASE Download(c, r)
    BY <1>1, <2>3, Downloads
  <2> QED
    BY <1>4, <2>1, <2>2, <2>3 DEF handle_request
<1> QED
  BY <1>2, <1>3, <1>4 DEF http_recv, r

\* An acknowledgement.
LEMMA SentKeeps ==
  ASSUME PortalInv, NEW c \in Slot, NEW n \in 1 .. SND_BUF, http_sent(c, n)
  PROVE  PortalInv'
<1> DEFINE r == [conns[c] EXCEPT !.acked = @ + n, !.idle = 0]
<1>1. SameHold(conns[c], r)
  BY DEF PortalInv, SameHold, Whole, Fields
<1>2. conn_send_more(c, r)
  BY DEF http_sent
<1> QED
  BY <1>1, <1>2, SendMore

\* The one-second poll.
LEMMA PollKeeps ==
  ASSUME PortalInv, NEW c \in Slot, http_poll(c)
  PROVE  PortalInv'
<1> DEFINE r == [conns[c] EXCEPT !.idle = @ + 1]
<1>1. SameHold(conns[c], r)
  BY DEF PortalInv, SameHold, Whole, Fields
<1>2. CASE conn_free(c)
  BY <1>2, Freed
<1>3. CASE conn_send_more(c, r)
  BY <1>1, <1>3, SendMore
<1>4. CASE conns' = [conns EXCEPT ![c] = r] /\ UNCHANGED capvars
  BY <1>1, <1>4, Bookkeeping DEF capvars, ringvars
<1> QED
  BY <1>2, <1>3, <1>4 DEF http_poll

\* A client is accepted into a free slot, which holds nothing.
LEMMA AcceptKeeps ==
  ASSUME PortalInv, http_accept
  PROVE  PortalInv'
<1> DEFINE s == [Free EXCEPT !.open = TRUE]
<1>1. PICK c \in Slot : ~conns[c].open /\ conns' = [conns EXCEPT ![c] = s]
  BY DEF http_accept
<1>2. ring' = ring /\ paused' = paused
  BY DEF http_accept, capvars, ringvars
<1>3. Whole(s) /\ s.spans = NoSpans
  BY FreeWhole
<1> HIDE DEF s
<1>4. DOMAIN conns' = Slot /\ conns'[c] = s /\ \A e \in Slot : e # c => conns'[e] = conns[e]
  BY <1>1 DEF PortalInv
<1>5. ASSUME NEW e \in Slot PROVE Whole(conns'[e]) /\ Streams(conns[e])'
  <2>1. CASE e = c
    BY <2>1, <1>3, <1>4 DEF Streams
  <2>2. CASE e # c
    <3>1. Stream(ring, conns[e].spans)' = Stream(ring, conns[e].spans)
      BY <2>2, <1>2, <1>4
    <3> QED
      BY <2>2, <3>1, <1>2, <1>4 DEF PortalInv, Streams
  <2> QED
    BY <2>1, <2>2
<1>6. HeldForAReader'
  BY <1>1, <1>2, <1>4 DEF PortalInv, HeldForAReader
<1> QED
  BY <1>2, <1>4, <1>5, <1>6 DEF PortalInv

\* A frame is captured only while nobody streams the ring.
LEMMA FrameKeeps ==
  ASSUME PortalInv, Frame
  PROVE  PortalInv'
<1>1. paused' = paused /\ ~paused /\ conns' = conns
  BY DEF Frame, pcap_capture
<1>2. \A c \in Slot : conns[c].spans = NoSpans
  BY <1>1 DEF PortalInv, Streams
<1> QED
  BY <1>1, <1>2 DEF PortalInv, Streams, HeldForAReader

\* Every step keeps the invariant.
LEMMA StepKeeps == PortalInv /\ [Next]_vars => PortalInv'
<1> SUFFICES ASSUME PortalInv, [Next]_vars PROVE PortalInv'
  OBVIOUS
<1>1. CASE http_accept
  BY <1>1, AcceptKeeps
<1>2. CASE Frame
  BY <1>2, FrameKeeps
<1>3. CASE \E c \in Slot : http_recv(c) \/ Closed(c) \/ http_poll(c)
  BY <1>3, RecvKeeps, Freed, PollKeeps DEF Closed
<1>4. CASE \E c \in Slot, n \in 1 .. SND_BUF : http_sent(c, n)
  BY <1>4, SentKeeps
<1>5. CASE UNCHANGED vars
  <2>1. UNCHANGED <<ring, paused, conns>>
    BY <1>5 DEF vars, capvars, ringvars
  <2>2. \A c \in Slot : Stream(ring, conns[c].spans)' = Stream(ring, conns[c].spans)
    BY <2>1
  <2> QED
    BY <2>1, <2>2 DEF PortalInv, Streams, HeldForAReader
<1> QED
  BY <1>1, <1>2, <1>3, <1>4, <1>5 DEF Next

\* The invariant always holds.
LEMMA Invariant == Spec => []PortalInv
BY InitInv, StepKeeps, PTL DEF Spec

\* The capture is never left frozen without a reader, whatever way the
\* connections end (conn_free), for any number of slots and any ring.
THEOREM AlwaysHeldForAReader == Spec => []HeldForAReader
<1>1. PortalInv => HeldForAReader
  BY DEF PortalInv
<1> QED
  BY <1>1, Invariant, PTL

\* What a download streams is what the ring held when it began, as long as no
\* other download let capturing go on.
THEOREM AlwaysDownloadIntact == Spec => []DownloadIntact
<1>1. PortalInv => DownloadIntact
  BY DEF PortalInv, Streams, DownloadIntact
<1> QED
  BY <1>1, Invariant, PTL

-----------------------------------------------------------------------------
(***************************************************************************)
(* The capture ring of pcap.c.  A tiling says which records lie in a       *)
(* stretch of cells and where each starts; RingInv, that the ring is one   *)
(* or two of them with consecutive records.  The recursive functions of    *)
(* Capture look further up the ring at each call, so there are functions   *)
(* that satisfy their equations (Descends), and on a tiling the reader     *)
(* finds its records (ParseTiled) and the eviction one of its boundaries   *)
(* (EvictTiled).                                                           *)
(***************************************************************************)

\* Induction on the naturals for a set, from the pigeonhole principle: below a
\* number it lacks, the successor would be an injection of a finite set into
\* itself that misses 0.
LEMMA Climb ==
  ASSUME NEW G, 0 \in G, \A i \in Nat : i \in G => i + 1 \in G
  PROVE  \A m \in Nat : m \in G
<1> SUFFICES ASSUME NEW m \in Nat, m \notin G PROVE FALSE
  OBVIOUS
<1> DEFINE T == {i \in 0 .. m : i < m /\ i \in G}
           f == [i \in T |-> i + 1]
<1>1. IsFiniteSet(T)
  BY FS_Interval, FS_Subset, m \in Int, 0 \in Int, T \subseteq 0 .. m
<1>2. \A i \in T : i + 1 \in T /\ i \in Nat
  OBVIOUS
<1>3. f \in Injection(T, T)
  BY <1>2 DEF Injection, IsInjective
<1>4. f \in Surjection(T, T)
  BY <1>1, <1>3, FS_Injection
<1>5. 0 \in T
  OBVIOUS
<1>6. PICK i \in T : f[i] = 0
  BY <1>4, <1>5 DEF Surjection
<1> QED BY <1>2, <1>6

\* f is a function from 0 .. N to V that satisfies a recursive equation, whose
\* calls only look further up.
Upward(done, jump, N) == \A t \in 0 .. N : ~done[t] => jump[t] \in t + 1 .. N
Solves(f, done, val, comb, jump, N, V) ==
  /\ f \in [0 .. N -> V]
  /\ \A t \in 0 .. N : f[t] = IF done[t] THEN val[t] ELSE comb[t][f[jump[t]]]

\* A recursion that only ever looks further up an interval has a solution.
LEMMA Descends ==
  ASSUME NEW N \in Nat, NEW V, NEW done, NEW val \in [0 .. N -> V], NEW jump,
         NEW comb \in [0 .. N -> [V -> V]],
         Upward(done, jump, N)
  PROVE  \E f : Solves(f, done, val, comb, jump, N, V)
<1> USE DEF Upward
<1> DEFINE Eq(f, t) == f[t] = IF done[t] THEN val[t] ELSE comb[t][f[jump[t]]]
           G == {k \in Nat : \E f \in [0 .. N -> V] : \A t \in 0 .. N : t + k > N => Eq(f, t)}
<1>1. 0 \in G
  <2>1. \A t \in 0 .. N : ~(t + 0 > N)
    OBVIOUS
  <2> QED BY <2>1
<1>2. ASSUME NEW k \in Nat, k \in G PROVE k + 1 \in G
  <2>1. PICK f \in [0 .. N -> V] : \A t \in 0 .. N : t + k > N => Eq(f, t)
    BY <1>2
  <2>2. CASE k > N
    <3>1. \A t \in 0 .. N : t + k > N
      BY <2>2
    <3>2. \A t \in 0 .. N : Eq(f, t)
      BY <2>1, <3>1
    <3> HIDE DEF Eq
    <3> QED BY <3>2, k + 1 \in Nat
  <2>3. CASE ~(k > N)
    <3>1. PICK u \in 0 .. N : u = N - k
      BY <2>3
    <3>2. PICK e : e = IF done[u] THEN val[u] ELSE comb[u][f[jump[u]]]
      OBVIOUS
    <3>3. e \in V
      <4>1. CASE done[u]
        BY <3>2, <4>1
      <4>2. CASE ~done[u]
        <5>1. jump[u] \in 0 .. N
          BY <4>2
        <5>2. f[jump[u]] \in V /\ comb[u] \in [V -> V]
          BY <5>1
        <5> QED BY <3>2, <4>2, <5>2
      <4> QED BY <4>1, <4>2
    <3>4. PICK g : g = [f EXCEPT ![u] = e]
      OBVIOUS
    <3>5. g \in [0 .. N -> V] /\ g[u] = e /\ \A t \in 0 .. N : t # u => g[t] = f[t]
      BY <3>3, <3>4
    <3>6. ASSUME NEW t \in 0 .. N, t >= u, ~done[t] PROVE jump[t] \in 0 .. N /\ jump[t] # u
      <4>1. jump[t] \in t + 1 .. N
        BY <3>6
      <4> QED BY <3>6, <4>1
    <3>7. ASSUME NEW t \in 0 .. N, t >= u PROVE Eq(g, t)
      <4>1. ~done[t] => g[jump[t]] = f[jump[t]]
        BY <3>5, <3>6, <3>7
      <4>2. CASE t = u
        BY <3>2, <3>5, <4>1, <4>2
      <4>3. CASE t # u
        <5>1. t + k > N
          BY <3>1, <3>7, <4>3
        <5>2. Eq(f, t) /\ g[t] = f[t]
          BY <2>1, <3>5, <4>3, <5>1
        <5> QED BY <4>1, <5>2
      <4> QED BY <4>2, <4>3
    <3>8. \A t \in 0 .. N : t + (k + 1) > N => t >= u
      BY <3>1
    <3> HIDE DEF Eq
    <3>9. \A t \in 0 .. N : t + (k + 1) > N => Eq(g, t)
      BY <3>7, <3>8
    <3> QED BY <3>5, <3>9, k + 1 \in Nat
  <2> QED BY <2>2, <2>3
<1> HIDE DEF G
<1>3. N + 1 \in G
  BY <1>1, <1>2, Climb
<1>4. PICK f \in [0 .. N -> V] : \A t \in 0 .. N : t + (N + 1) > N => Eq(f, t)
  BY <1>3 DEF G
<1>5. \A t \in 0 .. N : t + (N + 1) > N
  OBVIOUS
<1>6. \A t \in 0 .. N : Eq(f, t)
  BY <1>4, <1>5
<1> QED BY <1>6 DEF Solves

-----------------------------------------------------------------------------
\* Cells are what they should be, and a record's take up room.
Ringed(r) ==
  /\ r \in [Cells -> [id: Nat, at: Nat, len: Nat]]
  /\ \A c \in Cells : r[c].id # 0 => r[c].len # 0

\* Where the eviction comes to rest satisfies the loop's own equation.
LEMMA EvictDef ==
  ASSUME Ringed(ring), NEW start, NEW from \in Nat, NEW need \in Nat, NEW top \in 0 .. RING_SIZE
  PROVE  \E f : /\ evict(start, from, need, top) = f[start]
                /\ \A t \in Cells :
                     f[t] = IF t >= from + need \/ t + ring[t].len <= from
                            THEN [tail |-> t, emptied |-> FALSE]
                            ELSE IF t + ring[t].len >= top THEN [tail |-> 0, emptied |-> TRUE]
                            ELSE f[t + ring[t].len]
<1> DEFINE Stop(t) == t >= from + need \/ t + ring[t].len <= from
           Rest(t) == [tail |-> t, emptied |-> FALSE]
           Gone == [tail |-> 0, emptied |-> TRUE]
           E(f) == [t \in Cells |-> IF Stop(t) THEN Rest(t)
                                    ELSE IF t + ring[t].len >= top THEN Gone
                                    ELSE f[t + ring[t].len]]
           h == CHOOSE f : f = E(f)
           V == [tail: Cells, emptied: BOOLEAN]
           done == [t \in Cells |-> Stop(t) \/ t + ring[t].len >= top \/ ring[t].len = 0]
           val == [t \in Cells |-> IF Stop(t) THEN Rest(t) ELSE Gone]
           jump == [t \in Cells |-> t + ring[t].len]
           same == [t \in Cells |-> [v \in V |-> v]]
<1>0. RING_SIZE \in Nat /\ RING_SIZE > 0 /\ Cells = 0 .. RING_SIZE - 1 /\ RING_SIZE - 1 \in Nat
  BY RingFits DEF Cells
<1>1. evict(start, from, need, top) = h[start]
  BY DEF evict, rec_len_at
<1>2. \A t \in Cells : ring[t].len \in Nat /\ t \in Nat
  BY <1>0 DEF Ringed
<1>3. val \in [Cells -> V] /\ same \in [Cells -> [V -> V]]
  <2>1. 0 \in Cells
    BY <1>0
  <2>2. Gone \in V /\ \A t \in Cells : Rest(t) \in V
    BY <2>1
  <2> QED BY <2>2
<1>4. ASSUME NEW t \in Cells, ~done[t] PROVE jump[t] \in t + 1 .. RING_SIZE - 1
  <2>1. ring[t].len # 0 /\ ~(t + ring[t].len >= top) /\ jump[t] = t + ring[t].len
    BY <1>4
  <2> QED BY <1>0, <1>2, <2>1
<1>5. \A t \in Cells : /\ done[t] <=> (Stop(t) \/ t + ring[t].len >= top \/ ring[t].len = 0)
                       /\ jump[t] = t + ring[t].len
                       /\ val[t] = IF Stop(t) THEN Rest(t) ELSE Gone
                       /\ \A v \in V : same[t][v] = v
  OBVIOUS
<1> HIDE DEF done, val, jump, same, V
<1>6. PICK g \in [Cells -> V] :
        \A t \in Cells : g[t] = IF done[t] THEN val[t] ELSE same[t][g[jump[t]]]
  <2>1. PICK N \in Nat : N = RING_SIZE - 1 /\ Cells = 0 .. N
    BY <1>0
  <2>2. val \in [0 .. N -> V] /\ same \in [0 .. N -> [V -> V]]
    BY <1>3, <2>1
  <2>3. Upward(done, jump, N)
    BY <1>4, <2>1 DEF Upward
  <2>4. \E g : Solves(g, done, val, same, jump, N, V)
    BY <2>2, <2>3, Descends, Zenon
  <2> QED BY <2>1, <2>4 DEF Solves
<1>7. g = E(g)
  <2>1. ASSUME NEW t \in Cells
        PROVE  g[t] = IF Stop(t) THEN Rest(t) ELSE IF t + ring[t].len >= top THEN Gone
                      ELSE g[t + ring[t].len]
    <3>1. CASE Stop(t)
      BY <1>5, <1>6, <3>1
    <3>2. CASE ~Stop(t) /\ t + ring[t].len >= top
      BY <1>5, <1>6, <3>2
    <3>3. CASE ~Stop(t) /\ ~(t + ring[t].len >= top) /\ ring[t].len = 0
      <4>1. t + ring[t].len = t
        BY <1>2, <3>3
      <4> QED BY <3>3, <4>1
    <3>4. CASE ~Stop(t) /\ ~(t + ring[t].len >= top) /\ ring[t].len # 0
      <4>1. ~done[t] /\ jump[t] = t + ring[t].len
        BY <1>5, <3>4
      <4>2. jump[t] \in Cells
        BY <1>0, <1>2, <1>4, <4>1
      <4>3. g[jump[t]] \in V
        BY <4>2
      <4>4. g[t] = g[jump[t]]
        BY <1>5, <1>6, <4>1, <4>3
      <4> QED BY <3>4, <4>1, <4>4
    <3> QED BY <3>1, <3>2, <3>3, <3>4
  <2>2. g = [t \in Cells |-> g[t]]
    OBVIOUS
  <2> QED BY <2>1, <2>2
<1>8. h = E(h)
  BY <1>7
<1> HIDE DEF h
<1>9. \A t \in Cells : h[t] = E(h)[t]
  BY <1>8
<1> QED BY <1>1, <1>9

\* The parse of a span satisfies the reader's equation.
LEMMA ParseDef ==
  ASSUME NEW r, Ringed(r), NEW span, span.from \in Nat, span.len \in Nat,
         NEW b \in Nat, b = span.from + span.len
  PROVE  \E f : /\ Parse(r, span) = f[span.from]
                /\ \A c \in 0 .. RING_SIZE :
                     f[c] = IF c >= b THEN IF c = b THEN <<>> ELSE <<0>>
                            ELSE IF c \notin Cells \/ ~RecordAt(r, c) THEN <<0>>
                            ELSE <<r[c].id>> \o f[c + r[c].len]
<1> DEFINE R == 0 .. RING_SIZE
           Bad(c) == c \notin Cells \/ ~RecordAt(r, c)
           end == span.from + span.len
           E(f) == [c \in R |-> IF c >= end THEN IF c = end THEN <<>> ELSE <<0>>
                                ELSE IF Bad(c) THEN <<0>>
                                ELSE <<r[c].id>> \o f[c + r[c].len]]
           h == CHOOSE f : f = E(f)
           V == Seq(Nat)
           done == [c \in R |-> c >= b \/ Bad(c)]
           val == [c \in R |-> IF c = b THEN <<>> ELSE <<0>>]
           jump == [c \in R |-> c + r[c].len]
           glue == [c \in R |-> [v \in V |-> IF c \in Cells THEN <<r[c].id>> \o v ELSE v]]
<1>0. RING_SIZE \in Nat /\ RING_SIZE > 0 /\ Cells = 0 .. RING_SIZE - 1
  BY RingFits DEF Cells
<1>1. Parse(r, span) = h[span.from]
  BY DEF Parse
<1>a. end = b
  OBVIOUS
<1> HIDE DEF end
<1>2. \A c \in Cells : r[c].len \in Nat /\ r[c].id \in Nat /\ c \in Nat
  BY <1>0 DEF Ringed
<1>3. val \in [R -> V] /\ glue \in [R -> [V -> V]]
  <2>1. <<>> \in V /\ <<0>> \in V
    OBVIOUS
  <2>2. ASSUME NEW c \in R, NEW v \in V PROVE (IF c \in Cells THEN <<r[c].id>> \o v ELSE v) \in V
    <3>1. CASE c \in Cells
      <4>1. PICK n \in Nat : n = r[c].id
        BY <1>2, <3>1
      <4>2. <<n>> \in Seq(Nat)
        OBVIOUS
      <4>3. <<n>> \o v \in Seq(Nat)
        BY <4>2
      <4> QED BY <3>1, <4>1, <4>3
    <3>2. CASE c \notin Cells
      BY <3>2
    <3> QED BY <3>1, <3>2
  <2> HIDE DEF V
  <2> QED BY <2>1, <2>2
<1>4. ASSUME NEW c \in R, ~done[c] PROVE c \in Cells /\ jump[c] \in c + 1 .. RING_SIZE
  <2>1. c \in Cells /\ RecordAt(r, c) /\ jump[c] = c + r[c].len
    BY <1>4
  <2>2. r[c].len \in Nat \ {0}
    BY <1>2, <2>1 DEF RecordAt, Ringed
  <2>3. PICK n \in Nat \ {0} : n = r[c].len
    BY <2>2
  <2>4. n - 1 \in 0 .. n - 1
    OBVIOUS
  <2>5. c + (n - 1) \in Cells
    BY <2>1, <2>3, <2>4 DEF RecordAt
  <2>6. c \in Nat /\ c + n <= RING_SIZE
    BY <1>0, <2>1, <2>5
  <2> QED BY <1>0, <2>1, <2>3, <2>6
<1>5. \A c \in R : /\ done[c] <=> (c >= b \/ Bad(c))
                   /\ jump[c] = c + r[c].len
                   /\ val[c] = IF c = b THEN <<>> ELSE <<0>>
                   /\ \A v \in V : c \in Cells => glue[c][v] = <<r[c].id>> \o v
  OBVIOUS
<1>6. Upward(done, jump, RING_SIZE)
  BY <1>4 DEF Upward
<1> HIDE DEF done, val, jump, glue, V
<1>7. PICK g : Solves(g, done, val, glue, jump, RING_SIZE, V)
  BY <1>0, <1>3, <1>6, Descends
<1>8. g = E(g)
  <2>1. ASSUME NEW c \in R
        PROVE  g[c] = IF c >= end THEN IF c = end THEN <<>> ELSE <<0>>
                      ELSE IF Bad(c) THEN <<0>>
                      ELSE <<r[c].id>> \o g[c + r[c].len]
    <3> HIDE DEF Bad
    <3>0. g[c] = IF done[c] THEN val[c] ELSE glue[c][g[jump[c]]]
      BY <1>7 DEF Solves
    <3>1. CASE c >= b
      BY <1>a, <1>5, <3>0, <3>1
    <3>2. CASE ~(c >= b) /\ Bad(c)
      <4>1. c # b
        BY <3>2
      <4> QED BY <1>a, <1>5, <3>0, <3>2, <4>1
    <3>3. CASE ~(c >= b) /\ ~Bad(c)
      <4>1. ~done[c] /\ jump[c] = c + r[c].len
        BY <1>5, <3>3
      <4>2. jump[c] \in R /\ c \in Cells
        BY <1>0, <1>4, <4>1
      <4>3. g[jump[c]] \in V
        BY <1>7, <4>2 DEF Solves
      <4>4. g[c] = <<r[c].id>> \o g[jump[c]]
        BY <1>5, <3>0, <4>1, <4>2, <4>3
      <4> QED BY <1>a, <3>3, <4>1, <4>4
    <3> QED BY <1>a, <3>1, <3>2, <3>3
  <2>2. g = [c \in R |-> g[c]]
    BY <1>7 DEF Solves
  <2> QED BY <2>1, <2>2
<1>9. h = E(h)
  BY <1>8
<1> HIDE DEF h
<1>10. \A c \in R : h[c] = E(h)[c]
  BY <1>9
<1> QED BY <1>a, <1>1, <1>10

-----------------------------------------------------------------------------
(* Tilings.                                                                *)

\* The cells from a up to b hold the records lo + 1 .. hi, one after the other;
\* s says where each of them starts, the next one behind the last included.
Tiles(r, s, a, b, lo, hi) ==
  /\ lo \in Nat /\ hi \in Nat /\ lo <= hi
  /\ s \in [lo .. hi -> 0 .. RING_SIZE] /\ s[lo] = a /\ s[hi] = b
  /\ \A i, j \in lo .. hi : i < j => s[i] < s[j]
  /\ \A i \in lo .. hi - 1 : \A c \in s[i] .. s[i + 1] - 1 :
       r[c] = [id |-> i + 1, at |-> c - s[i], len |-> s[i + 1] - s[i]]

Tiled(r, a, b, lo, hi) == \E s : Tiles(r, s, a, b, lo, hi)

\* Nothing is tiled by no records.
LEMMA TiledEmpty ==
  ASSUME NEW r, NEW a \in 0 .. RING_SIZE, NEW k \in Nat
  PROVE  Tiled(r, a, a, k, k)
<1> DEFINE s == [i \in k .. k |-> a]
<1>1. k .. k = {k} /\ k .. k - 1 = {}
  OBVIOUS
<1>2. Tiles(r, s, a, a, k, k)
  BY <1>1 DEF Tiles
<1> QED BY <1>2 DEF Tiled

\* What is written elsewhere leaves a tiling alone.
LEMMA TiledKept ==
  ASSUME NEW r, NEW q, NEW a \in Nat, NEW b \in Nat, NEW lo, NEW hi, Tiled(r, a, b, lo, hi),
         \A c \in a .. b - 1 : q[c] = r[c]
  PROVE  Tiled(q, a, b, lo, hi)
<1>1. PICK s : Tiles(r, s, a, b, lo, hi)
  BY DEF Tiled
<1>2. ASSUME NEW i \in lo .. hi - 1, NEW c \in s[i] .. s[i + 1] - 1
      PROVE  q[c] = [id |-> i + 1, at |-> c - s[i], len |-> s[i + 1] - s[i]]
  <2>1. lo \in Nat /\ hi \in Nat /\ i \in lo .. hi /\ i + 1 \in lo .. hi /\ lo \in lo .. hi /\ hi \in lo .. hi
    BY <1>1 DEF Tiles
  <2>2. s[i] \in Nat /\ s[i + 1] \in Nat
    BY <1>1, <2>1 DEF Tiles
  <2>3. a <= s[i]
    <3>1. CASE lo = i
      BY <1>1, <2>2, <3>1 DEF Tiles
    <3>2. CASE lo < i
      BY <1>1, <2>1, <2>2, <3>2 DEF Tiles
    <3> QED BY <2>1, <3>1, <3>2
  <2>4. s[i + 1] <= b
    <3>1. CASE i + 1 = hi
      BY <1>1, <2>2, <3>1 DEF Tiles
    <3>2. CASE i + 1 < hi
      BY <1>1, <2>1, <2>2, <3>2 DEF Tiles
    <3> QED BY <2>1, <3>1, <3>2
  <2>5. c \in a .. b - 1
    BY <2>2, <2>3, <2>4
  <2> QED BY <1>1, <2>5 DEF Tiles
<1>3. Tiles(q, s, a, b, lo, hi)
  BY <1>1, <1>2 DEF Tiles
<1> QED BY <1>3 DEF Tiled

\* The ring q is r from a to b, with record hi + 1 of n cells from b on.
Follows(r, q, a, b, hi, n) ==
  /\ \A c \in a .. b - 1 : q[c] = r[c]
  /\ \A c \in b .. (b + n) - 1 : q[c] = [id |-> hi + 1, at |-> c - b, len |-> n]

\* A record behind the last one extends a tiling.
LEMMA TiledMore ==
  ASSUME NEW r, NEW q, NEW a \in Nat, NEW b \in Nat, NEW lo, NEW hi, Tiled(r, a, b, lo, hi),
         NEW n \in Nat \ {0}, b + n <= RING_SIZE, Follows(r, q, a, b, hi, n)
  PROVE  Tiled(q, a, b + n, lo, hi + 1)
<1> USE DEF Follows
<1>0. Tiled(q, a, b, lo, hi)
  BY TiledKept
<1>1. PICK s : Tiles(q, s, a, b, lo, hi)
  BY <1>0 DEF Tiled
<1>2. lo \in Nat /\ hi \in Nat /\ lo <= hi /\ s \in [lo .. hi -> 0 .. RING_SIZE] /\ s[lo] = a /\ s[hi] = b
  BY <1>1 DEF Tiles
<1>3. RING_SIZE \in Nat
  BY RingFits
<1>4. PICK u : u = [i \in lo .. hi + 1 |-> IF i = hi + 1 THEN b + n ELSE s[i]]
  OBVIOUS
<1>5. u[hi + 1] = b + n /\ \A i \in lo .. hi : u[i] = s[i]
  BY <1>2, <1>4
<1>6. u \in [lo .. hi + 1 -> 0 .. RING_SIZE]
  <2>1. \A i \in lo .. hi + 1 : i = hi + 1 \/ i \in lo .. hi
    BY <1>2
  <2>2. b + n \in 0 .. RING_SIZE
    BY <1>3
  <2> QED BY <1>2, <1>4, <2>1, <2>2
<1>7. \A i \in lo .. hi : s[i] <= b /\ s[i] \in Nat
  <2> SUFFICES ASSUME NEW i \in lo .. hi PROVE s[i] <= b /\ s[i] \in Nat
    OBVIOUS
  <2>1. s[i] \in Nat /\ hi \in lo .. hi
    BY <1>2, <1>3
  <2>2. CASE i = hi
    BY <1>2, <2>1, <2>2
  <2>3. CASE i < hi
    BY <1>1, <1>2, <2>1, <2>3 DEF Tiles
  <2> QED BY <1>2, <2>1, <2>2, <2>3
<1>8. ASSUME NEW i \in lo .. hi + 1, NEW j \in lo .. hi + 1, i < j PROVE u[i] < u[j]
  <2>1. i \in lo .. hi
    BY <1>2, <1>8
  <2>2. CASE j = hi + 1
    BY <1>5, <1>7, <2>1, <2>2
  <2>3. CASE j # hi + 1
    <3>1. j \in lo .. hi
      BY <1>2, <2>3
    <3> QED BY <1>1, <1>5, <1>8, <2>1, <3>1 DEF Tiles
  <2> QED BY <2>2, <2>3
<1>9. ASSUME NEW i \in lo .. hi, NEW c \in u[i] .. u[i + 1] - 1
      PROVE  q[c] = [id |-> i + 1, at |-> c - u[i], len |-> u[i + 1] - u[i]]
  <2>1. CASE i = hi
    <3>1. u[i] = b /\ u[i + 1] = b + n /\ (b + n) - b = n
      BY <1>2, <1>5, <2>1
    <3> QED BY <2>1, <3>1
  <2>2. CASE i # hi
    <3>1. i \in lo .. hi - 1 /\ i + 1 \in lo .. hi
      BY <1>2, <2>2
    <3>2. u[i] = s[i] /\ u[i + 1] = s[i + 1]
      BY <1>5, <3>1
    <3> QED BY <1>1, <3>1, <3>2 DEF Tiles
  <2> QED BY <2>1, <2>2
<1>10. hi + 1 \in Nat /\ lo <= hi + 1 /\ u[lo] = a /\ (hi + 1) - 1 = hi
  BY <1>2, <1>5
<1>11. Tiles(q, u, a, b + n, lo, hi + 1)
  BY <1>2, <1>5, <1>6, <1>8, <1>9, <1>10 DEF Tiles
<1> QED BY <1>11 DEF Tiled

\* From the start of one of its records on it is a tiling too.
LEMMA TiledFrom ==
  ASSUME NEW r, NEW s, NEW a, NEW b, NEW lo, NEW hi, Tiles(r, s, a, b, lo, hi), NEW j \in lo .. hi
  PROVE  Tiled(r, s[j], b, j, hi)
<1>1. lo \in Nat /\ hi \in Nat /\ lo <= hi /\ s \in [lo .. hi -> 0 .. RING_SIZE] /\ s[hi] = b
  BY DEF Tiles
<1>2. PICK u : u = [i \in j .. hi |-> s[i]]
  OBVIOUS
<1>3. j \in Nat /\ j <= hi /\ j \in j .. hi /\ hi \in j .. hi
      /\ (\A i \in j .. hi : i \in lo .. hi) /\ (\A i \in j .. hi - 1 : i \in lo .. hi - 1 /\ i \in j .. hi /\ i + 1 \in j .. hi)
  BY <1>1
<1>4. \A i \in j .. hi : u[i] = s[i]
  BY <1>2
<1>5. u \in [j .. hi -> 0 .. RING_SIZE]
  BY <1>1, <1>2, <1>3
<1>6. Tiles(r, u, s[j], b, j, hi)
  BY <1>1, <1>3, <1>4, <1>5 DEF Tiles
<1> QED BY <1>6 DEF Tiled

\* A tile is a whole record, and the next one starts behind it.
LEMMA TileRecord ==
  ASSUME NEW r, Ringed(r), NEW s, NEW a, NEW b, NEW lo, NEW hi, Tiles(r, s, a, b, lo, hi),
         NEW i \in lo .. hi - 1
  PROVE  /\ s[i] \in Cells /\ s[i] < b /\ i + 1 \in lo .. hi
         /\ r[s[i]].id = i + 1 /\ s[i] + r[s[i]].len = s[i + 1] /\ RecordAt(r, s[i])
<1>1. lo \in Nat /\ hi \in Nat /\ i \in lo .. hi /\ i + 1 \in lo .. hi /\ i < i + 1 /\ hi \in lo .. hi /\ i < hi
  BY DEF Tiles
<1>2. RING_SIZE \in Nat /\ Cells = 0 .. RING_SIZE - 1
  BY RingFits DEF Cells
<1>3. s[i] \in 0 .. RING_SIZE /\ s[i + 1] \in 0 .. RING_SIZE /\ s[i] < s[i + 1] /\ s[i] < b
  BY <1>1 DEF Tiles
<1>4. PICK p \in Nat : p = s[i]
  BY <1>2, <1>3
<1>5. PICK e \in Nat : e = s[i + 1]
  BY <1>2, <1>3
<1>6. PICK n \in Nat \ {0} : n = e - p
  BY <1>3, <1>4, <1>5
<1>7. \A c \in p .. e - 1 : r[c] = [id |-> i + 1, at |-> c - p, len |-> n]
  BY <1>4, <1>5, <1>6 DEF Tiles
<1>8. p \in p .. e - 1 /\ p - p = 0 /\ p + n = e /\ e <= RING_SIZE
  BY <1>3, <1>4, <1>5, <1>6
<1>9. r[p] = [id |-> i + 1, at |-> 0, len |-> n]
  BY <1>7, <1>8
<1>10. ASSUME NEW k \in 0 .. n - 1 PROVE p + k \in Cells /\ r[p + k] = [r[p] EXCEPT !.at = k]
  <2>1. p + k \in p .. e - 1 /\ (p + k) - p = k /\ p + k \in Cells
    BY <1>2, <1>8
  <2>2. r[p + k] = [id |-> i + 1, at |-> k, len |-> n]
    BY <1>7, <2>1
  <2> QED BY <1>9, <2>1, <2>2
<1>11. r[p].id # 0 /\ r[p].at = 0 /\ r[p].len = n /\ r[p].id = i + 1
  BY <1>1, <1>9
<1>12. RecordAt(r, p)
  BY <1>10, <1>11 DEF RecordAt
<1>13. p \in Cells
  BY <1>2, <1>8
<1> QED BY <1>1, <1>3, <1>4, <1>5, <1>8, <1>11, <1>12, <1>13

\* The numbers from lo + 1 up to hi.
Run(lo, hi) == [i \in 1 .. hi - lo |-> lo + i]

\* The entries of two sequences put together.
LEMMA Glued ==
  ASSUME NEW T, NEW p \in Seq(T), NEW q \in Seq(T)
  PROVE  /\ p \o q \in Seq(T) /\ Len(p \o q) = Len(p) + Len(q)
         /\ \A i \in 1 .. Len(p) : (p \o q)[i] = p[i]
         /\ \A i \in 1 .. Len(q) : (p \o q)[Len(p) + i] = q[i]
OBVIOUS

\* Such a run is a sequence.
LEMMA RunSeq ==
  ASSUME NEW lo \in Nat, NEW hi \in Nat, lo <= hi
  PROVE  /\ Run(lo, hi) \in Seq(Nat) /\ Len(Run(lo, hi)) = hi - lo
         /\ \A i \in 1 .. hi - lo : Run(lo, hi)[i] = lo + i
<1>1. PICK m \in Nat : m = hi - lo
  OBVIOUS
<1>2. PICK q : q = [i \in 1 .. m |-> lo + i]
  OBVIOUS
<1>3. q \in Seq(Nat) /\ Len(q) = m /\ \A i \in 1 .. m : q[i] = lo + i
  BY <1>2
<1> QED BY <1>1, <1>2, <1>3 DEF Run

\* Runs that meet are one.
LEMMA RunJoin ==
  ASSUME NEW lo \in Nat, NEW m \in Nat, NEW hi \in Nat, lo <= m, m <= hi
  PROVE  Run(lo, m) \o Run(m, hi) = Run(lo, hi)
<1>1. PICK p \in Seq(Nat) : p = Run(lo, m)
  BY RunSeq
<1>2. PICK q \in Seq(Nat) : q = Run(m, hi)
  BY RunSeq
<1>3. PICK k \in Nat : k = m - lo
  OBVIOUS
<1>4. PICK n \in Nat : n = hi - m
  OBVIOUS
<1>5. Len(p) = k /\ Len(q) = n
  BY <1>1, <1>2, <1>3, <1>4, RunSeq
<1>6. (\A i \in 1 .. k : p[i] = lo + i) /\ (\A i \in 1 .. n : q[i] = m + i)
  BY <1>1, <1>2, <1>3, <1>4, RunSeq
<1>7. PICK w \in Seq(Nat) : w = p \o q
  BY Glued
<1>8. Len(w) = k + n
  BY <1>5, <1>7, Glued
<1>9. (\A i \in 1 .. k : w[i] = p[i]) /\ (\A i \in 1 .. n : w[k + i] = q[i])
  <2>0. /\ \A i \in 1 .. Len(p) : (p \o q)[i] = p[i]
        /\ \A i \in 1 .. Len(q) : (p \o q)[Len(p) + i] = q[i]
    BY Glued
  <2>1. /\ \A i \in 1 .. Len(p) : w[i] = p[i]
        /\ \A i \in 1 .. Len(q) : w[Len(p) + i] = q[i]
    BY <1>7, <2>0, Zenon
  <2> QED BY <1>5, <2>1, Zenon
<1>10. ASSUME NEW i \in 1 .. k + n PROVE w[i] = lo + i
  <2>1. CASE i <= k
    <3>1. i \in 1 .. k
      BY <2>1
    <3> QED BY <1>6, <1>9, <3>1
  <2>2. CASE ~(i <= k)
    <3>1. PICK j \in 1 .. n : i = k + j
      BY <2>2, i - k \in 1 .. n, i = k + (i - k)
    <3>2. w[i] = m + j
      BY <1>6, <1>9, <3>1
    <3> QED BY <1>3, <3>1, <3>2
  <2> QED BY <2>1, <2>2
<1>11. w = [i \in 1 .. Len(w) |-> w[i]]
  OBVIOUS
<1>12. w = [i \in 1 .. k + n |-> lo + i]
  BY <1>8, <1>10, <1>11
<1>13. hi - lo = k + n
  BY <1>3, <1>4
<1> QED BY <1>1, <1>2, <1>7, <1>12, <1>13 DEF Run

\* A run of one.
LEMMA RunOne ==
  ASSUME NEW lo \in Nat
  PROVE  Run(lo, lo + 1) = <<lo + 1>>
<1>1. 1 .. (lo + 1) - lo = 1 .. 1
  OBVIOUS
<1> QED BY <1>1 DEF Run

\* A tiled span reads as its records.
LEMMA ParseTiled ==
  ASSUME NEW r, Ringed(r), NEW a \in Nat, NEW b \in Nat, a <= b, NEW lo, NEW hi,
         Tiled(r, a, b, lo, hi)
  PROVE  Parse(r, Span(a, b - a)) = Run(lo, hi)
<1>1. PICK s : Tiles(r, s, a, b, lo, hi)
  BY DEF Tiled
<1>2. lo \in Nat /\ hi \in Nat /\ lo <= hi /\ s[lo] = a /\ s[hi] = b /\ b \in 0 .. RING_SIZE
  <2>1. hi \in lo .. hi
    BY <1>1 DEF Tiles
  <2> QED BY <1>1, <2>1 DEF Tiles
<1>3. PICK span : span = Span(a, b - a)
  OBVIOUS
<1>4. span.from = a /\ span.len = b - a
  BY <1>3 DEF Span
<1>5. span.from \in Nat /\ span.len \in Nat /\ b = span.from + span.len
  BY <1>4
<1>6. PICK f : /\ Parse(r, span) = f[span.from]
               /\ \A c \in 0 .. RING_SIZE :
                    f[c] = IF c >= b THEN IF c = b THEN <<>> ELSE <<0>>
                           ELSE IF c \notin Cells \/ ~RecordAt(r, c) THEN <<0>>
                           ELSE <<r[c].id>> \o f[c + r[c].len]
  BY <1>5, ParseDef
<1> DEFINE G == {k \in Nat : k <= hi - lo => f[s[hi - k]] = Run(hi - k, hi)}
<1>7. 0 \in G
  <2>1. f[b] = <<>>
    BY <1>2, <1>6, b >= b
  <2>2. hi - 0 = hi /\ 1 .. hi - hi = {}
    BY <1>2
  <2>3. Run(hi, hi) = <<>>
    BY <2>2 DEF Run
  <2> QED BY <1>2, <2>1, <2>2, <2>3
<1>8. ASSUME NEW k \in Nat, k \in G PROVE k + 1 \in G
  <2> SUFFICES ASSUME k + 1 <= hi - lo PROVE f[s[hi - (k + 1)]] = Run(hi - (k + 1), hi)
    OBVIOUS
  <2>1. PICK i \in Nat : i = hi - (k + 1)
    BY <1>2
  <2>2. i \in lo .. hi - 1 /\ i + 1 = hi - k /\ i < hi
    BY <1>2, <2>1
  <2>3. f[s[i + 1]] = Run(i + 1, hi)
    BY <1>2, <1>8, <2>2
  <2>4. /\ s[i] \in Cells /\ s[i] < b
        /\ r[s[i]].id = i + 1 /\ s[i] + r[s[i]].len = s[i + 1] /\ RecordAt(r, s[i])
    BY <1>1, <2>2, TileRecord
  <2>5. s[i] \in 0 .. RING_SIZE /\ ~(s[i] >= b)
    BY <1>2, <2>4, RingFits DEF Cells
  <2>6. f[s[i]] = <<r[s[i]].id>> \o f[s[i] + r[s[i]].len]
    BY <1>6, <2>4, <2>5
  <2>7. f[s[i]] = <<i + 1>> \o Run(i + 1, hi)
    BY <2>3, <2>4, <2>6
  <2>8. f[s[i]] = Run(i, hi)
    <3>1. i + 1 \in Nat /\ i <= i + 1 /\ i + 1 <= hi
      BY <1>2, <2>2
    <3>2. Run(i, i + 1) \o Run(i + 1, hi) = Run(i, hi)
      BY <1>2, <3>1, RunJoin
    <3> QED BY <2>7, <3>2, RunOne
  <2> QED BY <2>1, <2>8
<1> HIDE DEF G
<1>9. hi - lo \in G /\ hi - (hi - lo) = lo /\ hi - lo \in Nat
  BY <1>2, <1>7, <1>8, Climb
<1>10. f[s[lo]] = Run(lo, hi)
  BY <1>9 DEF G
<1> QED BY <1>2, <1>3, <1>4, <1>6, <1>10

\* Eviction from a tiled stretch ends at the start of one of its records, clear
\* of the room needed, or uses it up.
LEMMA EvictTiled ==
  ASSUME Ringed(ring), NEW start \in Nat, NEW top \in 0 .. RING_SIZE, start < top,
         NEW from \in Nat, from <= start, NEW need \in Nat,
         NEW lo, NEW hi, NEW s, Tiles(ring, s, start, top, lo, hi)
  PROVE  \/ evict(start, from, need, top) = [tail |-> 0, emptied |-> TRUE]
         \/ \E j \in lo .. hi - 1 :
              /\ s[j] >= from + need
              /\ evict(start, from, need, top) = [tail |-> s[j], emptied |-> FALSE]
<1>1. lo \in Nat /\ hi \in Nat /\ lo <= hi /\ s[lo] = start /\ s[hi] = top
  BY DEF Tiles
<1>2. lo < hi
  BY <1>1
<1>3. PICK f : /\ evict(start, from, need, top) = f[start]
               /\ \A t \in Cells :
                    f[t] = IF t >= from + need \/ t + ring[t].len <= from
                           THEN [tail |-> t, emptied |-> FALSE]
                           ELSE IF t + ring[t].len >= top THEN [tail |-> 0, emptied |-> TRUE]
                           ELSE f[t + ring[t].len]
  BY EvictDef
<1> DEFINE Good(e) == \/ e = [tail |-> 0, emptied |-> TRUE]
                      \/ \E j \in lo .. hi - 1 :
                           s[j] >= from + need /\ e = [tail |-> s[j], emptied |-> FALSE]
           G == {k \in Nat : k < hi - lo => Good(f[s[(hi - 1) - k]])}
<1>4. ASSUME NEW i \in lo .. hi - 1
      PROVE  \/ Good(f[s[i]])
             \/ f[s[i]] = f[s[i + 1]] /\ ~(s[i + 1] >= top)
  <2>1. s[i] \in Cells /\ s[i] + ring[s[i]].len = s[i + 1] /\ i + 1 \in lo .. hi
    BY TileRecord
  <2>2. PICK t : t = s[i]
    OBVIOUS
  <2>3. PICK e : e = s[i + 1]
    OBVIOUS
  <2>4. t \in Nat /\ e \in Nat /\ t < e /\ t \in Cells /\ from <= t
    <3>1. i \in lo .. hi /\ i < i + 1 /\ lo \in lo .. hi /\ RING_SIZE \in Nat
      BY <1>1, RingFits
    <3>2. t \in Nat /\ e \in Nat /\ t < e
      BY <2>1, <2>2, <2>3, <3>1 DEF Tiles
    <3>3. CASE i = lo
      BY <1>1, <2>1, <2>2, <3>2, <3>3
    <3>4. CASE lo < i
      <4>1. start < t
        BY <1>1, <2>2, <3>1, <3>4 DEF Tiles
      <4> QED BY <2>1, <2>2, <3>2, <4>1
    <3> QED BY <1>1, <3>3, <3>4
  <2>5. f[t] = IF t >= from + need \/ e <= from THEN [tail |-> t, emptied |-> FALSE]
               ELSE IF e >= top THEN [tail |-> 0, emptied |-> TRUE] ELSE f[e]
    BY <1>3, <2>1, <2>2, <2>3, <2>4
  <2>6. ~(e <= from)
    BY <2>4
  <2>7. CASE t >= from + need
    <3>1. f[t] = [tail |-> t, emptied |-> FALSE]
      BY <2>5, <2>7
    <3> QED BY <2>2, <2>7, <3>1
  <2>8. CASE ~(t >= from + need) /\ e >= top
    <3>1. f[t] = [tail |-> 0, emptied |-> TRUE]
      BY <2>5, <2>6, <2>8
    <3> QED BY <2>2, <3>1
  <2>9. CASE ~(t >= from + need) /\ ~(e >= top)
    <3>1. f[t] = f[e]
      BY <2>5, <2>6, <2>9
    <3> HIDE DEF Good
    <3> QED BY <2>2, <2>3, <2>9, <3>1
  <2> QED BY <2>7, <2>8, <2>9
<1> HIDE DEF Good
<1>5. 0 \in G
  <2>1. PICK i : i = hi - 1
    OBVIOUS
  <2>2. i \in lo .. hi - 1 /\ i + 1 = hi /\ (hi - 1) - 0 = i /\ top >= top
    BY <1>1, <1>2, <2>1
  <2>3. Good(f[s[i]])
    BY <1>1, <1>4, <2>2
  <2> QED BY <2>2, <2>3
<1>6. ASSUME NEW k \in Nat, k \in G PROVE k + 1 \in G
  <2> SUFFICES ASSUME k + 1 < hi - lo PROVE Good(f[s[(hi - 1) - (k + 1)]])
    OBVIOUS
  <2>1. PICK i : i = (hi - 1) - (k + 1)
    OBVIOUS
  <2>2. i \in lo .. hi - 1 /\ i + 1 = (hi - 1) - k /\ k < hi - lo
    BY <1>1, <2>1
  <2>3. Good(f[s[i + 1]])
    BY <1>6, <2>2
  <2>4. Good(f[s[i]])
    BY <1>4, <2>2, <2>3
  <2> QED BY <2>1, <2>4
<1> HIDE DEF G
<1>7. PICK k \in Nat : k = (hi - 1) - lo
  BY <1>1, <1>2
<1>8. k \in G
  BY <1>5, <1>6, <1>7, Climb
<1>9. k < hi - lo /\ (hi - 1) - k = lo
  BY <1>1, <1>7
<1>10. Good(f[s[lo]])
  BY <1>8, <1>9 DEF G
<1>11. Good(evict(start, from, need, top))
  BY <1>1, <1>3, <1>10
<1> QED BY <1>11 DEF Good

-----------------------------------------------------------------------------
(* The ring.                                                               *)

\* The ring holds its records in order: the oldest from the tail up to the top,
\* once it has wrapped, and the latest from its beginning up to the head.
RingInv ==
  /\ Ringed(ring) /\ captured \in Nat /\ n_packets \in Nat /\ wrapped \in BOOLEAN
  /\ head \in 0 .. RING_SIZE /\ (n_packets > 0 => head > 0)
  /\ wrapped =>
       /\ tail \in Nat /\ high \in 0 .. RING_SIZE /\ head <= tail /\ tail < high
       /\ \E lo, m \in Nat : Tiled(ring, tail, high, lo, m) /\ Tiled(ring, 0, head, m, captured)
  /\ ~wrapped => tail = 0 /\ \E lo \in Nat : Tiled(ring, 0, head, lo, captured)

\* An empty ring does.
LEMMA RingStarts == CapInit => RingInv
<1> SUFFICES ASSUME CapInit PROVE RingInv
  OBVIOUS
<1>0. RING_SIZE \in Nat /\ 0 \in 0 .. RING_SIZE
  BY RingFits
<1>1. Ringed(ring)
  BY DEF CapInit, Ringed, Blank
<1>2. Tiled(ring, 0, 0, 0, 0)
  BY <1>0, TiledEmpty
<1>3. wrapped = FALSE /\ wrapped \in BOOLEAN
  BY DEF CapInit
<1>4. head = 0 /\ tail = 0 /\ captured = 0 /\ n_packets = 0
  BY DEF CapInit
<1> QED BY <1>0, <1>1, <1>2, <1>3, <1>4 DEF RingInv

\* The records that may have to go lie from old to top, those that stay up to at.
Makes(room, need, at, old, top, lo, m) ==
  /\ at \in Nat /\ old \in Nat /\ top \in 0 .. RING_SIZE /\ at <= old /\ old < top
  /\ at + need <= RING_SIZE /\ lo \in Nat /\ m \in Nat
  /\ Tiled(ring, old, top, lo, m) /\ Tiled(ring, 0, at, m, captured)
  /\ room = [head |-> at, tail |-> evict(old, at, need, top).tail,
             wrapped |-> ~evict(old, at, need, top).emptied,
             high |-> IF evict(old, at, need, top).emptied THEN at ELSE top]

\* Room is made behind the head, or by eviction.
LEMMA RoomIs ==
  ASSUME RingInv, NEW need \in Nat \ {0}, need <= RING_SIZE
  PROVE  \/ /\ ~wrapped /\ head + need <= RING_SIZE
            /\ Room(need) = [head |-> head, tail |-> tail, high |-> high, wrapped |-> FALSE]
         \/ \E at, old, top, lo, m : Makes(Room(need), need, at, old, top, lo, m)
<1>0. RING_SIZE \in Nat /\ head \in Nat /\ head <= RING_SIZE /\ captured \in Nat
  BY RingFits DEF RingInv
<1>1. CASE ~wrapped /\ ~(head + need > RING_SIZE)
  <2>1. Room(need) = [head |-> head, tail |-> tail, high |-> high, wrapped |-> FALSE]
    BY <1>1 DEF Room
  <2> QED BY <1>0, <1>1, <2>1
<1>2. CASE wrapped /\ ~(head + need > RING_SIZE)
  <2>1. /\ tail \in Nat /\ high \in 0 .. RING_SIZE /\ head <= tail /\ tail < high
    BY <1>2 DEF RingInv
  <2>2. PICK lo \in Nat, m \in Nat : Tiled(ring, tail, high, lo, m) /\ Tiled(ring, 0, head, m, captured)
    BY <1>2 DEF RingInv
  <2>3. Room(need) = [head |-> head, tail |-> evict(tail, head, need, high).tail,
                      wrapped |-> ~evict(tail, head, need, high).emptied,
                      high |-> IF evict(tail, head, need, high).emptied THEN head ELSE high]
    BY <1>2 DEF Room
  <2>4. Makes(Room(need), need, head, tail, high, lo, m)
    BY <1>0, <1>2, <2>1, <2>2, <2>3 DEF Makes
  <2> QED BY <2>4
<1>3. CASE head + need > RING_SIZE
  <2>1. 0 < head /\ head \in 0 .. RING_SIZE /\ 0 + need <= RING_SIZE
    BY <1>0, <1>3
  <2>2. PICK old : old = IF wrapped /\ tail >= head THEN 0 ELSE tail
    OBVIOUS
  <2>3. old = 0
    <3>1. CASE wrapped
      BY <1>0, <2>2, <3>1 DEF RingInv
    <3>2. CASE ~wrapped
      BY <2>2, <3>2 DEF RingInv
    <3> QED BY <3>1, <3>2
  <2>4. Room(need) = [head |-> 0, tail |-> evict(old, 0, need, head).tail,
                      wrapped |-> ~evict(old, 0, need, head).emptied,
                      high |-> IF evict(old, 0, need, head).emptied THEN 0 ELSE head]
    BY <1>3, <2>2 DEF Room
  <2>5. \E lo \in Nat : Tiled(ring, 0, head, lo, captured)
    BY DEF RingInv
  <2>6. PICK lo \in Nat : Tiled(ring, 0, head, lo, captured)
    BY <2>5
  <2>7. Tiled(ring, 0, 0, captured, captured)
    BY <1>0, TiledEmpty, 0 \in 0 .. RING_SIZE
  <2>8. Makes(Room(need), need, 0, 0, head, lo, captured)
    BY <1>0, <2>1, <2>3, <2>4, <2>6, <2>7 DEF Makes
  <2> QED BY <2>8
<1> QED BY <1>1, <1>2, <1>3

\* A record of n cells put at cell a.
Puts(a, n) ==
  /\ ring' = [c \in Cells |-> IF c >= a /\ c < a + n
                              THEN [id |-> captured + 1, at |-> c - a, len |-> n] ELSE ring[c]]
  /\ head' = a + n /\ captured' = captured + 1 /\ n_packets' = n_packets + 1

\* It leaves the cells of a ring what they should be and extends what was before it.
LEMMA PutExtends ==
  ASSUME RingInv, NEW a \in Nat, NEW n \in Nat \ {0}, a + n <= RING_SIZE, Puts(a, n)
  PROVE  /\ Ringed(ring') /\ head' \in 0 .. RING_SIZE /\ head' > 0
         /\ captured' \in Nat /\ n_packets' \in Nat
         /\ \A lo \in Nat : Tiled(ring, 0, a, lo, captured) => Tiled(ring', 0, head', lo, captured')
         /\ \A p, q, lo, hi \in Nat : p >= head' /\ q <= RING_SIZE /\ Tiled(ring, p, q, lo, hi)
                                        => Tiled(ring', p, q, lo, hi)
<1>0. RING_SIZE \in Nat /\ Cells = 0 .. RING_SIZE - 1 /\ captured \in Nat /\ n_packets \in Nat
  BY RingFits DEF RingInv, Cells
<1>1. head' = a + n /\ head' \in 0 .. RING_SIZE /\ head' > 0 /\ captured' = captured + 1
      /\ captured' \in Nat /\ n_packets' \in Nat
  BY <1>0 DEF Puts
<1>2. PICK w : w = ring'
  OBVIOUS
<1>3. w = [c \in Cells |-> IF c >= a /\ c < a + n
                           THEN [id |-> captured + 1, at |-> c - a, len |-> n] ELSE ring[c]]
  BY <1>2 DEF Puts
<1>4. \A c \in a .. (a + n) - 1 : w[c] = [id |-> captured + 1, at |-> c - a, len |-> n]
  BY <1>0, <1>3
<1>5. \A c \in Cells : ~(c >= a /\ c < a + n) => w[c] = ring[c]
  BY <1>3
<1>6. Ringed(w)
  <2>1. ASSUME NEW c \in Cells
        PROVE  w[c] \in [id: Nat, at: Nat, len: Nat] /\ (w[c].id # 0 => w[c].len # 0)
    <3>1. CASE c >= a /\ c < a + n
      <4>1. w[c] = [id |-> captured + 1, at |-> c - a, len |-> n]
        BY <1>3, <3>1
      <4>2. c - a \in Nat /\ captured + 1 \in Nat /\ n \in Nat /\ n # 0
        BY <1>0, <3>1
      <4> QED BY <4>1, <4>2
    <3>2. CASE ~(c >= a /\ c < a + n)
      <4>1. w[c] = ring[c]
        BY <1>5, <3>2
      <4> QED BY <4>1 DEF RingInv, Ringed
    <3> QED BY <3>1, <3>2
  <2>2. w = [c \in Cells |-> w[c]]
    BY <1>3
  <2> QED BY <2>1, <2>2 DEF Ringed
<1>7. ASSUME NEW lo \in Nat, Tiled(ring, 0, a, lo, captured) PROVE Tiled(w, 0, a + n, lo, captured + 1)
  <2>1. \A c \in 0 .. a - 1 : w[c] = ring[c]
    <3> SUFFICES ASSUME NEW c \in 0 .. a - 1 PROVE w[c] = ring[c]
      OBVIOUS
    <3>1. c \in Cells /\ ~(c >= a)
      BY <1>0
    <3> QED BY <1>5, <3>1
  <2>2. Follows(ring, w, 0, a, captured, n)
    BY <1>4, <2>1 DEF Follows
  <2> QED BY <1>7, <2>2, TiledMore
<1>8. ASSUME NEW p \in Nat, NEW q \in Nat, NEW lo \in Nat, NEW hi \in Nat, p >= a + n, q <= RING_SIZE,
             Tiled(ring, p, q, lo, hi)
      PROVE  Tiled(w, p, q, lo, hi)
  <2>1. \A c \in p .. q - 1 : w[c] = ring[c]
    <3> SUFFICES ASSUME NEW c \in p .. q - 1 PROVE w[c] = ring[c]
      OBVIOUS
    <3>1. c \in Cells /\ ~(c < a + n)
      BY <1>0, <1>8
    <3> QED BY <1>5, <3>1
  <2> QED BY <1>8, <2>1, TiledKept
<1> QED BY <1>1, <1>2, <1>6, <1>7, <1>8

\* A frame is captured.
LEMMA WriteKeeps ==
  ASSUME RingInv, NEW len \in FrameLen, len > 0, Write(len)
  PROVE  RingInv'
<1> DEFINE need == REC_HDR + IF len > SNAPLEN THEN SNAPLEN ELSE len
<1>1. need \in Nat \ {0} /\ need <= RING_SIZE
  BY RingFits
<1>2. PICK rm : rm = Room(need)
  OBVIOUS
<1>3. /\ Puts(rm.head, need)
      /\ tail' = rm.tail /\ wrapped' = rm.wrapped
      /\ high' = IF rm.head + need > rm.high /\ ~rm.wrapped THEN rm.head + need ELSE rm.high
  BY <1>2 DEF Write, Puts
<1> HIDE DEF need
<1>4. CASE /\ ~wrapped /\ head + need <= RING_SIZE
           /\ rm = [head |-> head, tail |-> tail, high |-> high, wrapped |-> FALSE]
  <2>1. rm.head = head /\ tail' = tail /\ wrapped' = FALSE /\ head \in Nat /\ tail = 0
    BY <1>3, <1>4 DEF RingInv
  <2>2. PICK lo \in Nat : Tiled(ring, 0, head, lo, captured)
    BY <1>4 DEF RingInv
  <2>3. Puts(head, need)
    BY <1>3, <2>1
  <2>4. /\ Ringed(ring') /\ head' \in 0 .. RING_SIZE /\ head' > 0
        /\ captured' \in Nat /\ n_packets' \in Nat
    BY <1>1, <1>4, <2>1, <2>3, PutExtends
  <2>5. Tiled(ring', 0, head', lo, captured')
    BY <1>1, <1>4, <2>1, <2>2, <2>3, PutExtends
  <2>6. wrapped' \in BOOLEAN /\ ~wrapped'
    BY <2>1, Zenon
  <2> QED BY <2>1, <2>4, <2>5, <2>6 DEF RingInv
<1>5. ASSUME NEW at, NEW old, NEW top, NEW lo, NEW m, Makes(rm, need, at, old, top, lo, m)
      PROVE  RingInv'
  <2> DEFINE e == evict(old, at, need, top)
  <2>1. /\ at \in Nat /\ old \in Nat /\ top \in 0 .. RING_SIZE /\ at <= old /\ old < top
        /\ at + need <= RING_SIZE /\ lo \in Nat /\ m \in Nat
        /\ Tiled(ring, old, top, lo, m) /\ Tiled(ring, 0, at, m, captured)
    BY <1>5 DEF Makes
  <2>2. rm.head = at /\ rm.tail = e.tail /\ rm.wrapped = ~e.emptied
        /\ rm.high = IF e.emptied THEN at ELSE top
    BY <1>5 DEF Makes
  <2>3. PICK s : Tiles(ring, s, old, top, lo, m)
    BY <2>1 DEF Tiled
  <2>4. \/ e = [tail |-> 0, emptied |-> TRUE]
        \/ \E j \in lo .. m - 1 : s[j] >= at + need /\ e = [tail |-> s[j], emptied |-> FALSE]
    BY <1>1, <2>1, <2>3, EvictTiled DEF RingInv
  <2> HIDE DEF e
  <2>5. Puts(at, need)
    BY <1>3, <2>2
  <2>6. /\ Ringed(ring') /\ head' \in 0 .. RING_SIZE /\ head' > 0
        /\ captured' \in Nat /\ n_packets' \in Nat
    BY <1>1, <2>1, <2>5, PutExtends
  <2>7. Tiled(ring', 0, head', m, captured')
    BY <1>1, <2>1, <2>5, PutExtends
  <2>8. CASE e = [tail |-> 0, emptied |-> TRUE]
    <3>1. e.tail = 0 /\ e.emptied = TRUE
      BY <2>8
    <3>2. tail' = 0 /\ ~wrapped' /\ wrapped' \in BOOLEAN
      BY <1>3, <2>2, <3>1, Zenon
    <3> QED BY <2>1, <2>6, <2>7, <3>2 DEF RingInv
  <2>9. ASSUME NEW j \in lo .. m - 1, s[j] >= at + need, e = [tail |-> s[j], emptied |-> FALSE]
        PROVE  RingInv'
    <3>1. e.tail = s[j] /\ e.emptied = FALSE
      BY <2>9
    <3>2. wrapped' = TRUE /\ wrapped' \in BOOLEAN /\ rm.wrapped = TRUE
      BY <1>3, <2>2, <3>1, Zenon
    <3>3. tail' = s[j] /\ high' = top
      BY <1>3, <2>2, <3>1, <3>2
    <3>4. j \in lo .. m /\ j \in Nat /\ s[j] \in Nat /\ s[j] < top
      <4>1. j \in lo .. m /\ m \in lo .. m /\ j < m /\ RING_SIZE \in Nat
        BY <2>1, RingFits
      <4> QED BY <2>1, <2>3, <4>1 DEF Tiles
    <3>5. Tiled(ring, s[j], top, j, m)
      BY <2>3, <3>4, TiledFrom
    <3>6. head' = at + need
      BY <2>5 DEF Puts
    <3>7. top \in Nat /\ top <= RING_SIZE
      BY <2>1, RingFits
    <3>8. Tiled(ring', s[j], top, j, m)
      BY <1>1, <2>1, <2>5, <2>9, <3>4, <3>5, <3>6, <3>7, PutExtends
    <3>9. head' <= tail' /\ tail' < high' /\ tail' \in Nat /\ high' \in 0 .. RING_SIZE
      BY <2>1, <2>9, <3>3, <3>4, <3>6
    <3>10. Tiled(ring', tail', high', j, m)
      BY <3>3, <3>8
    <3> QED BY <2>1, <2>6, <2>7, <3>2, <3>4, <3>9, <3>10 DEF RingInv
  <2> QED BY <2>4, <2>8, <2>9
<1> QED BY <1>1, <1>2, <1>4, <1>5, RoomIs

\* So does one that is cleared, whatever its cells still hold.
LEMMA ClearKeeps ==
  ASSUME RingInv, pcap_clear
  PROVE  RingInv'
<1>0. RING_SIZE \in Nat /\ 0 \in 0 .. RING_SIZE /\ captured \in Nat
  BY RingFits DEF RingInv
<1>1. head' = 0 /\ tail' = 0 /\ n_packets' = 0 /\ ring' = ring /\ captured' = captured
  BY DEF pcap_clear
<1>2. wrapped' = FALSE /\ wrapped' \in BOOLEAN
  BY Zenon DEF pcap_clear
<1>3. Tiled(ring, 0, 0, captured, captured)
  BY <1>0, TiledEmpty
<1>4. Ringed(ring')
  BY <1>1 DEF RingInv
<1> QED BY <1>0, <1>1, <1>2, <1>3, <1>4 DEF RingInv

\* What leaves the ring alone.
LEMMA SameRing ==
  ASSUME RingInv, UNCHANGED ringvars
  PROVE  RingInv'
BY DEF RingInv, ringvars

\* Of the portal's steps only a command clears the ring.
LEMMA RequestRing ==
  ASSUME NEW c \in Slot, http_recv(c) \/ Closed(c) \/ http_poll(c)
  PROVE  UNCHANGED ringvars \/ pcap_clear
<1>1. conn_free(c) => UNCHANGED ringvars
  BY DEF conn_free
<1>2. ASSUME NEW r, conn_send_more(c, r) PROVE UNCHANGED ringvars
  BY <1>1, <1>2 DEF conn_send_more, capvars
<1>3. ASSUME NEW r, handle_request(c, r) PROVE UNCHANGED ringvars \/ pcap_clear
  <2>1. CASE conn_respond(c, r)
    BY <1>2, <2>1 DEF conn_respond
  <2>2. CASE Download(c, r)
    BY <2>2 DEF Download
  <2>3. CASE Command(c, r)
    BY <2>3 DEF Command, pcap_set_enabled
  <2>4. CASE UNCHANGED capvars
    BY <2>4 DEF capvars
  <2> QED BY <1>3, <2>1, <2>2, <2>3, <2>4 DEF handle_request
<1>4. CASE http_recv(c)
  <2>1. PICK r : r = [conns[c] EXCEPT !.idle = 0, !.req = IF @ < REQ_MAX THEN @ + 1 ELSE @]
    OBVIOUS
  <2>2. UNCHANGED capvars \/ conn_free(c) \/ handle_request(c, r)
    BY <1>4, <2>1 DEF http_recv
  <2> QED BY <1>1, <1>3, <2>2 DEF capvars
<1>5. CASE Closed(c)
  BY <1>1, <1>5 DEF Closed
<1>6. CASE http_poll(c)
  BY <1>1, <1>2, <1>6 DEF http_poll, capvars
<1> QED BY <1>4, <1>5, <1>6

\* Every step keeps the ring in order.
LEMMA RingKept == RingInv /\ [Next]_vars => RingInv'
<1> SUFFICES ASSUME RingInv, [Next]_vars PROVE RingInv'
  OBVIOUS
<1>1. CASE http_accept
  BY <1>1, SameRing DEF http_accept, capvars
<1>2. CASE Frame
  <2>1. PICK len \in FrameLen : pcap_capture(len)
    BY <1>2 DEF Frame
  <2>2. len > 0 /\ Write(len)
    BY <2>1 DEF pcap_capture
  <2> QED BY <2>2, WriteKeeps
<1>3. CASE \E c \in Slot : http_recv(c) \/ Closed(c) \/ http_poll(c)
  BY <1>3, RequestRing, SameRing, ClearKeeps
<1>4. ASSUME NEW c \in Slot, NEW n \in 1 .. SND_BUF, http_sent(c, n) PROVE RingInv'
  <2>1. PICK r : conn_send_more(c, r)
    BY <1>4 DEF http_sent
  <2>2. UNCHANGED ringvars
    BY <2>1 DEF conn_send_more, conn_free, capvars
  <2> QED BY <2>2, SameRing
<1>5. CASE UNCHANGED vars
  BY <1>5, SameRing DEF vars, capvars
<1> QED BY <1>1, <1>2, <1>3, <1>4, <1>5 DEF Next

\* A ring that holds its records in order reads as the latest ones.
LEMMA LatestOf == RingInv => StreamIsLatest
<1> SUFFICES ASSUME RingInv PROVE StreamIsLatest
  OBVIOUS
<1>0. RING_SIZE \in Nat /\ captured \in Nat /\ n_packets \in Nat /\ head \in Nat /\ head <= RING_SIZE
  BY RingFits DEF RingInv
<1>1. PICK s : s = Stream(ring, pcap_freeze)
  OBVIOUS
<1>2. ASSUME NEW lo \in Nat, lo <= captured, s = Run(lo, captured), n_packets > 0 => lo < captured
      PROVE  StreamIsLatest
  <2>1. s \in Seq(Nat) /\ Len(s) = captured - lo /\ \A i \in 1 .. captured - lo : s[i] = lo + i
    BY <1>0, <1>2, RunSeq
  <2>2. ASSUME NEW i \in DOMAIN s PROVE s[i] = captured - Len(s) + i
    <3>1. i \in 1 .. captured - lo
      BY <2>1, <2>2
    <3>2. s[i] = lo + i /\ captured - (captured - lo) + i = lo + i
      BY <1>0, <2>1, <3>1
    <3> QED BY <2>1, <3>2
  <2>3. n_packets > 0 => s # <<>>
    <3>1. n_packets > 0 => Len(s) # 0
      BY <1>0, <1>2, <2>1
    <3> QED BY <3>1
  <2> QED BY <1>1, <2>2, <2>3 DEF StreamIsLatest
<1>3. ASSUME NEW a, NEW b, NEW l, NEW h, Tiled(ring, a, b, l, h)
      PROVE  l \in Nat /\ h \in Nat /\ l <= h /\ (a # b => l < h)
  <2>1. PICK u : Tiles(ring, u, a, b, l, h)
    BY <1>3 DEF Tiled
  <2>2. l \in Nat /\ h \in Nat /\ l <= h /\ u[l] = a /\ u[h] = b
    BY <2>1 DEF Tiles
  <2> QED BY <2>2
<1>4. CASE ~wrapped
  <2>1. PICK lo \in Nat : Tiled(ring, 0, head, lo, captured)
    BY <1>4 DEF RingInv
  <2>2. tail = 0 /\ pcap_freeze = <<Span(0, head - 0), Span(0, 0 - 0)>>
    BY <1>4, 0 - 0 = 0 DEF RingInv, pcap_freeze
  <2>3. Tiled(ring, 0, 0, captured, captured)
    BY <1>0, TiledEmpty, 0 \in 0 .. RING_SIZE
  <2>4. Parse(ring, Span(0, head - 0)) = Run(lo, captured)
    BY <1>0, <2>1, ParseTiled DEF RingInv
  <2>5. Parse(ring, Span(0, 0 - 0)) = Run(captured, captured)
    BY <1>0, <2>3, ParseTiled DEF RingInv
  <2>6. s = Run(lo, captured) \o Run(captured, captured)
    BY <1>1, <2>2, <2>4, <2>5 DEF Stream
  <2>7. lo <= captured /\ (0 # head => lo < captured)
    BY <1>3, <2>1
  <2>8. s = Run(lo, captured)
    BY <1>0, <2>6, <2>7, RunJoin, captured <= captured
  <2>9. n_packets > 0 => lo < captured
    BY <2>7 DEF RingInv
  <2> QED BY <1>2, <2>7, <2>8, <2>9
<1>5. CASE wrapped
  <2>1. PICK lo \in Nat, m \in Nat : Tiled(ring, tail, high, lo, m) /\ Tiled(ring, 0, head, m, captured)
    BY <1>5 DEF RingInv
  <2>2. pcap_freeze = <<Span(tail, high - tail), Span(0, head - 0)>>
    BY <1>0, <1>5, head - 0 = head DEF pcap_freeze
  <2>3. tail \in Nat /\ high \in Nat /\ tail < high
    BY <1>0, <1>5 DEF RingInv
  <2>4. Parse(ring, Span(tail, high - tail)) = Run(lo, m)
    BY <2>1, <2>3, ParseTiled DEF RingInv
  <2>5. Parse(ring, Span(0, head - 0)) = Run(m, captured)
    BY <1>0, <2>1, ParseTiled DEF RingInv
  <2>6. s = Run(lo, m) \o Run(m, captured)
    BY <1>1, <2>2, <2>4, <2>5 DEF Stream
  <2>7. lo <= m /\ m <= captured /\ (tail # high => lo < m)
    BY <1>3, <2>1
  <2>8. s = Run(lo, captured)
    BY <1>0, <2>1, <2>6, <2>7, RunJoin
  <2>9. lo < captured /\ lo <= captured
    BY <1>0, <2>1, <2>3, <2>7
  <2> QED BY <1>2, <2>1, <2>8, <2>9
<1> QED BY <1>4, <1>5 DEF RingInv

\* pcap.c 3-7 "preserving a parseable stream at all times": whatever is captured,
\* cleared and evicted, the ring reads as an unbroken run of the latest records,
\* the newest included, for any size of the ring and any lengths of frames
\* (pcap_capture, evict, pcap_clear, pcap_freeze).
THEOREM AlwaysLatest == Spec => []StreamIsLatest
<1>1. Init => RingInv
  BY RingStarts DEF Init
<1> QED BY <1>1, RingKept, LatestOf, PTL DEF Spec
=============================================================================
