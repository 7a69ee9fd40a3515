---------------------------- MODULE UsbNetProofs ----------------------------
(***************************************************************************)
(* Proofs about UsbNet, for a transmit ring of any length and a pool of    *)
(* any number of pbufs.                                                    *)
(***************************************************************************)
EXTENDS UsbNet, FiniteSetTheorems, TLAPS

-----------------------------------------------------------------------------
(* The receive path.                                                       *)

\* NeverWedged with the one fact about types it needs.
RxInv == ntb \in Nat /\ NeverWedged

\* Every step keeps it.
LEMMA RxStep == RxInv /\ [Next]_vars => RxInv'
<1> SUFFICES ASSUME RxInv, [Next]_vars PROVE RxInv'
  OBVIOUS
<1> USE UsbBounds DEF RxInv, NeverWedged
<1>1. CASE Transfer
  <2>1. PICK n \in 1 .. NTB : tud_network_recv_cb(n, recv_stalled)
    BY <1>1 DEF Transfer
  <2>2. ntb' \in Nat /\ (received_frame' # None \/ recv_stalled' = TRUE)
    BY <2>1 DEF tud_network_recv_cb
  <2> QED
    BY <2>2
<1>2. CASE Renew
  <2>1. CASE (renew \/ recv_stalled) /\ ntb > 0
    <3>1. tud_network_recv_cb(ntb, FALSE)
      BY <1>2, <2>1 DEF Renew
    <3>2. ntb' \in Nat /\ (received_frame' # None \/ recv_stalled' = TRUE)
      BY <3>1, <2>1 DEF tud_network_recv_cb
    <3> QED
      BY <3>2
  <2>2. CASE ~((renew \/ recv_stalled) /\ ntb > 0)
    <3>1. received_frame' = received_frame /\ ntb' = ntb /\ pc = "renew"
      BY <1>2, <2>2 DEF Renew
    <3> QED
      BY <3>1, <2>2
  <2> QED
    BY <2>1, <2>2
<1>3. CASE Input
  BY <1>3 DEF Input, rxvars
<1>4. CASE Receive
  BY <1>4 DEF Receive, Goto
<1>5. CASE tud_network_init_cb
  BY <1>5 DEF tud_network_init_cb
<1>6. CASE Deadlines \/ EndTask \/ DrainXmit \/ DrainAdvance \/ DrainFree \/ DrainEnd \/ NothingStaged
  BY <1>6 DEF Deadlines, EndTask, DrainXmit, DrainAdvance, DrainFree, DrainEnd,
              NothingStaged, rxvars, Goto
<1>7. CASE usb_net_schedule_bounce \/ Tick
           \/ \E p \in Pbuf : usb_linkoutput(p) \/ StackAlloc(p) \/ StackFree(p)
  BY <1>7 DEF usb_net_schedule_bounce, Tick, usb_linkoutput, StackAlloc, StackFree, rxvars
<1>8. CASE UNCHANGED vars
  BY <1>8 DEF vars, rxvars
<1> QED
  BY <1>1, <1>2, <1>3, <1>4, <1>5, <1>6, <1>7, <1>8 DEF Next, Main

\* usb_net.c 36-39: the receive path is never left with datagrams waiting and
\* nothing that re-arms the endpoint.
THEOREM AlwaysUnwedged == Spec => []NeverWedged
<1>1. Init => RxInv
  BY DEF Init, RxInv, NeverWedged
<1>2. RxInv => NeverWedged
  BY DEF RxInv
<1> QED
  BY <1>1, <1>2, RxStep, PTL DEF Spec

-----------------------------------------------------------------------------
(* The ring as a sequence.                                                 *)

Entry == Pbuf \cup {None}

\* The entries of a ring from t up to h: Held is the window of this ring.
Window(r, t, h) ==
  [i \in 1 .. (h + QUEUE_LEN - t) % QUEUE_LEN |-> r[(t + i - 1) % QUEUE_LEN]]

\* The place i after t, and how far h is ahead of t, without remainders.
At(t, i)   == IF t + i < QUEUE_LEN THEN t + i ELSE t + i - QUEUE_LEN
Dist(t, h) == IF h >= t THEN h - t ELSE h + QUEUE_LEN - t

LEMMA Indices ==
  ASSUME NEW t \in Places, NEW h \in Places
  PROVE  /\ QUEUE_LEN \in Nat \ {0} /\ t \in Nat /\ t < QUEUE_LEN /\ h \in Nat /\ h < QUEUE_LEN
         /\ After(h) = At(h, 1) /\ After(h) \in Places
         /\ (h + QUEUE_LEN - t) % QUEUE_LEN = Dist(t, h)
         /\ Dist(t, h) \in Nat /\ Dist(t, h) < QUEUE_LEN
         /\ \A i \in 1 .. QUEUE_LEN : (t + i - 1) % QUEUE_LEN = At(t, i - 1)
                                      /\ At(t, i - 1) \in Places
<1> DEFINE N == QUEUE_LEN
<1>1. N \in Nat \ {0} /\ t \in Nat /\ t < N /\ h \in Nat /\ h < N
  BY UsbBounds DEF Places
<1>2. After(h) = At(h, 1) /\ After(h) \in Places
  BY <1>1 DEF After, At, Places
<1>3. (h + N - t) % N = Dist(t, h) /\ Dist(t, h) \in Nat /\ Dist(t, h) < N
  BY <1>1 DEF Dist
<1>4. ASSUME NEW i \in 1 .. N
      PROVE  (t + i - 1) % N = At(t, i - 1) /\ At(t, i - 1) \in Places
  BY <1>1 DEF At, Places
<1> QED
  BY <1>1, <1>2, <1>3, <1>4

\* Sequences are equal when their entries are.
LEMMA SeqSame ==
  ASSUME NEW s \in Seq(Entry), NEW u \in Seq(Entry), Len(s) = Len(u),
         \A i \in 1 .. Len(s) : s[i] = u[i]
  PROVE  s = u
BY SMT

\* A window is a sequence of entries.
LEMMA WindowIsSeq ==
  ASSUME NEW r \in [Places -> Entry], NEW t \in Places, NEW h \in Places
  PROVE  /\ Window(r, t, h) = [i \in 1 .. Dist(t, h) |-> r[At(t, i - 1)]]
         /\ Window(r, t, h) \in Seq(Entry) /\ Len(Window(r, t, h)) = Dist(t, h)
<1>1. Dist(t, h) \in Nat /\ Dist(t, h) < QUEUE_LEN /\ QUEUE_LEN \in Nat
  BY Indices
<1>2. \A i \in 1 .. Dist(t, h) :
        (t + i - 1) % QUEUE_LEN = At(t, i - 1) /\ At(t, i - 1) \in Places
  <2>1. \A i \in 1 .. Dist(t, h) : i \in 1 .. QUEUE_LEN
    BY <1>1
  <2> QED
    BY <2>1, Indices
<1>3. Window(r, t, h) = [i \in 1 .. Dist(t, h) |-> r[(t + i - 1) % QUEUE_LEN]]
  BY Indices DEF Window
<1>4. Window(r, t, h) = [i \in 1 .. Dist(t, h) |-> r[At(t, i - 1)]]
  BY <1>2, <1>3
<1>5. \A i \in 1 .. Dist(t, h) : r[At(t, i - 1)] \in Entry
  BY <1>2
<1> QED
  BY <1>1, <1>4, <1>5

\* Storing an entry at the head and advancing it appends to the window.
LEMMA WindowPush ==
  ASSUME NEW r \in [Places -> Entry], NEW t \in Places, NEW h \in Places, NEW p \in Entry,
         After(h) # t
  PROVE  Window([r EXCEPT ![h] = p], t, After(h)) = Append(Window(r, t, h), p)
<1> DEFINE r2 == [r EXCEPT ![h] = p]
           w  == Window(r, t, h)
           w2 == Window(r2, t, After(h))
           n  == Dist(t, h)
<1>1. r2 \in [Places -> Entry] /\ After(h) \in Places /\ After(h) = At(h, 1)
  BY Indices
<1>2. w = [i \in 1 .. n |-> r[At(t, i - 1)]]
  BY WindowIsSeq
<1>2a. w \in Seq(Entry) /\ Len(w) = n
  BY WindowIsSeq
<1>3. w2 = [i \in 1 .. Dist(t, After(h)) |-> r2[At(t, i - 1)]]
  BY <1>1, WindowIsSeq
<1>3a. w2 \in Seq(Entry) /\ Len(w2) = Dist(t, After(h))
  BY <1>1, WindowIsSeq
<1>4. /\ QUEUE_LEN \in Nat \ {0} /\ t \in Nat /\ t < QUEUE_LEN /\ h \in Nat /\ h < QUEUE_LEN
      /\ n \in Nat /\ n < QUEUE_LEN
  BY Indices
<1>5. Dist(t, After(h)) = n + 1 /\ n + 1 < QUEUE_LEN
  BY <1>1, <1>4 DEF Dist, At
<1>6. At(t, n) = h
  BY <1>4 DEF At, Dist
<1>7. \A i \in 1 .. n : At(t, i - 1) # h /\ At(t, i - 1) \in Places
  BY <1>4 DEF At, Dist, Places
<1> HIDE DEF w, w2, n
<1>8. ASSUME NEW i \in 1 .. n + 1 PROVE w2[i] = Append(w, p)[i]
  <2>1. w2[i] = r2[At(t, i - 1)]
    BY <1>3, <1>5
  <2>2. CASE i = n + 1
    <3>1. w2[i] = p
      BY <1>4, <1>6, <2>1, <2>2
    <3> QED
      BY <1>2a, <2>2, <3>1
  <2>3. CASE i \in 1 .. n
    <3>1. w2[i] = r[At(t, i - 1)]
      BY <1>7, <2>1, <2>3
    <3>2. w[i] = r[At(t, i - 1)]
      BY <1>2, <2>3
    <3>3. Append(w, p)[i] = w[i]
      BY <1>2a, <2>3
    <3> QED
      BY <3>1, <3>2, <3>3
  <2>4. i = n + 1 \/ i \in 1 .. n
    BY <1>4
  <2> QED
    BY <2>2, <2>3, <2>4, Zenon
<1>9. Append(w, p) \in Seq(Entry) /\ Len(Append(w, p)) = n + 1
  BY <1>2a
<1>10. w2 = Append(w, p)
  <2> DEFINE v == Append(w, p)
  <2> HIDE DEF v
  <2> QED
    BY <1>3a, <1>5, <1>8, <1>9, SeqSame DEF v
<1> QED
  BY <1>10 DEF w, w2

\* Advancing the tail of a ring that is not empty takes its oldest entry off.
LEMMA WindowPop ==
  ASSUME NEW r \in [Places -> Entry], NEW t \in Places, NEW h \in Places, t # h
  PROVE  /\ Window(r, t, h) # <<>> /\ Head(Window(r, t, h)) = r[t]
         /\ Window(r, After(t), h) = Tail(Window(r, t, h))
<1> DEFINE w  == Window(r, t, h)
           w2 == Window(r, After(t), h)
           n  == Dist(t, h)
<1>1. w = [i \in 1 .. n |-> r[At(t, i - 1)]]
  BY WindowIsSeq
<1>1a. w \in Seq(Entry) /\ Len(w) = n
  BY WindowIsSeq
<1>2. After(t) \in Places /\ After(t) = At(t, 1)
  BY Indices
<1>3. w2 = [i \in 1 .. Dist(After(t), h) |-> r[At(After(t), i - 1)]]
  BY <1>2, WindowIsSeq
<1>3a. w2 \in Seq(Entry) /\ Len(w2) = Dist(After(t), h)
  BY <1>2, WindowIsSeq
<1>4. /\ QUEUE_LEN \in Nat \ {0} /\ t \in Nat /\ t < QUEUE_LEN /\ h \in Nat /\ h < QUEUE_LEN
      /\ n \in Nat /\ n < QUEUE_LEN
  BY Indices
<1>5. Dist(After(t), h) = n - 1 /\ n >= 1
  BY <1>2, <1>4 DEF Dist, At
<1>6. \A i \in 1 .. n - 1 : At(After(t), i - 1) = At(t, i)
  BY <1>2, <1>4 DEF At, Dist
<1>7. At(t, 0) = t
  BY <1>4 DEF At
<1> HIDE DEF w, w2, n
<1>8. ASSUME NEW i \in 1 .. n - 1 PROVE w2[i] = w[i + 1]
  <2>1. w2[i] = r[At(t, i)]
    BY <1>3, <1>5, <1>6
  <2>2. i + 1 \in 1 .. n /\ (i + 1) - 1 = i
    BY <1>4
  <2> QED
    BY <1>1, <2>1, <2>2
<1>9. w[1] = r[t]
  BY <1>1, <1>4, <1>5, <1>7
<1>10. Tail(w) \in Seq(Entry) /\ Len(Tail(w)) = n - 1 /\ \A i \in 1 .. n - 1 : Tail(w)[i] = w[i + 1]
  BY <1>1a, <1>4, <1>5
<1>11. w2 = Tail(w)
  <2> DEFINE v == Tail(w)
  <2>1. v \in Seq(Entry) /\ Len(v) = n - 1 /\ \A i \in 1 .. n - 1 : v[i] = w2[i]
    BY <1>8, <1>10
  <2> HIDE DEF v
  <2> QED
    BY <1>3a, <1>5, <2>1, SeqSame DEF v
<1>12. w # <<>> /\ Head(w) = r[t]
  BY <1>1a, <1>4, <1>5, <1>9
<1> QED
  BY <1>11, <1>12 DEF w, w2

-----------------------------------------------------------------------------
(* Counting references in a sequence.                                      *)

Occ(s, p)   == {i \in DOMAIN s : s[i] = p}
Count(s, p) == Cardinality(Occ(s, p))

LEMMA CountType ==
  ASSUME NEW s \in Seq(Entry), NEW p
  PROVE  IsFiniteSet(Occ(s, p)) /\ Count(s, p) \in Nat
<1>1. Occ(s, p) \in SUBSET (1 .. Len(s)) /\ Len(s) \in Nat
  BY DEF Occ
<1>2. IsFiniteSet(1 .. Len(s))
  BY <1>1, FS_Interval
<1>3. IsFiniteSet(Occ(s, p))
  BY <1>1, <1>2, FS_Subset
<1> QED
  BY <1>3, FS_CardinalityType DEF Count

LEMMA CountEmpty == ASSUME NEW p PROVE Count(<<>>, p) = 0
<1>1. Occ(<<>>, p) = {}
  BY DEF Occ
<1> QED
  BY <1>1, FS_EmptySet DEF Count

LEMMA CountAppend ==
  ASSUME NEW s \in Seq(Entry), NEW x \in Entry, NEW p
  PROVE  Count(Append(s, x), p) = Count(s, p) + IF x = p THEN 1 ELSE 0
<1>1. CASE x = p
  <2>1. Occ(Append(s, x), p) = Occ(s, p) \cup {Len(s) + 1} /\ Len(s) + 1 \notin Occ(s, p)
    BY <1>1 DEF Occ
  <2> QED
    BY <1>1, <2>1, CountType, FS_AddElement DEF Count
<1>2. CASE x # p
  <2>1. Occ(Append(s, x), p) = Occ(s, p)
    BY <1>2 DEF Occ
  <2> QED
    BY <1>2, <2>1, CountType DEF Count
<1> QED
  BY <1>1, <1>2

LEMMA CountTail ==
  ASSUME NEW s \in Seq(Entry), s # <<>>, NEW p
  PROVE  Count(s, p) = Count(Tail(s), p) + IF Head(s) = p THEN 1 ELSE 0
<1> DEFINE t == Tail(s)
           f == [i \in Occ(t, p) |-> i + 1]
           T == Occ(s, p) \ {1}
<1>1. t \in Seq(Entry) /\ Len(s) \in Nat \ {0} /\ Len(t) = Len(s) - 1
      /\ \A i \in 1 .. Len(t) : t[i] = s[i + 1]
  BY DEF t
<1>2. DOMAIN t = 1 .. Len(t) /\ DOMAIN s = 1 .. Len(s)
  BY <1>1
<1> HIDE DEF t
<1>3. f \in Bijection(Occ(t, p), T)
  <2>1. \A i \in Occ(t, p) : i \in Nat /\ i + 1 \in T
    BY <1>1, <1>2 DEF Occ
  <2>2. \A j \in T : j \in Nat /\ j - 1 \in Occ(t, p)
    BY <1>1, <1>2 DEF Occ
  <2>3. f \in Injection(Occ(t, p), T)
    <3>1. f \in [Occ(t, p) -> T] /\ \A a, b \in Occ(t, p) : f[a] = f[b] => a = b
      BY <2>1
    <3> QED
      BY <3>1 DEF Injection, IsInjective
  <2>4. f \in Surjection(Occ(t, p), T)
    <3>1. ASSUME NEW j \in T PROVE \E i \in Occ(t, p) : f[i] = j
      <4>1. j - 1 \in Occ(t, p) /\ f[j - 1] = j
        BY <2>2
      <4> QED
        BY <4>1
    <3> QED
      BY <2>1, <3>1 DEF Surjection
  <2> QED
    BY <2>3, <2>4 DEF Bijection
<1>4. IsFiniteSet(Occ(t, p)) /\ Count(t, p) \in Nat
  BY <1>1, CountType
<1>5. ExistsBijection(Occ(t, p), T)
  BY <1>3 DEF ExistsBijection
<1>6. Cardinality(T) = Count(t, p)
  BY <1>4, <1>5, FS_Bijection DEF Count
<1>7. 1 \in Occ(s, p) <=> Head(s) = p
  BY <1>1, <1>2 DEF Occ
<1>8. IsFiniteSet(Occ(s, p)) /\ Count(s, p) \in Nat
  BY CountType
<1>9. Cardinality(T) = IF 1 \in Occ(s, p) THEN Count(s, p) - 1 ELSE Count(s, p)
  BY <1>8, FS_RemoveElement DEF Count
<1> QED
  BY <1>4, <1>6, <1>7, <1>8, <1>9 DEF t

-----------------------------------------------------------------------------
(* The inductive invariant.                                                *)

\* The frame that usb_net_update has in its hand and answers for.
Hand == IF pc \in {"free", "input"} THEN q ELSE None

Points == {"update", "task", "drain", "advance", "free", "receive", "input", "renew"}

\* The ring: what lies in it are frames, and the one being transmitted is the
\* oldest of them until the tail advances.
RingInv ==
  /\ usb_tx_queue \in [Places -> Entry] /\ usb_tx_head \in Places /\ usb_tx_tail \in Places
  /\ Held \in Seq(Pbuf)
  /\ RingIsQueue
  /\ pc = "advance" => usb_tx_tail # usb_tx_head /\ q = usb_tx_queue[usb_tx_tail]

\* Who refers to pbuf p.
Refs(p) == Count(Held, p) + (IF p \in stack THEN 1 ELSE 0)
           + (IF received_frame = p THEN 1 ELSE 0) + (IF Hand = p THEN 1 ELSE 0)

\* The references: counted exactly, and a frame from the host, not yet given
\* to lwIP, has one only.
RefInv ==
  /\ ref \in [Pbuf -> Nat] /\ stack \subseteq Pbuf
  /\ received_frame \in Entry /\ q \in Entry
  /\ pc \in {"free", "input"} => q \in Pbuf
  /\ \A p \in Pbuf : ref[p] = Refs(p)
  /\ received_frame # None => ref[received_frame] = 1
  /\ pc = "input" => ref[q] = 1

\* The rest of the types.
FlagInv ==
  /\ recv_stalled \in BOOLEAN /\ ntb \in 0 .. NTB
  /\ attached \in BOOLEAN /\ tud_ready \in BOOLEAN
  /\ bounce_at \in Nat /\ reconnect_at \in Nat /\ dropped_at \in Nat /\ now \in Nat
  /\ pc \in Points /\ renew \in BOOLEAN

UsbInv == RingInv /\ RefInv /\ FlagInv

\* The ring's contents, counted.
LEMMA HeldCount ==
  ASSUME RingInv, NEW p
  PROVE  Held \in Seq(Entry) /\ Count(Held, p) \in Nat
<1>1. Held \in Seq(Entry)
  BY DEF RingInv, Entry
<1> QED
  BY <1>1, CountType

LEMMA HeldWindow == Held = Window(usb_tx_queue, usb_tx_tail, usb_tx_head)
BY DEF Held, Window

\* Init establishes the invariant.
LEMMA InitInv == Init => UsbInv
<1> SUFFICES ASSUME Init PROVE UsbInv
  OBVIOUS
<1>1. usb_tx_queue \in [Places -> Entry] /\ usb_tx_head \in Places /\ usb_tx_tail \in Places
  BY UsbBounds DEF Init, Places, Entry
<1>2. Held \in Seq(Entry) /\ Len(Held) = 0
  BY <1>1, HeldWindow, WindowIsSeq DEF Init, Dist
<1>3. Held = <<>>
  BY <1>2
<1>4. RingInv
  BY <1>1, <1>3 DEF Init, RingInv, RingIsQueue
<1>5. \A p \in Pbuf : Refs(p) = 0 /\ ref[p] = 0
  BY <1>3, CountEmpty, UsbBounds DEF Init, Refs, Hand
<1>6. RefInv
  BY <1>5 DEF Init, RefInv, Entry
<1>7. recv_stalled \in BOOLEAN /\ attached \in BOOLEAN /\ tud_ready \in BOOLEAN /\ renew \in BOOLEAN
  BY Zenon DEF Init
<1>8. FlagInv
  BY <1>7, UsbBounds DEF Init, FlagInv, Points
<1> QED
  BY <1>4, <1>6, <1>8 DEF UsbInv

-----------------------------------------------------------------------------
(* The flags.                                                              *)

LEMMA FlagStep ==
  ASSUME UsbInv, Next
  PROVE  FlagInv'
<1> USE DEF Points, Goto
<1>0. FlagInv
  BY DEF UsbInv
<1>clock. /\ InMs(BOUNCE_DELAY) \in Nat /\ InMs(RECONNECT_DELAY) \in Nat
          /\ (now + 1) % WRAP \in Nat
  BY <1>0, UsbBounds DEF InMs, FlagInv
<1>1. ASSUME NEW n \in 1 .. NTB, NEW st \in BOOLEAN, tud_network_recv_cb(n, st)
      PROVE  ntb' \in 0 .. NTB /\ recv_stalled' \in BOOLEAN
  <2>1. recv_stalled' \in BOOLEAN
    BY <1>1, Zenon DEF tud_network_recv_cb
  <2>2. ntb' = n \/ ntb' = n - 1
    BY <1>1 DEF tud_network_recv_cb
  <2> QED
    BY <2>1, <2>2, UsbBounds
<1>2. CASE Transfer
  <2>1. PICK n \in 1 .. NTB : tud_network_recv_cb(n, recv_stalled)
    BY <1>2 DEF Transfer
  <2>2. ntb' \in 0 .. NTB /\ recv_stalled' \in BOOLEAN
    BY <1>0, <1>1, <2>1 DEF FlagInv
  <2> QED
    BY <1>0, <1>2, <2>2 DEF Transfer, FlagInv, busvars
<1>3. CASE Renew
  <2>1. renew' \in BOOLEAN
    BY <1>3, Zenon DEF Renew
  <2>2. ntb' \in 0 .. NTB /\ recv_stalled' \in BOOLEAN
    <3>1. CASE (renew \/ recv_stalled) /\ ntb > 0
      <4>1. tud_network_recv_cb(ntb, FALSE)
        BY <1>3, <3>1, Zenon DEF Renew
      <4>2. ntb \in 1 .. NTB
        BY <1>0, <3>1, UsbBounds DEF FlagInv
      <4>3. FALSE \in BOOLEAN
        BY Zenon
      <4> QED
        BY <1>1, <4>1, <4>2, <4>3, Zenon
    <3>2. CASE ~((renew \/ recv_stalled) /\ ntb > 0)
      <4>1. recv_stalled' \in BOOLEAN
        BY <1>3, <3>2, Zenon DEF Renew
      <4> QED
        BY <1>0, <1>3, <3>2, <4>1 DEF Renew, FlagInv
    <3> QED
      BY <3>1, <3>2
  <2> QED
    BY <1>0, <1>3, <2>1, <2>2 DEF Renew, FlagInv, busvars
<1>4. CASE Deadlines
  <2>1. attached' \in BOOLEAN /\ tud_ready' \in BOOLEAN
    BY <1>4, Zenon DEF Deadlines
  <2>2. bounce_at' \in Nat /\ reconnect_at' \in Nat /\ dropped_at' \in Nat
    BY <1>0, <1>4, <1>clock DEF Deadlines, FlagInv
  <2> QED
    BY <1>0, <1>4, <2>1, <2>2 DEF Deadlines, FlagInv, rxvars
<1>5. CASE tud_network_init_cb
  <2>1. tud_ready' \in BOOLEAN
    BY <1>5, Zenon DEF tud_network_init_cb
  <2> QED
    BY <1>0, <1>5, <2>1, UsbBounds DEF tud_network_init_cb, FlagInv
<1>6. CASE Input
  <2>1. renew' \in BOOLEAN
    BY <1>6, Zenon DEF Input
  <2> QED
    BY <1>0, <1>6, <2>1 DEF Input, FlagInv, rxvars, busvars
<1>7. CASE EndTask \/ DrainXmit \/ DrainAdvance \/ DrainFree \/ DrainEnd \/ Receive \/ NothingStaged
  BY <1>0, <1>7 DEF EndTask, DrainXmit, DrainAdvance, DrainFree, DrainEnd, Receive,
                    NothingStaged, FlagInv, rxvars, busvars
<1>8. CASE usb_net_schedule_bounce \/ Tick
           \/ \E p \in Pbuf : usb_linkoutput(p) \/ StackAlloc(p) \/ StackFree(p)
  BY <1>0, <1>8, <1>clock DEF usb_net_schedule_bounce, Tick, usb_linkoutput, StackAlloc,
                    StackFree, FlagInv, rxvars, busvars
<1> QED
  BY <1>2, <1>3, <1>4, <1>5, <1>6, <1>7, <1>8 DEF Next, Main

-----------------------------------------------------------------------------
(* The ring.                                                               *)

\* A step that leaves the ring alone, and does not begin or end an advance.
LEMMA RingSame ==
  ASSUME RingInv, UNCHANGED txvars, (pc = "advance") = (pc' = "advance"),
         pc = "advance" => q' = q
  PROVE  RingInv' /\ Held' = Held
<1>1. UNCHANGED <<usb_tx_queue, usb_tx_head, usb_tx_tail, queued>>
  BY DEF txvars
<1>2. Held' = Held
  BY <1>1 DEF Held
<1>3. RingIsQueue'
  BY <1>1, <1>2 DEF RingInv, RingIsQueue
<1> HIDE DEF Held
<1> QED
  BY <1>1, <1>2, <1>3 DEF RingInv

\* lwIP's push, wherever the drain is.
LEMMA RingPush ==
  ASSUME RingInv, NEW p \in Pbuf, HasPlace, usb_tx_push(p), UNCHANGED <<pc, q>>
  PROVE  RingInv' /\ Held' = Append(Held, p)
<1> DEFINE r == usb_tx_queue
           h == usb_tx_head
           t == usb_tx_tail
<1>1. /\ usb_tx_queue' = [r EXCEPT ![h] = p] /\ usb_tx_head' = After(h)
      /\ queued' = Append(queued, p) /\ usb_tx_tail' = t
  BY DEF usb_tx_push
<1>2. r \in [Places -> Entry] /\ h \in Places /\ t \in Places /\ p \in Entry /\ After(h) # t
  BY DEF RingInv, HasPlace, Entry
<1>3. After(h) \in Places /\ usb_tx_queue' \in [Places -> Entry]
  BY <1>1, <1>2, Indices
<1>4. Held' = Append(Held, p)
  <2>1. Held' = Window([r EXCEPT ![h] = p], t, After(h))
    BY <1>1 DEF Held, Window
  <2> QED
    BY <1>2, <2>1, HeldWindow, WindowPush
<1>5. Held \in Seq(Pbuf)
  BY DEF RingInv
<1>6. Held' \in Seq(Pbuf)
  BY <1>4, <1>5
<1>7. RingIsQueue'
  <2>1. CASE pc = "advance"
    <3>1. Held # <<>>
      BY <1>2, <2>1, HeldWindow, WindowPop DEF RingInv
    <3>2. queued = Tail(Held)
      BY <2>1 DEF RingInv, RingIsQueue
    <3> DEFINE s == Held
    <3>3. s \in Seq(Pbuf) /\ s # <<>>
      BY <1>5, <3>1
    <3> HIDE DEF s
    <3>4. Append(Tail(s), p) = Tail(Append(s, p))
      BY <3>3
    <3> QED
      BY <1>1, <1>4, <2>1, <3>2, <3>4 DEF RingIsQueue, s
  <2>2. CASE pc # "advance"
    BY <1>1, <1>4, <2>2 DEF RingInv, RingIsQueue
  <2> QED
    BY <2>1, <2>2
<1>8. pc' = "advance" => usb_tx_tail' # usb_tx_head' /\ q' = usb_tx_queue'[usb_tx_tail']
  BY <1>1, <1>2 DEF RingInv
<1> QED
  BY <1>1, <1>2, <1>3, <1>4, <1>6, <1>7, <1>8 DEF RingInv

\* The drain hands the oldest frame to the driver.
LEMMA RingXmit ==
  ASSUME RingInv, DrainXmit
  PROVE  RingInv' /\ Held' = Held /\ q' \in Pbuf
<1>1. UNCHANGED <<usb_tx_queue, usb_tx_head, usb_tx_tail>> /\ queued' = Tail(queued)
      /\ pc = "drain" /\ pc' = "advance" /\ q' = usb_tx_queue[usb_tx_tail]
      /\ usb_tx_tail # usb_tx_head
  BY DEF DrainXmit, Goto
<1>2. Held' = Held
  BY <1>1 DEF Held
<1>3. Held # <<>> /\ Head(Held) = usb_tx_queue[usb_tx_tail]
  BY <1>1, HeldWindow, WindowPop DEF RingInv
<1>4. RingIsQueue'
  BY <1>1, <1>2 DEF RingInv, RingIsQueue
<1>5. q' \in Pbuf
  <2> DEFINE s == Held
  <2>1. s \in Seq(Pbuf) /\ s # <<>> /\ Head(s) = q'
    BY <1>1, <1>3 DEF RingInv
  <2> HIDE DEF s
  <2> QED
    BY <2>1
<1> QED
  BY <1>1, <1>2, <1>4, <1>5 DEF RingInv

\* Then it advances the tail, and answers for the frame itself.
LEMMA RingAdvance ==
  ASSUME RingInv, DrainAdvance
  PROVE  RingInv' /\ Held # <<>> /\ Held' = Tail(Held) /\ q = Head(Held) /\ q \in Pbuf
<1>1. UNCHANGED <<usb_tx_queue, usb_tx_head, queued, q>> /\ usb_tx_tail' = After(usb_tx_tail)
      /\ pc = "advance" /\ pc' = "free"
  BY DEF DrainAdvance, Goto
<1>2. /\ usb_tx_queue \in [Places -> Entry] /\ usb_tx_head \in Places /\ usb_tx_tail \in Places
      /\ usb_tx_tail # usb_tx_head /\ q = usb_tx_queue[usb_tx_tail]
  BY <1>1 DEF RingInv
<1>3. Held # <<>> /\ Head(Held) = q
      /\ Window(usb_tx_queue, After(usb_tx_tail), usb_tx_head) = Tail(Held)
  BY <1>2, HeldWindow, WindowPop
<1>4. Held' = Window(usb_tx_queue, After(usb_tx_tail), usb_tx_head)
  BY <1>1 DEF Held, Window
<1>5. Held' = Tail(Held)
  BY <1>3, <1>4
<1> DEFINE s == Held
<1>6. s \in Seq(Pbuf) /\ s # <<>> /\ Head(s) = q
  BY <1>3 DEF RingInv
<1> HIDE DEF s
<1>7. Tail(s) \in Seq(Pbuf) /\ q \in Pbuf
  BY <1>6
<1>8. RingIsQueue'
  BY <1>1, <1>5 DEF RingInv, RingIsQueue
<1>9. After(usb_tx_tail) \in Places
  BY <1>2, Indices
<1> QED
  BY <1>1, <1>2, <1>3, <1>5, <1>7, <1>8, <1>9 DEF RingInv, s

-----------------------------------------------------------------------------
(* The references.                                                         *)

\* The counts of a step that changes the ring's contents to s, lwIP's frames to
\* k, the staged frame to f and the one in hand to g.
RefsOf(s, k, f, g, p) ==
  Count(s, p) + (IF p \in k THEN 1 ELSE 0) + (IF f = p THEN 1 ELSE 0)
  + (IF g = p THEN 1 ELSE 0)

LEMMA RefsPrimed ==
  /\ \A p : Refs(p) = RefsOf(Held, stack, received_frame, Hand, p)
  /\ \A p : Refs(p)' = RefsOf(Held', stack', received_frame', Hand', p)
BY DEF Refs, RefsOf

\* A step that moves no frame.
LEMMA RefSame ==
  ASSUME RefInv, Held' = Held, UNCHANGED <<ref, stack, received_frame>>,
         q' \in Entry, pc \notin {"free", "input"}, pc' \notin {"free", "input"}
  PROVE  RefInv'
<1>1. Hand' = Hand
  BY DEF Hand
<1>2. \A p \in Pbuf : Refs(p)' = Refs(p)
  BY <1>1, RefsPrimed
<1>3. \A p \in Pbuf : ref'[p] = Refs(p)'
  BY <1>2 DEF RefInv
<1> HIDE DEF Refs
<1> QED
  BY <1>3 DEF RefInv

\* The same, with the main loop standing anywhere.
LEMMA RefStill ==
  ASSUME RefInv, Held' = Held, UNCHANGED <<ref, stack, received_frame, pc, q>>
  PROVE  RefInv'
<1>1. Hand' = Hand
  BY DEF Hand
<1>2. \A p \in Pbuf : Refs(p)' = Refs(p)
  BY <1>1, RefsPrimed
<1>3. \A p \in Pbuf : ref'[p] = Refs(p)'
  BY <1>2 DEF RefInv
<1> QED
  BY <1>3 DEF RefInv

\* What an exact count says about single frames.
LEMMA RefFacts ==
  ASSUME RingInv, RefInv, NEW p \in Pbuf
  PROVE  /\ ref[p] \in Nat /\ Count(Held, p) \in Nat
         /\ ref[p] = Count(Held, p) + (IF p \in stack THEN 1 ELSE 0)
                     + (IF received_frame = p THEN 1 ELSE 0) + (IF Hand = p THEN 1 ELSE 0)
         /\ p \in stack => ref[p] >= 1
         /\ ref[p] = 0 => p \notin stack /\ received_frame # p /\ Hand # p
                          /\ Count(Held, p) = 0
         /\ received_frame = p => ref[p] = 1 /\ p \notin stack /\ Hand # p /\ Count(Held, p) = 0
         /\ Hand = p => ref[p] >= 1 /\ received_frame # p
         /\ Hand = p /\ ref[p] = 1 => p \notin stack /\ Count(Held, p) = 0
<1>1. Count(Held, p) \in Nat /\ ref[p] \in Nat
  BY HeldCount DEF RefInv
<1>2. ref[p] = Count(Held, p) + (IF p \in stack THEN 1 ELSE 0)
               + (IF received_frame = p THEN 1 ELSE 0) + (IF Hand = p THEN 1 ELSE 0)
  BY DEF RefInv, Refs
<1>3. received_frame = p => ref[p] = 1
  BY UsbBounds DEF RefInv
<1> QED
  BY <1>1, <1>2, <1>3

\* lwIP pushes a frame it holds.
LEMMA RefPush ==
  ASSUME RingInv, RefInv, NEW p \in Pbuf, p \in stack, Held' = Append(Held, p),
         ref' = [ref EXCEPT ![p] = @ + 1], UNCHANGED <<stack, received_frame, pc, q>>
  PROVE  RefInv'
<1>1. Hand' = Hand
  BY DEF Hand
<1>2. ASSUME NEW x \in Pbuf PROVE ref'[x] = Refs(x)'
  <2>1. Count(Held', x) = Count(Held, x) + IF p = x THEN 1 ELSE 0
    <3>1. Held \in Seq(Entry) /\ p \in Entry
      BY HeldCount DEF Entry
    <3>2. Count(Append(Held, p), x) = Count(Held, x) + IF p = x THEN 1 ELSE 0
      BY <3>1, CountAppend
    <3> QED
      BY <3>2, Zenon
  <2>2. ref'[x] = ref[x] + IF p = x THEN 1 ELSE 0
    BY DEF RefInv
  <2> QED
    BY <1>1, <2>1, <2>2, RefFacts, RefsPrimed DEF RefsOf
<1>3. ref' \in [Pbuf -> Nat]
  BY DEF RefInv
<1>4. (received_frame # None => received_frame # p) /\ (pc = "input" => q # p)
  <2>1. received_frame # p
    BY RefFacts
  <2>2. pc = "input" => q # p
    BY RefFacts DEF RefInv, Hand
  <2> QED
    BY <2>1, <2>2
<1>5. received_frame' # None => ref'[received_frame'] = 1
  BY <1>4 DEF RefInv, Entry
<1>6. pc' = "input" => ref'[q'] = 1
  BY <1>4 DEF RefInv, Entry
<1> QED
  BY <1>2, <1>3, <1>5, <1>6 DEF RefInv

\* lwIP takes a free pbuf, or lets go of one; the lock is free.
LEMMA RefStack ==
  ASSUME RingInv, RefInv, NEW p \in Pbuf, StackAlloc(p) \/ StackFree(p), Held' = Held
  PROVE  RefInv'
<1>1. Hand' = Hand /\ UNCHANGED <<received_frame, pc, q>> /\ pc # "input"
  BY DEF Hand, StackAlloc, StackFree, rxvars, LockFree
<1>2. CASE StackAlloc(p)
  <2>1. ref[p] = 0 /\ ref' = [ref EXCEPT ![p] = 1] /\ stack' = stack \cup {p}
    BY <1>2 DEF StackAlloc
  <2>2. received_frame # p /\ p \notin stack
    BY <2>1, RefFacts
  <2>3. ASSUME NEW x \in Pbuf PROVE ref'[x] = Refs(x)'
    <3>1. ref'[x] = IF x = p THEN 1 ELSE ref[x]
      BY <2>1 DEF RefInv
    <3> QED
      BY <1>1, <2>1, <3>1, RefFacts, RefsPrimed DEF RefsOf
  <2> QED
    BY <1>1, <2>1, <2>2, <2>3 DEF RefInv, Entry
<1>3. CASE StackFree(p)
  <2>1. p \in stack /\ ref' = [ref EXCEPT ![p] = @ - 1] /\ stack' = stack \ {p}
    BY <1>3 DEF StackFree
  <2>2. received_frame # p /\ ref[p] - 1 \in Nat
    BY <2>1, RefFacts
  <2>3. ASSUME NEW x \in Pbuf PROVE ref'[x] = Refs(x)'
    <3>1. ref'[x] = IF x = p THEN ref[x] - 1 ELSE ref[x]
      BY <2>1 DEF RefInv
    <3> QED
      BY <1>1, <2>1, <3>1, RefFacts, RefsPrimed DEF RefsOf
  <2> QED
    BY <1>1, <2>1, <2>2, <2>3 DEF RefInv, Entry
<1> QED
  BY <1>2, <1>3

\* The driver's offer: a free pbuf is staged, or nothing moves.
LEMMA RefOffer ==
  ASSUME RingInv, RefInv, NEW n, NEW st, tud_network_recv_cb(n, st), Held' = Held,
         stack' = stack, q' = q, pc \notin {"free", "input"}, pc' \notin {"free", "input"}
  PROVE  RefInv'
<1>1. CASE UNCHANGED <<received_frame, ref>>
  BY <1>1, RefSame DEF RefInv
<1>2. CASE received_frame = None /\ \E p \in Pbuf : ref[p] = 0 /\ ref' = [ref EXCEPT ![p] = 1]
                                                    /\ received_frame' = p
  <2>1. PICK p \in Pbuf : ref[p] = 0 /\ ref' = [ref EXCEPT ![p] = 1] /\ received_frame' = p
    BY <1>2
  <2>2. Hand' = None /\ Hand = None
    BY DEF Hand
  <2>3. ASSUME NEW x \in Pbuf PROVE ref'[x] = Refs(x)'
    <3>1. ref'[x] = IF x = p THEN 1 ELSE ref[x]
      BY <2>1 DEF RefInv
    <3>2. received_frame # x
      BY <1>2, UsbBounds
    <3> QED
      BY <2>1, <2>2, <3>1, <3>2, RefFacts, RefsPrimed DEF RefsOf
  <2> QED
    BY <2>1, <2>3 DEF RefInv, Entry
<1> QED
  BY <1>1, <1>2 DEF tud_network_recv_cb

\* A bus reset frees the staged frame.
LEMMA RefReset ==
  ASSUME RingInv, RefInv, tud_network_init_cb, Held' = Held
  PROVE  RefInv'
<1>1. received_frame' = None /\ UNCHANGED <<stack, pc, q>> /\ pc = "task"
  BY DEF tud_network_init_cb
<1>2. Hand' = None /\ Hand = None
  BY <1>1 DEF Hand
<1>3. CASE received_frame # None
  <2> DEFINE p == received_frame
  <2>1. p \in Pbuf /\ ref' = [ref EXCEPT ![p] = @ - 1]
    BY <1>3 DEF tud_network_init_cb, RefInv, Entry
  <2>2. ref[p] = 1
    BY <1>3 DEF RefInv
  <2>3. ASSUME NEW x \in Pbuf PROVE ref'[x] = Refs(x)'
    <3>1. ref'[x] = IF x = p THEN 0 ELSE ref[x]
      BY <2>1, <2>2 DEF RefInv
    <3>2. None # x
      BY UsbBounds
    <3> QED
      BY <1>1, <1>2, <3>1, <3>2, RefFacts, RefsPrimed DEF RefsOf
  <2>4. ref' \in [Pbuf -> Nat]
    BY <2>1, <2>2 DEF RefInv
  <2> QED
    BY <1>1, <2>3, <2>4 DEF RefInv, Entry
<1>4. CASE received_frame = None
  BY <1>1, <1>4, RefStill DEF tud_network_init_cb
<1> QED
  BY <1>3, <1>4

\* The drain's frame passes from the ring to its hand, and is freed.
LEMMA RefAdvance ==
  ASSUME RingInv, RefInv, DrainAdvance
  PROVE  RefInv'
<1>1. Held # <<>> /\ Held' = Tail(Held) /\ q = Head(Held) /\ q \in Pbuf
  BY RingAdvance
<1>2. UNCHANGED <<ref, stack, received_frame, q>> /\ pc = "advance" /\ pc' = "free"
  BY DEF DrainAdvance, rxvars, Goto
<1>3. Hand = None /\ Hand' = q
  BY <1>2 DEF Hand
<1>4. ASSUME NEW x \in Pbuf PROVE ref'[x] = Refs(x)'
  <2>1. Count(Held, x) = Count(Held', x) + IF q = x THEN 1 ELSE 0
    BY <1>1, HeldCount, CountTail
  <2>2. Count(Held', x) \in Nat
    <3>1. Held' \in Seq(Entry)
      <4> DEFINE s == Held
      <4>1. s \in Seq(Entry) /\ s # <<>>
        BY <1>1, HeldCount
      <4> HIDE DEF s
      <4>2. Tail(s) \in Seq(Entry)
        BY <4>1
      <4> QED
        BY <1>1, <4>2 DEF s
    <3> QED
      BY <3>1, CountType
  <2>3. None # x
    BY UsbBounds
  <2> QED
    BY <1>2, <1>3, <2>1, <2>2, <2>3, RefFacts, RefsPrimed DEF RefsOf
<1> QED
  BY <1>1, <1>2, <1>4 DEF RefInv

LEMMA RefFree ==
  ASSUME RingInv, RefInv, DrainFree, Held' = Held
  PROVE  RefInv'
<1>1. UNCHANGED <<stack, received_frame>> /\ pc = "free" /\ pc' = "drain" /\ q' = None
      /\ ref' = [ref EXCEPT ![q] = @ - 1] /\ q \in Pbuf
  BY DEF DrainFree, rxvars, Goto, RefInv
<1>2. Hand = q /\ Hand' = None
  BY <1>1 DEF Hand
<1>3. ref[q] - 1 \in Nat /\ received_frame # q
  BY <1>1, <1>2, RefFacts
<1>4. ASSUME NEW x \in Pbuf PROVE ref'[x] = Refs(x)'
  <2>1. ref'[x] = IF x = q THEN ref[x] - 1 ELSE ref[x]
    BY <1>1 DEF RefInv
  <2>2. None # x
    BY UsbBounds
  <2> QED
    BY <1>1, <1>2, <2>1, <2>2, RefFacts, RefsPrimed DEF RefsOf
<1> QED
  BY <1>1, <1>3, <1>4 DEF RefInv, Entry

\* The staged frame passes to the hand, and to lwIP or to nobody.
LEMMA RefReceive ==
  ASSUME RingInv, RefInv, Receive, Held' = Held
  PROVE  RefInv'
<1>1. UNCHANGED <<ref, stack>> /\ pc = "receive" /\ pc' = "input" /\ received_frame' = None
      /\ q' = received_frame /\ received_frame # None
  BY DEF Receive, Goto
<1>2. Hand = None /\ Hand' = received_frame
  BY <1>1 DEF Hand
<1>3. ASSUME NEW x \in Pbuf PROVE ref'[x] = Refs(x)'
  <2>1. None # x
    BY UsbBounds
  <2> QED
    BY <1>1, <1>2, <2>1, RefFacts, RefsPrimed DEF RefsOf
<1> QED
  BY <1>1, <1>3 DEF RefInv, Entry

LEMMA RefInput ==
  ASSUME RingInv, RefInv, Input, Held' = Held
  PROVE  RefInv'
<1>1. received_frame' = received_frame /\ pc = "input" /\ pc' = "renew" /\ q' = None
      /\ q \in Pbuf /\ ref[q] = 1
  BY DEF Input, rxvars, Goto, RefInv
<1>2. Hand = q /\ Hand' = None
  BY <1>1 DEF Hand
<1>3. received_frame # q /\ q \notin stack
  BY <1>1, <1>2, RefFacts
<1>4. CASE stack' = stack \cup {q} /\ UNCHANGED ref
  <2>1. ASSUME NEW x \in Pbuf PROVE ref'[x] = Refs(x)'
    <3>1. None # x
      BY UsbBounds
    <3> QED
      BY <1>1, <1>2, <1>3, <1>4, <3>1, RefFacts, RefsPrimed DEF RefsOf
  <2> QED
    BY <1>1, <1>4, <2>1 DEF RefInv, Entry
<1>5. CASE ref' = [ref EXCEPT ![q] = @ - 1] /\ UNCHANGED stack
  <2>1. ASSUME NEW x \in Pbuf PROVE ref'[x] = Refs(x)'
    <3>1. ref'[x] = IF x = q THEN 0 ELSE ref[x]
      BY <1>1, <1>5 DEF RefInv
    <3>2. None # x
      BY UsbBounds
    <3> QED
      BY <1>1, <1>2, <1>5, <3>1, <3>2, RefFacts, RefsPrimed DEF RefsOf
  <2>2. ref' \in [Pbuf -> Nat]
    BY <1>1, <1>5 DEF RefInv
  <2> QED
    BY <1>1, <1>3, <1>5, <2>1, <2>2 DEF RefInv, Entry
<1> QED
  BY <1>4, <1>5 DEF Input

-----------------------------------------------------------------------------
(* The theorems.                                                           *)

\* Every step keeps the ring and the references in order.
LEMMA StepKeeps == UsbInv /\ [Next]_vars => UsbInv'
<1> SUFFICES ASSUME UsbInv, [Next]_vars PROVE UsbInv'
  OBVIOUS
<1>0. RingInv /\ RefInv /\ FlagInv
  BY DEF UsbInv
<1>1. ASSUME Next PROVE RingInv' /\ RefInv'
  <2>1. CASE Deadlines \/ EndTask \/ DrainEnd \/ NothingStaged
    <3>1. /\ UNCHANGED <<txvars, ref, stack, received_frame, q>>
          /\ pc \in {"update", "task", "drain", "receive"}
          /\ pc' \in {"task", "drain", "receive", "renew"}
      BY <2>1 DEF Deadlines, EndTask, DrainEnd, NothingStaged, rxvars, Goto
    <3>2. RingInv' /\ Held' = Held
      BY <1>0, <3>1, RingSame
    <3>3. q' \in Entry
      BY <1>0, <3>1 DEF RefInv
    <3> QED
      BY <1>0, <3>1, <3>2, <3>3, RefSame
  <2>2. CASE usb_net_schedule_bounce \/ Tick
    <3>1. UNCHANGED <<txvars, ref, stack, received_frame, q, pc>>
      BY <2>2 DEF usb_net_schedule_bounce, Tick, rxvars
    <3>2. RingInv' /\ Held' = Held
      BY <1>0, <3>1, RingSame
    <3> QED
      BY <1>0, <3>1, <3>2, RefStill
  <2>3. ASSUME NEW p \in Pbuf, usb_linkoutput(p) PROVE RingInv' /\ RefInv'
    <3>1. p \in stack /\ UNCHANGED <<stack, received_frame, pc, q>>
      BY <2>3 DEF usb_linkoutput, rxvars
    <3>2. CASE tud_ready /\ HasPlace
      <4>1. usb_tx_push(p) /\ ref' = [ref EXCEPT ![p] = @ + 1]
        BY <2>3, <3>2 DEF usb_linkoutput, usb_tx_push
      <4>2. RingInv' /\ Held' = Append(Held, p)
        BY <1>0, <3>1, <3>2, <4>1, RingPush
      <4> QED
        BY <1>0, <3>1, <4>1, <4>2, RefPush
    <3>3. CASE ~(tud_ready /\ HasPlace)
      <4>1. UNCHANGED <<txvars, ref>>
        BY <2>3, <3>3 DEF usb_linkoutput, usb_tx_push
      <4>2. RingInv' /\ Held' = Held
        BY <1>0, <3>1, <4>1, RingSame
      <4> QED
        BY <1>0, <3>1, <4>1, <4>2, RefStill
    <3> QED
      BY <3>2, <3>3
  <2>4. ASSUME NEW p \in Pbuf, StackAlloc(p) \/ StackFree(p) PROVE RingInv' /\ RefInv'
    <3>1. UNCHANGED <<txvars, pc, q>>
      BY <2>4 DEF StackAlloc, StackFree
    <3>2. RingInv' /\ Held' = Held
      BY <1>0, <3>1, RingSame
    <3> QED
      BY <1>0, <2>4, <3>2, RefStack
  <2>5. CASE Transfer \/ Renew
    <3>1. UNCHANGED <<txvars, stack, q>> /\ pc \in {"task", "renew"} /\ pc' \in {"task", "update"}
      BY <2>5 DEF Transfer, Renew, Goto
    <3>2. RingInv' /\ Held' = Held
      BY <1>0, <3>1, RingSame
    <3>3. (\E n, st : tud_network_recv_cb(n, st)) \/ UNCHANGED <<received_frame, ref>>
      BY <2>5, Zenon DEF Transfer, Renew
    <3>4. CASE \E n, st : tud_network_recv_cb(n, st)
      BY <1>0, <3>1, <3>2, <3>4, RefOffer
    <3>5. CASE UNCHANGED <<received_frame, ref>>
      <4>1. q' \in Entry
        BY <1>0, <3>1 DEF RefInv
      <4> QED
        BY <1>0, <3>1, <3>2, <3>5, <4>1, RefSame
    <3> QED
      BY <3>3, <3>4, <3>5
  <2>6. CASE tud_network_init_cb
    <3>1. UNCHANGED <<txvars, pc, q>>
      BY <2>6 DEF tud_network_init_cb
    <3>2. RingInv' /\ Held' = Held
      BY <1>0, <3>1, RingSame
    <3> QED
      BY <1>0, <2>6, <3>2, RefReset
  <2>7. CASE DrainXmit
    <3>1. RingInv' /\ Held' = Held /\ q' \in Pbuf
      BY <1>0, <2>7, RingXmit
    <3>2. UNCHANGED <<ref, stack, received_frame>> /\ pc = "drain" /\ pc' = "advance" /\ q' \in Entry
      BY <2>7, <3>1 DEF DrainXmit, rxvars, Goto, Entry
    <3> QED
      BY <1>0, <3>1, <3>2, RefSame
  <2>8. CASE DrainAdvance
    BY <1>0, <2>8, RingAdvance, RefAdvance
  <2>9. CASE DrainFree \/ Receive \/ Input
    <3>1. UNCHANGED txvars /\ pc \in {"free", "receive", "input"} /\ pc' \in {"drain", "input", "renew"}
      BY <2>9 DEF DrainFree, Receive, Input, Goto
    <3>2. RingInv' /\ Held' = Held
      BY <1>0, <3>1, RingSame
    <3> QED
      BY <1>0, <2>9, <3>2, RefFree, RefReceive, RefInput
  <2> QED
    BY <1>1, <2>1, <2>2, <2>3, <2>4, <2>5, <2>6, <2>7, <2>8, <2>9 DEF Next, Main
<1>2. CASE Next
  BY <1>1, <1>2, FlagStep DEF UsbInv
<1>3. CASE UNCHANGED vars
  <2>1. UNCHANGED <<txvars, ref, stack, received_frame, pc, q>>
    BY <1>3 DEF vars, rxvars
  <2>2. RingInv' /\ Held' = Held
    BY <1>0, <2>1, RingSame
  <2>3. RefInv'
    BY <1>0, <2>1, <2>2, RefStill
  <2>4. FlagInv'
    BY <1>0, <1>3 DEF FlagInv, vars, rxvars, busvars
  <2> QED
    BY <2>2, <2>3, <2>4 DEF UsbInv
<1> QED
  BY <1>2, <1>3

LEMMA Invariant == Spec => []UsbInv
BY InitInv, StepKeeps, PTL DEF Spec

\* The ring, the references, the staged frame and the deadlines stay well
\* formed: no reference count falls below zero.
THEOREM TypeCorrect == Spec => []TypeOK
<1>1. UsbInv => TypeOK
  <2> SUFFICES ASSUME UsbInv PROVE TypeOK
    OBVIOUS
  <2>1. queued \in Seq(Pbuf)
    <3> DEFINE s == Held
    <3>1. s \in Seq(Pbuf)
      BY DEF UsbInv, RingInv
    <3>2. pc = "advance" => s # <<>>
      BY HeldWindow, WindowPop DEF UsbInv, RingInv
    <3>3. queued = IF pc = "advance" THEN Tail(s) ELSE s
      BY DEF UsbInv, RingInv, RingIsQueue
    <3> HIDE DEF s
    <3> QED
      BY <3>1, <3>2, <3>3
  <2> QED
    BY <2>1 DEF UsbInv, RingInv, RefInv, FlagInv, TypeOK, Entry, Points
<1> QED
  BY <1>1, Invariant, PTL

\* For a ring of any length: the host gets the accepted frames once and in
\* order, however usb_tx_push falls between the steps of usb_tx_drain.
THEOREM AlwaysQueue == Spec => []RingIsQueue
<1>1. UsbInv => RingIsQueue
  BY DEF UsbInv, RingInv
<1> QED
  BY <1>1, Invariant, PTL

\* Every reference counted is one somebody holds: pbuf_ref and pbuf_free are
\* balanced over the ring, the drain, the receive path and lwIP.
THEOREM AlwaysExact == Spec => []RefsExact
<1>1. UsbInv => RefsExact
  <2> SUFFICES ASSUME UsbInv, NEW p \in Pbuf
               PROVE  ref[p] = Cardinality({i \in DOMAIN Held : Held[i] = p})
             + (IF p \in stack THEN 1 ELSE 0) + (IF received_frame = p THEN 1 ELSE 0)
             + (IF q = p /\ pc \in {"free", "input"} THEN 1 ELSE 0)
    BY DEF RefsExact
  <2>1. ref[p] = Count(Held, p) + (IF p \in stack THEN 1 ELSE 0)
                 + (IF received_frame = p THEN 1 ELSE 0) + (IF Hand = p THEN 1 ELSE 0)
    BY RefFacts DEF UsbInv
  <2>2. (Hand = p) <=> (q = p /\ pc \in {"free", "input"})
    BY UsbBounds DEF Hand
  <2>3. Count(Held, p) = Cardinality({i \in DOMAIN Held : Held[i] = p})
    BY DEF Count, Occ
  <2> HIDE DEF Hand
  <2> QED
    BY <2>1, <2>2, <2>3
<1> QED
  BY <1>1, Invariant, PTL
=============================================================================
