------------------------------- MODULE UsbNet -------------------------------
(***************************************************************************)
(* The USB network interface of usb_net.c: the ring of frames to the host, *)
(* filled wherever lwIP runs and drained by the main loop; the staged      *)
(* frame from the host; the two deadlines of the logical replug.           *)
(*                                                                         *)
(* The background preempts the main loop between any two steps that do not *)
(* hold the lwIP lock or disable interrupts.  Frames are the pbufs of the  *)
(* shared pool; TinyUSB's NCM driver is known by how usb_net.c calls it.   *)
(***************************************************************************)
EXTENDS Naturals, Sequences, FiniteSets

CONSTANTS
  None,
  Pbuf,         \* the pbufs of the pool
  QUEUE_LEN,    \* USB_TX_QUEUE_LEN
  NTB,          \* datagrams a transfer of the host may hold
  BOUNCE_DELAY, RECONNECT_DELAY,
  WRAP          \* the clock counts modulo WRAP, for 2^32

ASSUME UsbBounds ==
  /\ QUEUE_LEN \in Nat \ {0} /\ NTB \in Nat /\ None \notin Pbuf /\ IsFiniteSet(Pbuf)
  /\ BOUNCE_DELAY \in Nat /\ RECONNECT_DELAY \in Nat \ {0} /\ WRAP \in Nat \ {0}
  /\ RECONNECT_DELAY < BOUNCE_DELAY /\ BOUNCE_DELAY < WRAP

VARIABLES
  usb_tx_queue, usb_tx_head, usb_tx_tail,
  ref,               \* pbuf -> its reference count
  stack,             \* pbufs lwIP holds a reference to
  received_frame, recv_stalled,
  ntb,               \* datagrams TinyUSB has and has not handed over
  attached,          \* the device is on the bus
  tud_ready,         \* the host has configured it
  bounce_at, reconnect_at,
  now,
  pc, q, renew,      \* usb_net_update: its place, usb_tx_drain's q, renew
  queued,            \* history: the frames pushed and not transmitted, in order
  dropped_at         \* history: when the device was detached, 0 while it is not

txvars == <<usb_tx_queue, usb_tx_head, usb_tx_tail, queued>>
rxvars == <<received_frame, recv_stalled, ntb>>
busvars == <<attached, tud_ready, bounce_at, reconnect_at, dropped_at>>
vars == <<txvars, ref, stack, rxvars, busvars, now, pc, q, renew>>

Places == 0 .. QUEUE_LEN - 1

Init ==
  /\ usb_tx_queue = [i \in Places |-> None] /\ usb_tx_head = 0 /\ usb_tx_tail = 0
  /\ queued = <<>>
  /\ ref = [p \in Pbuf |-> 0] /\ stack = {}
  /\ received_frame = None /\ recv_stalled = FALSE /\ ntb = 0
  /\ attached = TRUE /\ tud_ready = FALSE /\ bounce_at = 0 /\ reconnect_at = 0
  /\ now = 0 /\ dropped_at = 0
  /\ pc = "update" /\ q = None /\ renew = FALSE

(***************************************************************************)
(* lwIP, in the background or in the main loop, holding its lock.          *)
(***************************************************************************)
\* The main loop holds the lock while it hands a frame to lwIP.
LockFree == pc # "input"

After(i) == (i + 1) % QUEUE_LEN

\* The mutant takes the last place too.
HasPlaceFull == TRUE

HasPlace == After(usb_tx_head) # usb_tx_tail

\* The mutant queues the frame without a reference of its own.
PushBorrowed(p) ==
  IF HasPlace
  THEN /\ usb_tx_queue' = [usb_tx_queue EXCEPT ![usb_tx_head] = p]
       /\ usb_tx_head' = After(usb_tx_head)
       /\ queued' = Append(queued, p)
       /\ UNCHANGED <<usb_tx_tail, ref>>
  ELSE UNCHANGED <<txvars, ref>>

\* The ring takes a reference of its own, and gives it back when it is full.
usb_tx_push(p) ==
  IF HasPlace
  THEN /\ usb_tx_queue' = [usb_tx_queue EXCEPT ![usb_tx_head] = p]
       /\ usb_tx_head' = After(usb_tx_head)
       /\ queued' = Append(queued, p)
       /\ ref' = [ref EXCEPT ![p] = @ + 1]
       /\ UNCHANGED usb_tx_tail
  ELSE UNCHANGED <<txvars, ref>>

\* lwIP sends a frame it holds to the host; without a host it is dropped.
usb_linkoutput(p) ==
  /\ LockFree /\ p \in stack
  /\ IF tud_ready THEN usb_tx_push(p) ELSE UNCHANGED <<txvars, ref>>
  /\ UNCHANGED <<stack, rxvars, busvars, now, pc, q, renew>>

\* lwIP takes a pbuf for a frame of its own, or lets one go.
StackAlloc(p) ==
  /\ LockFree /\ ref[p] = 0
  /\ ref' = [ref EXCEPT ![p] = 1] /\ stack' = stack \cup {p}
  /\ UNCHANGED <<txvars, rxvars, busvars, now, pc, q, renew>>

StackFree(p) ==
  /\ LockFree /\ p \in stack
  /\ ref' = [ref EXCEPT ![p] = @ - 1] /\ stack' = stack \ {p}
  /\ UNCHANGED <<txvars, rxvars, busvars, now, pc, q, renew>>

(***************************************************************************)
(* usb_net_update, step by step.                                           *)
(***************************************************************************)
Goto(next) == pc' = next

\* The mutant detaches and forgets to come back.
DeadlineOnce ==
  /\ pc = "update" /\ Goto("task")
  /\ LET drop == bounce_at # 0 /\ now >= bounce_at
     IN /\ bounce_at' = IF drop THEN 0 ELSE bounce_at
        /\ attached' = (attached /\ ~drop)
        /\ tud_ready' = (tud_ready /\ ~drop)
        /\ dropped_at' = IF drop THEN now ELSE dropped_at
  /\ UNCHANGED <<txvars, ref, stack, rxvars, reconnect_at, now, q, renew>>

InMs(delay) == (now + delay) % WRAP

\* The two deadlines of the replug, 0 for none.  Both are compared as numbers: one
\* past the wrap is due at once, and one that comes out as 0 is forgotten.
Deadlines ==
  /\ pc = "update" /\ Goto("task")
  /\ LET drop == bounce_at # 0 /\ now >= bounce_at
         due  == IF drop THEN InMs(RECONNECT_DELAY) ELSE reconnect_at
         back == due # 0 /\ now >= due
     IN /\ bounce_at' = IF drop THEN 0 ELSE bounce_at
        /\ reconnect_at' = IF back THEN 0 ELSE due
        /\ attached' = (back \/ (attached /\ ~drop))
        /\ tud_ready' = (tud_ready /\ ~drop)
        /\ dropped_at' = IF back THEN 0 ELSE IF drop THEN now ELSE dropped_at
  /\ UNCHANGED <<txvars, ref, stack, rxvars, now, q, renew>>

\* The mutant does not remember that it dropped one.
DropForgotten(n, stalled) ==
  \/ /\ received_frame # None /\ ntb' = n
     /\ recv_stalled' = stalled /\ UNCHANGED <<received_frame, ref>>
  \/ /\ received_frame = None /\ ntb' = n - 1
     /\ recv_stalled' = stalled
     /\ \/ \E p \in Pbuf : ref[p] = 0 /\ ref' = [ref EXCEPT ![p] = 1] /\ received_frame' = p
        \/ (\A p \in Pbuf : ref[p] # 0) /\ UNCHANGED <<received_frame, ref>>

\* TinyUSB offers the first of n datagrams: staged, dropped for want of a pbuf,
\* or refused while the last one is still here.  (The callback also accepts an
\* empty datagram, which the driver does not offer.)
tud_network_recv_cb(n, stalled) ==
  \/ /\ received_frame # None /\ ntb' = n
     /\ recv_stalled' = stalled /\ UNCHANGED <<received_frame, ref>>
  \/ /\ received_frame = None /\ ntb' = n - 1
     /\ \/ \E p \in Pbuf : /\ ref[p] = 0 /\ ref' = [ref EXCEPT ![p] = 1]
                           /\ received_frame' = p /\ recv_stalled' = stalled
        \/ /\ \A p \in Pbuf : ref[p] # 0
           /\ recv_stalled' = TRUE /\ UNCHANGED <<received_frame, ref>>

\* tud_task: a transfer from the host arrives, the bus is reset (the driver
\* starts again without the staged frame), the host configures the device.
Transfer ==
  /\ pc = "task" /\ tud_ready /\ ntb = 0
  /\ \E n \in 1 .. NTB : tud_network_recv_cb(n, recv_stalled)
  /\ UNCHANGED <<txvars, stack, busvars, now, pc, q, renew>>

tud_network_init_cb ==
  /\ pc = "task" /\ attached
  /\ IF received_frame # None THEN ref' = [ref EXCEPT ![received_frame] = @ - 1] ELSE UNCHANGED ref
  /\ received_frame' = None /\ ntb' = 0 /\ tud_ready' = TRUE
  /\ UNCHANGED <<txvars, stack, recv_stalled, attached, bounce_at, reconnect_at, dropped_at, now, pc, q,
                 renew>>

EndTask == pc = "task" /\ Goto("drain") /\ UNCHANGED <<txvars, ref, stack, rxvars, busvars, now, q, renew>>

\* usb_tx_drain: transmit the oldest frame, then advance, then free it.
DrainXmit ==
  /\ pc = "drain" /\ usb_tx_tail # usb_tx_head /\ tud_ready
  /\ Goto("advance") /\ q' = usb_tx_queue[usb_tx_tail] /\ queued' = Tail(queued)
  /\ UNCHANGED <<usb_tx_queue, usb_tx_head, usb_tx_tail, ref, stack, rxvars, busvars, now, renew>>

DrainAdvance ==
  /\ pc = "advance" /\ Goto("free") /\ usb_tx_tail' = After(usb_tx_tail)
  /\ UNCHANGED <<usb_tx_queue, usb_tx_head, queued, ref, stack, rxvars, busvars, now, q, renew>>

DrainFree ==
  /\ pc = "free" /\ Goto("drain") /\ q' = None
  /\ ref' = [ref EXCEPT ![q] = @ - 1]
  /\ UNCHANGED <<txvars, stack, rxvars, busvars, now, renew>>

\* Nothing left, or the endpoint is busy.
DrainEnd ==
  /\ pc = "drain" /\ Goto("receive")
  /\ UNCHANGED <<txvars, ref, stack, rxvars, busvars, now, q, renew>>

\* The staged frame is taken out before lwIP gets it.
Receive ==
  /\ pc = "receive" /\ received_frame # None
  /\ q' = received_frame /\ received_frame' = None /\ Goto("input")
  /\ UNCHANGED <<txvars, ref, stack, recv_stalled, ntb, busvars, now, renew>>

\* lwIP takes it, or refuses it and it is freed; under the lock.
Input ==
  /\ pc = "input" /\ Goto("renew") /\ renew' = TRUE /\ q' = None
  /\ \/ stack' = stack \cup {q} /\ UNCHANGED ref
     \/ ref' = [ref EXCEPT ![q] = @ - 1] /\ UNCHANGED stack
  /\ UNCHANGED <<txvars, rxvars, busvars, now>>

NothingStaged ==
  /\ pc = "receive" /\ received_frame = None /\ Goto("renew")
  /\ UNCHANGED <<txvars, ref, stack, rxvars, busvars, now, q, renew>>

\* Re-arm the endpoint if a datagram was consumed or dropped; that offers the
\* next one at once.
Renew ==
  /\ pc = "renew" /\ Goto("update") /\ renew' = FALSE
  /\ IF (renew \/ recv_stalled) /\ ntb > 0 THEN tud_network_recv_cb(ntb, FALSE)
     ELSE recv_stalled' = FALSE /\ UNCHANGED <<received_frame, ref, ntb>>
  /\ UNCHANGED <<txvars, stack, busvars, now, q>>

(***************************************************************************)
(* The rest of the main loop, and time.                                    *)
(***************************************************************************)
\* A re-address schedules the replug, or puts it off.
usb_net_schedule_bounce ==
  /\ pc = "update"
  /\ bounce_at' = InMs(BOUNCE_DELAY)
  /\ UNCHANGED <<txvars, ref, stack, rxvars, attached, tud_ready, reconnect_at, dropped_at, now,
                 pc, q, renew>>

\* The clock is read only where an iteration starts.  A tick is longer than an
\* iteration: a deadline that is due is met before it.
Tick ==
  /\ pc = "update"
  /\ \A d \in {bounce_at, reconnect_at} : d # 0 => now < d
  /\ now' = (now + 1) % WRAP
  /\ UNCHANGED <<txvars, ref, stack, rxvars, busvars, pc, q, renew>>

Main == Deadlines \/ EndTask \/ DrainXmit \/ DrainAdvance \/ DrainFree \/ DrainEnd
        \/ Receive \/ Input \/ NothingStaged \/ Renew

Next ==
  \/ Main \/ Transfer \/ tud_network_init_cb
  \/ usb_net_schedule_bounce \/ Tick
  \/ \E p \in Pbuf : usb_linkoutput(p) \/ StackAlloc(p) \/ StackFree(p)

\* The main loop runs, its drain ends (the endpoint's buffers are few), it gets to
\* the deadlines however many commands reschedule, and time passes.
Fairness ==
  WF_vars(Main) /\ WF_vars(EndTask) /\ SF_vars(DrainEnd) /\ SF_vars(Deadlines) /\ SF_vars(Tick)

Spec == Init /\ [][Next]_vars /\ Fairness

(***************************************************************************)
(* Properties.                                                             *)
(***************************************************************************)
\* Ring, references, staged frame and deadlines are well formed.
TypeOK ==
  /\ usb_tx_queue \in [Places -> Pbuf \cup {None}] /\ usb_tx_head \in Places /\ usb_tx_tail \in Places
  /\ queued \in Seq(Pbuf)
  /\ ref \in [Pbuf -> Nat] /\ stack \subseteq Pbuf
  /\ received_frame \in Pbuf \cup {None} /\ recv_stalled \in BOOLEAN /\ ntb \in 0 .. NTB
  /\ attached \in BOOLEAN /\ tud_ready \in BOOLEAN
  /\ bounce_at \in Nat /\ reconnect_at \in Nat /\ dropped_at \in Nat /\ now \in Nat
  /\ pc \in {"update", "task", "drain", "advance", "free", "receive", "input", "renew"}
  /\ q \in Pbuf \cup {None} /\ renew \in BOOLEAN

\* The places from the tail up to the head, in order.
Held == [i \in 1 .. (usb_tx_head + QUEUE_LEN - usb_tx_tail) % QUEUE_LEN |->
           usb_tx_queue[(usb_tx_tail + i - 1) % QUEUE_LEN]]

\* The ring is a queue: the host gets every frame that was accepted, once and
\* in order, however the background's pushes fall between the drain's steps.
RingIsQueue == queued = IF pc = "advance" THEN Tail(Held) ELSE Held

\* Every reference counted is one somebody holds: lwIP, a place of the ring,
\* the drain, or the receive path.  No frame is freed while queued; none leaks.
RefsExact ==
  \A p \in Pbuf :
    ref[p] = Cardinality({i \in DOMAIN Held : Held[i] = p})
             + (IF p \in stack THEN 1 ELSE 0) + (IF received_frame = p THEN 1 ELSE 0)
             + (IF q = p /\ pc \in {"free", "input"} THEN 1 ELSE 0)

\* usb_net.c 36-39: while TinyUSB has datagrams to hand over, something is
\* pending that makes the main loop re-arm the endpoint.
NeverWedged ==
  ntb > 0 => received_frame # None \/ recv_stalled \/ renew \/ pc = "input"

\* A replug that detaches the device attaches it again, however many requests
\* come before and meanwhile, also over the clock's wrap: unless it detaches in
\* the one millisecond whose deadline to attach comes out as 0, "none".
ReplugEnds == ~attached ~> attached \/ (dropped_at + RECONNECT_DELAY) % WRAP = 0
=============================================================================
