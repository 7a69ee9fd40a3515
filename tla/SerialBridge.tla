---------------------------- MODULE SerialBridge ----------------------------
(***************************************************************************)
(* The serial party line of serial_bridge.c: a UART, a CDC port and one    *)
(* TCP client, raw or telnet with RFC 2217.  The TCP callbacks run in the  *)
(* background; the pump runs in the main loop under the lwIP lock, byte by *)
(* byte, while the hardware fills and drains its own buffers.              *)
(*                                                                         *)
(* A byte is a symbol.  A sink is known by whether it can take a byte.     *)
(***************************************************************************)
EXTENDS Naturals, Sequences, SequencesExt

CONSTANTS
  Byte,         \* the symbols
  Code,         \* (uint8_t)(cmd + 100): the byte that answers a command
  SB_MAX,       \* sizeof(sb_buf)
  ACK_MAX,      \* the buffer a reply is put together in
  BUDGET,       \* TICK_BYTE_BUDGET
  WND,          \* TCP_WND
  FIFO,         \* bytes a source holds
  LineData,     \* bytes the UART and the host send
  Scripts       \* what a client may send: sequences of units

Rates == {"slow", "fast"}
Verbs == {"WILL", "DO", "WONT", "DONT"}
\* The symbols the bridge knows: NOTIFY_MODEMSTATE is the one command of its own.
Named == {"IAC", "SB", "SE", "44", "set", "ctl", "notify", "ms"} \cup Verbs \cup Rates

\* What a client sends: a byte of data, an option of a verb, or a subnegotiation.
Units == ({"data"} \X Byte) \cup (Verbs \X Byte) \cup ({"SB"} \X Seq(Byte))

ASSUME BridgeBounds ==
  /\ Named \subseteq Byte /\ "garbled" \notin Byte
  /\ Code \in [Byte -> Byte] /\ \A cmd \in {"set", "ctl", "notify"} : Code[cmd] # "IAC"
  /\ SB_MAX \in Nat \ {0} /\ ACK_MAX \in Nat /\ ACK_MAX >= 7 /\ BUDGET \in Nat \ {0} /\ WND \in Nat \ {0}
  /\ FIFO \in Nat \ {0} /\ LineData \subseteq Byte /\ Scripts \subseteq Seq(Units)

VARIABLES
  client,        \* "none", or the listener it came through
  rx,            \* rx and rx_off: unconsumed bytes
  tn_state, tn_verb, sb_buf, comport_active,
  asserted,      \* the reset lines driven low
  coding,        \* cur_baud and the format
  source,        \* bytes waiting in the UART and in the CDC port
  cdc_open,      \* tud_cdc_n_connected
  ready,         \* the sinks that can take a byte now
  pc, budget, consumed,
  wire,          \* the client's bytes not delivered to bridge_recv yet
  window,        \* the receive window the client still has
  owed,          \* history: data the client meant and the line has not got
  faults         \* history: a byte lost at a sink, or read otherwise than meant

tn == <<tn_state, tn_verb, sb_buf, comport_active>>
session == <<client, wire, window>>
pump == <<pc, budget, consumed>>
vars == <<session, rx, tn, asserted, coding, source, cdc_open, ready, pump, owed, faults>>

Sources == {"uart", "cdc"}
Sinks == {"uart", "cdc", "tcp"}

Init ==
  /\ client = "none" /\ rx = <<>> /\ wire = <<>> /\ window = WND
  /\ tn_state = "DATA" /\ tn_verb = "WILL" /\ sb_buf = <<>> /\ comport_active = FALSE
  /\ asserted = {} /\ coding = "slow"
  /\ source = [s \in Sources |-> <<>>] /\ cdc_open = FALSE /\ ready = Sinks
  /\ pc = "idle" /\ budget = 0 /\ consumed = 0
  /\ owed = <<>> /\ faults = {}

(***************************************************************************)
(* Sinks.                                                                  *)
(***************************************************************************)
\* The active sinks of a byte from src.
SinksOf(src) == {s \in Sinks \ {src} : /\ s = "cdc" => cdc_open
                                       /\ s = "tcp" => client # "none"}

\* The mutant waits for the sinks that are not there as well.
EverySinkReady(src) == Sinks \ {src} \subseteq ready

sinks_ready(src) == SinksOf(src) \subseteq ready

\* The mutant does not escape.
Unescaped(b) == <<b>>

\* Telnet's escape: IAC is doubled.
Escape(b) == IF b = "IAC" THEN <<"IAC", "IAC">> ELSE <<b>>

\* What the client is sent for a byte of the line.
Encode(b) == IF client = "telnet" THEN Escape(b) ELSE <<b>>

\* The unit of telnet that starts at place i: the data in it, "?" if it breaks
\* off, and where the next one starts.  A subnegotiation ends at the first IAC SE
\* that follows an even number of IACs.
Unit(bytes, i) ==
  LET n == Len(bytes)
      ends == {k \in i + 2 .. n - 1 :
                 /\ bytes[k] = "IAC" /\ bytes[k + 1] = "SE"
                 /\ \E m \in i + 1 .. k - 1 :
                      /\ bytes[m] # "IAC" /\ (k - m) % 2 = 1
                      /\ \A j \in m + 1 .. k - 1 : bytes[j] = "IAC"}
  IN CASE bytes[i] # "IAC" -> <<<<bytes[i]>>, i + 1>>
       [] bytes[i] = "IAC" /\ i < n /\ bytes[i + 1] = "IAC" -> <<<<"IAC">>, i + 2>>
       [] bytes[i] = "IAC" /\ i + 1 < n /\ bytes[i + 1] \in Verbs -> <<<<>>, i + 3>>
       [] bytes[i] = "IAC" /\ i < n /\ bytes[i + 1] = "SB" /\ ends # {} ->
            <<<<>>, (CHOOSE k \in ends : \A j \in ends : k <= j) + 2>>
       [] OTHER -> <<<<"?">>, n + 1>>

\* What a telnet peer makes of a write: the reference the code's escapes and
\* replies are held against.
Plain(bytes) ==
  LET from[i \in 1 .. Len(bytes) + 1] ==
        IF i > Len(bytes) THEN <<>> ELSE Unit(bytes, i)[1] \o from[Unit(bytes, i)[2]]
  IN from[1]

\* The client reads data in what is written, and should read just `meant`.
Misread(bytes, meant, fault) ==
  IF (IF client = "telnet" THEN Plain(bytes) ELSE bytes) = meant THEN {} ELSE {fault}

\* A byte of the line goes to every active sink; each may be full after it.
fan_out(src, b) ==
  /\ \E full \in SUBSET SinksOf(src) : ready' = ready \ full
  /\ faults' = faults \cup (IF SinksOf(src) \subseteq ready THEN {} ELSE {"overrun"})
                      \cup (IF "tcp" \in SinksOf(src) THEN Misread(Encode(b), <<b>>, "misread") ELSE {})

(***************************************************************************)
(* Telnet.                                                                 *)
(***************************************************************************)
\* A payload escaped.
Doubled(p) == FlattenSeq([i \in DOMAIN p |-> Escape(p[i])])

\* The mutant leaves no place for the escape of the last symbol.
FitsTight(p) == {n \in 0 .. Len(p) : \A i \in 0 .. n - 1 : 4 + Len(Doubled(SubSeq(p, 1, i))) < ACK_MAX - 2}

\* How many symbols of a payload a reply may take: the next one while three
\* places are left after the header's four and what is there.
Taken(p) == {n \in 0 .. Len(p) : \A i \in 0 .. n - 1 : 4 + Len(Doubled(SubSeq(p, 1, i))) < ACK_MAX - 3}

\* The payload is escaped, the code is not.
tn_comport_ack(cmd, p) ==
  LET n == CHOOSE k \in Taken(p) : \A j \in Taken(p) : j <= k
  IN <<"IAC", "SB", "44", Code[cmd]>> \o Doubled(SubSeq(p, 1, n)) \o <<"IAC", "SE">>

\* Replies are written if there is room, and dropped if not; none is data.  A
\* reply to the command whose code is IAC is told from the others.
tn_send(cmd, reply) ==
  faults' = faults \cup Misread(reply, <<>>, IF Code[cmd] = "IAC" THEN "miscoded" ELSE "misread")

tn_handle_verb(verb, opt) ==
  LET first == opt = "44" /\ ~comport_active
      answer == CASE verb = "WILL" -> <<"IAC", IF opt = "44" THEN "DO" ELSE "DONT", opt>>
                  [] verb = "DO"   -> <<"IAC", IF opt = "44" THEN "WILL" ELSE "WONT", opt>>
                  [] OTHER         -> <<>>
  IN /\ comport_active' = (comport_active \/ first)
     /\ tn_send("notify", answer \o IF first THEN tn_comport_ack("notify", <<"ms">>) ELSE <<>>)

\* The end of a subnegotiation: set the line coding, move a reset line, or
\* acknowledge whatever else it is.
tn_handle_sb ==
  LET cmd == sb_buf[2]
      pl  == SubSeq(sb_buf, 3, Len(sb_buf))
      arg == pl[1]
  IN IF Len(sb_buf) < 2 \/ sb_buf[1] # "44" THEN UNCHANGED <<coding, asserted, faults>>
     ELSE CASE cmd = "set" ->
                 /\ coding' = IF pl # <<>> /\ arg \in Rates THEN arg ELSE coding
                 /\ tn_send(cmd, tn_comport_ack(cmd, <<coding'>>))
                 /\ UNCHANGED asserted
            [] cmd = "ctl" /\ pl # <<>> ->
                 /\ asserted' = CASE arg = "dtr on"  -> asserted \cup {"dtr"}
                                  [] arg = "dtr off" -> asserted \ {"dtr"}
                                  [] arg = "rts on"  -> asserted \cup {"rts"}
                                  [] arg = "rts off" -> asserted \ {"rts"}
                                  [] OTHER           -> asserted
                 /\ tn_send(cmd, tn_comport_ack(cmd, <<arg>>))
                 /\ UNCHANGED coding
            [] cmd = "ctl" /\ pl = <<>> -> UNCHANGED <<coding, asserted, faults>>
            [] OTHER -> tn_send(cmd, tn_comport_ack(cmd, pl)) /\ UNCHANGED <<coding, asserted>>

Stored(b) == IF Len(sb_buf) < SB_MAX THEN Append(sb_buf, b) ELSE sb_buf

\* The mutant forgets that an escaped IAC is data.
PlainIsData(b) == client # "telnet" \/ (tn_state = "DATA" /\ b # "IAC")

\* Whether the next byte is data, told without consuming it.
tn_next_is_data(b) ==
  \/ client # "telnet"
  \/ tn_state = "DATA" /\ b # "IAC"
  \/ tn_state = "IAC" /\ b = "IAC"

\* A data byte of the client; it should be what the client meant next.
ToLine(b) ==
  /\ fan_out("tcp", b)
  /\ owed' = IF owed # <<>> /\ Head(owed) = b THEN Tail(owed) ELSE <<"garbled">>

\* The parser goes on to state s, with nothing for the line.
Enter(s) == tn_state' = s /\ UNCHANGED <<ready, owed>>
\* Nothing but the parser's state is touched.
OnlyState == UNCHANGED <<tn_verb, sb_buf, comport_active, coding, asserted, faults>>

\* The mutant ends a subnegotiation at an escaped IAC too.
EndsAlways(b) == TRUE

SbEnds(b) == b # "IAC"

\* One byte from an RFC 2217 client.  Nothing reads sb_buf between the end of a
\* subnegotiation, or of a client, and the start of the next: the model empties it.
tn_process(b) ==
  \/ tn_state = "DATA" /\ b = "IAC" /\ Enter("IAC") /\ OnlyState
  \/ tn_state = "DATA" /\ b # "IAC" /\ ToLine(b) /\ UNCHANGED <<tn, coding, asserted>>
  \/ /\ tn_state = "IAC" /\ b = "IAC" /\ ToLine(b)
     /\ tn_state' = "DATA" /\ UNCHANGED <<tn_verb, sb_buf, comport_active, coding, asserted>>
  \/ /\ tn_state = "IAC" /\ b = "SB" /\ Enter("SB")
     /\ sb_buf' = <<>> /\ UNCHANGED <<tn_verb, comport_active, coding, asserted, faults>>
  \/ /\ tn_state = "IAC" /\ b \in Verbs /\ Enter("VERB")
     /\ tn_verb' = b /\ UNCHANGED <<sb_buf, comport_active, coding, asserted, faults>>
  \/ tn_state = "IAC" /\ b \notin Verbs \cup {"IAC", "SB"} /\ Enter("DATA") /\ OnlyState
  \/ /\ tn_state = "VERB" /\ Enter("DATA")
     /\ tn_handle_verb(tn_verb, b) /\ UNCHANGED <<tn_verb, sb_buf, coding, asserted>>
  \/ tn_state = "SB" /\ b = "IAC" /\ Enter("SB_IAC") /\ OnlyState
  \/ /\ tn_state = "SB" /\ b # "IAC" /\ Enter("SB")
     /\ sb_buf' = Stored(b) /\ UNCHANGED <<tn_verb, comport_active, coding, asserted, faults>>
  \/ /\ tn_state = "SB_IAC" /\ ~SbEnds(b) /\ Enter("SB")
     /\ sb_buf' = Stored("IAC") /\ UNCHANGED <<tn_verb, comport_active, coding, asserted, faults>>
  \/ /\ tn_state = "SB_IAC" /\ SbEnds(b) /\ Enter("DATA")
     /\ tn_handle_sb /\ sb_buf' = <<>> /\ UNCHANGED <<tn_verb, comport_active>>

(***************************************************************************)
(* The pump: serial_bridge_task, one step per byte.                        *)
(***************************************************************************)
\* Something is pending: take the lwIP lock and start with the UART.
Tick ==
  /\ pc = "idle" /\ (rx # <<>> \/ \E s \in Sources : source[s] # <<>>)
  /\ pc' = "uart" /\ budget' = BUDGET /\ consumed' = 0
  /\ UNCHANGED <<session, rx, tn, asserted, coding, source, cdc_open, ready, owed, faults>>

Moves(src) == budget > 0 /\ source[src] # <<>> /\ sinks_ready(src)

\* One byte of the UART or the CDC port.
PumpLine(src) ==
  /\ pc = src /\ Moves(src)
  /\ fan_out(src, Head(source[src]))
  /\ source' = [source EXCEPT ![src] = Tail(@)]
  /\ budget' = budget - 1
  /\ UNCHANGED <<session, rx, tn, asserted, coding, cdc_open, pc, consumed, owed>>

\* This direction is done: the next one has a budget of its own.
NextDirection ==
  /\ \/ pc = "uart" /\ ~Moves("uart") /\ pc' = "cdc"
     \/ pc = "cdc" /\ ~Moves("cdc") /\ pc' = "tcp"
  /\ budget' = BUDGET
  /\ UNCHANGED <<session, rx, tn, asserted, coding, source, cdc_open, ready, consumed, owed, faults>>

\* Protocol bytes flow whatever the sinks do; data waits for them.
TcpMoves == budget > 0 /\ rx # <<>> /\ (tn_next_is_data(Head(rx)) => sinks_ready("tcp"))

\* One byte of the client.
PumpTcp ==
  /\ pc = "tcp" /\ TcpMoves
  /\ rx' = Tail(rx) /\ consumed' = consumed + 1 /\ budget' = budget - 1
  /\ IF client = "telnet" THEN tn_process(Head(rx))
     ELSE ToLine(Head(rx)) /\ UNCHANGED <<tn, asserted, coding>>
  /\ UNCHANGED <<session, source, cdc_open, pc>>

Reopen == window' = window + consumed

\* The window reopens by what was consumed, the lock is released.
EndTick ==
  /\ pc = "tcp" /\ ~TcpMoves
  /\ pc' = "idle" /\ budget' = 0 /\ consumed' = 0
  /\ IF client # "none" THEN Reopen ELSE UNCHANGED window
  /\ UNCHANGED <<client, wire, rx, tn, asserted, coding, source, cdc_open, ready,
                 owed, faults>>

(***************************************************************************)
(* The callbacks, when the pump does not hold the lock.                    *)
(***************************************************************************)
\* A unit as RFC 2217 puts it on the wire, and the data it means.
Telnet(u) == CASE u[1] = "data"  -> Escape(u[2])
               [] u[1] \in Verbs -> <<"IAC", u[1], u[2]>>
               [] u[1] = "SB"    -> <<"IAC", "SB">> \o Doubled(u[2]) \o <<"IAC", "SE">>
Meaning(u) == IF u[1] = "data" THEN <<u[2]>> ELSE <<>>

\* A client of the USB link or the tunnel takes the line if it is free.  What
\* it is going to send is decided here; a raw client's units are plain data.
bridge_accept(port, script) ==
  /\ pc = "idle" /\ client = "none"
  /\ client' = port /\ comport_active' = FALSE /\ tn_state' = "DATA"
  /\ owed' = FlattenSeq([i \in DOMAIN script |-> Meaning(script[i])])
  /\ wire' = IF port = "raw" THEN owed'
             ELSE FlattenSeq([i \in DOMAIN script |-> Telnet(script[i])])
  /\ window' = WND /\ ready' = ready \cup {"tcp"}
  /\ UNCHANGED <<rx, tn_verb, sb_buf, asserted, coding, source, cdc_open, pump, faults>>

\* A segment of n bytes arrives, within the window.
bridge_recv(n) ==
  /\ pc = "idle" /\ client # "none" /\ n <= Len(wire) /\ n <= window
  /\ rx' = rx \o SubSeq(wire, 1, n) /\ wire' = SubSeq(wire, n + 1, Len(wire))
  /\ window' = window - n
  /\ UNCHANGED <<client, tn, asserted, coding, source, cdc_open, ready, pump,
                 owed, faults>>

\* The client is gone: what it sent is dropped, the target is released.
tcp_drop_client ==
  /\ client' = "none" /\ rx' = <<>> /\ comport_active' = FALSE /\ tn_state' = "DATA" /\ sb_buf' = <<>>
  /\ asserted' = {}
  /\ wire' = <<>> /\ window' = WND /\ owed' = <<>> /\ faults' = faults \ {"miscoded"}
  /\ UNCHANGED <<tn_verb, coding, source, cdc_open, ready, pump>>

\* bridge_recv without data, or bridge_err: the peer closed or is lost.
Closed == pc = "idle" /\ client # "none" /\ tcp_drop_client

\* The CDC port's line coding, from tud_task in the main loop; a rate out of
\* range changes nothing.
serial_bridge_apply_coding(rate) ==
  /\ pc = "idle" /\ coding' = rate
  /\ UNCHANGED <<session, rx, tn, asserted, source, cdc_open, ready, pump, owed, faults>>

(***************************************************************************)
(* The devices and the client.                                             *)
(***************************************************************************)
\* A byte arrives at the UART or from the USB host.
Arrive(src, b) ==
  /\ Len(source[src]) < FIFO
  /\ src = "cdc" => cdc_open
  /\ source' = [source EXCEPT ![src] = Append(@, b)]
  /\ UNCHANGED <<session, rx, tn, asserted, coding, cdc_open, ready, pump, owed, faults>>

\* A sink drains: the UART always, the CDC port while the host has it open.
Drain(sink) ==
  /\ sink \notin ready /\ (sink = "cdc" => cdc_open)
  /\ ready' = ready \cup {sink}
  /\ UNCHANGED <<session, rx, tn, asserted, coding, source, cdc_open, pump, owed, faults>>

\* The host opens or closes the port (in tud_task).
Toggle ==
  /\ pc = "idle" /\ cdc_open' = ~cdc_open
  /\ UNCHANGED <<session, rx, tn, asserted, coding, source, ready, pump, owed, faults>>

Next ==
  \/ Tick \/ PumpTcp \/ NextDirection \/ EndTick
  \/ \E src \in Sources : PumpLine(src)
  \/ \E port \in {"raw", "telnet"}, script \in Scripts : bridge_accept(port, script)
  \/ \E n \in 1 .. WND : bridge_recv(n)
  \/ Closed
  \/ \E r \in Rates : serial_bridge_apply_coding(r)
  \/ \E src \in Sources, b \in LineData : Arrive(src, b)
  \/ \E sink \in Sinks : Drain(sink)
  \/ Toggle

\* The main loop calls the pump, the UART shifts its bytes out, and a host and a
\* peer that stay read what they are sent (keepalives reap a peer that is gone).
Fairness ==
  /\ WF_vars(Tick \/ PumpTcp \/ NextDirection \/ EndTick \/ \E src \in Sources : PumpLine(src))
  /\ \A sink \in Sinks : SF_vars(Drain(sink))

Spec == Init /\ [][Next]_vars /\ Fairness

(***************************************************************************)
(* Properties.                                                             *)
(***************************************************************************)
\* Telnet is undone exactly: the line gets the data the client meant, in order,
\* and all of it once every byte has been consumed, however segments and ticks
\* cut its escapes and commands.
LineGetsWhatWasMeant ==
  /\ owed \in Seq(Byte)
  /\ client # "none" /\ wire = <<>> /\ rx = <<>> => owed = <<>>

\* Every write reads as it should: a byte of the line as that byte, 0xFF
\* included, and a reply as no data, whatever payload it echoes.  Excepted is the
\* reply to the command whose code is 0xFF, which is not escaped ("miscoded"): it
\* puts that client's reading off until it connects again.
ClientReadsTheLine == "misread" \notin faults

\* serial_bridge.c 256 "A byte may move only if every *active* sink ... can take
\* it": the two answers on whether a byte is data never differ.
NoOverrun == "overrun" \notin faults

\* Whatever a subnegotiation holds, escapes included, it stays within its buffer
\* and the reply that echoes it fits the one that is put together in.
BuffersHold ==
  /\ Len(sb_buf) <= SB_MAX
  /\ Len(tn_comport_ack("set", SubSeq(sb_buf, 3, Len(sb_buf)))) <= ACK_MAX

\* A client's bytes are not stuck for good: once the UART and the host fall
\* silent they drain, whoever opens or closes the port.  (While the host keeps
\* sending, its bytes go first and may take every place in the UART.)
ClientDrains == <>[](\A s \in Sources : source[s] = <<>>) => []<>(rx = <<>>)
=============================================================================
