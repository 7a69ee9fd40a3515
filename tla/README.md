# molewire: verification project

molewire is firmware for a Pico 2 W that looks like a USB network card. It joins
a Wi-Fi network, opens a WireGuard tunnel over it and lets the USB host (and, if
configured, one quarantined Wi-Fi client) reach the tunnel and nothing else. These
modules model the firmware's own logic, component by component: TLC checks them on
small instances, and TLAPS proves every safety property of the passing runs for every instance.

## 1. Inventory

Two contexts execute. The **main loop** (`src/main.c`) pumps USB, runs consoles,
polls Wi-Fi and the tunnel, and applies configurations. The **background** (an
interrupt that runs lwIP and the Wi-Fi driver) preempts it anywhere except between
`cyw43_arch_lwip_begin` and `cyw43_arch_lwip_end`. USB frames are delivered by the
main loop, so a USB host's packet never arrives inside an apply; Wi-Fi packets, DNS
answers and WireGuard messages do.

| Component (source) | State | Operations | What makes it correct | Hard part |
|---|---|---|---|---|
| Tunnel lifecycle (`wg.c`, `main.c` 107-145) | interface added, state, peer, endpoint, exit flags, default route | `apply_wg`, `wg_apply`, `wg_teardown`, `wg_poll`, `dns_resolved_cb` | clients reach the tunnel only; default route follows the session; the tunnel comes back | background between any two steps, late answers |
| Routing hook (`wg.c` 156-272) | reads all of the above | per packet | isolation of the two clients, confinement of exit traffic | half-applied state |
| Access point (`ap.c`) | radio, address, lease, `ap_up`, what was applied | `ap_apply`, `ap_teardown` | client isolated also while half applied | the driver changes the default route |
| USB interface (`usb_net.c`) | address, replug timers, transmit ring, staged frame | `usb_net_set_addr`, `usb_net_update`, TinyUSB callbacks | host ends up on the current link; no lost wake-up | host keeps an old lease |
| DHCP server (`dhcp_server.c`) | one lease per link | `dhcp_recv`, `dhcp_server_start` | hands out the current pair | re-addressing under a client |
| NAT (`napt.c`) | table of 512 mappings, external address | `napt_outbound`, `napt_inbound`, `napt_reset` | one private port per flow, kept while in use | expiry, reuse, full table, clock wrap |
| Handshake clock (`wg.c` 113-153) | boot counter in flash, uptime | `wg_time_init`, `wireguard_tai64n_now` | stamps increase for ever | power loss in the write, 32-bit uptime |
| WireGuard engine (`wireguard.c`, `wireguardif.c`) | three keypairs, handshake, replay window, timers | message handlers, `wireguardif_tmr` | fresh nonces, no replay, "up" means a session | reordering, loss, rekey races |
| Wi-Fi manager (`wifi_conn.c`, `wifi_pick.c`, `wifi_scan.c`) | state, candidates, backoff, one scan | `wifi_conn_task`, `wifi_conn_apply` | some known network is always being tried | scan ownership, edits during a join |
| Configuration (`config.c`) and console (`config_proto.c`, `serial_console.c`) | the record, its sector, menus, staged join | commands, `config_save` | what runs, what is stored and what is configured agree | error returns, one scan for all, power loss |
| Portal and capture (`http_portal.c`, `pcap.c`) | connections, capture ring | TCP callbacks, `pcap_capture` | a download is a consistent capture | two downloads, capture outside the lock |
| Checksum repair (`usb_net.c`, `eth_csum.c`, `napt.c`, `wireguardif.c`) | none: the packet | the hops of a packet's way | valid packets stay valid, corrupted ones stay detectable | zero as a value and as "none", carries |
| Serial bridge (`serial_bridge.c`) | three ports, one client | `serial_bridge_task`, TCP callbacks | no byte lost or duplicated between active ports | back-pressure |

Components interact through calls from the main loop (consoles and portal call the
apply functions registered in `main.c`), through lwIP's hooks and callbacks (routing,
NAT, DNS), and through shared statics that the background reads without the lock.
`PROJECT.json` lists the hazards at their lines.

## 2. Plan

Built, in the order of importance: `Tunnel` (with the access point and the routing hook),
`Napt` under its abstract specification `NatPromise`, `BootClock`, `WgPeer`, then the
interfaces around them: `UsbNet`, `Portal` on `Capture`, `SerialBridge`, `Checksum`,
`WifiConn` on `Profiles`, and `Settings`. All of them have proofs.

What would come next:

1. Cookie replies and load in `WgPeer`.
2. A capture cut at its preemption points (observation 6.7 below), once the code has decided
   what it promises there.
3. What the clocks guarantee beyond `NoWrap`, which needs a bound on how long an entry of the NAT
   table or a boot may last.

## 3. Modules

| Module | Models | Notes |
|---|---|---|
| `Tunnel`, `MCTunnel`, `TunnelProofs` | `apply_wg`, `wg_apply`, `wg_teardown`, `wg_poll`, the hook, `ap_apply`, the re-addressing of the USB link | specification, configurations of the runs, theorems |
| `NatPromise` | what `napt.h` promises | abstract specification |
| `Napt`, `MCNapt`, `NaptProofs` | `napt.c`, the table | specification, instance, theorems (those of `Checksum` too) and refinement |
| `BootClock` | `wg.c` 113-153 | specification; its theorems are in `TunnelProofs`, the module for `wg.c` |
| `WgPeer`, `WgPeerProofs` | `wireguardif.c`, `wireguard.c` | specification and theorems |
| `UsbNet`, `UsbNetProofs` | `usb_net.c`: transmit ring, staged frame, replug | specification and theorems |
| `Capture` | `pcap.c` | the ring that `Portal` extends |
| `Portal`, `PortalProofs` | `http_portal.c` | specification and theorems (those of `Capture` too) |
| `SerialBridge`, `MCBridge`, `BridgeProofs` | `serial_bridge.c` | specification, the scripts of the run, theorems |
| `Checksum` | the checksum code of five files | a packet on its way; its theorems are in `NaptProofs` |
| `Profiles` | profile list of `config.c`, `wifi_pick.c` | operators that `WifiConn` extends |
| `WifiConn`, `MCWifi`, `WifiProofs` | `wifi_conn.c`, `wifi_scan.c`, the Wi-Fi commands of `config_proto.c`, `serial_console.c` | composition of manager, scanner, console and radio, theorems |
| `Settings`, `MCSettings`, `SettingsProofs` | `config.c`, `cmd_set`, `handle_main`, what `main.c` and `ap.c` apply | specification, values, theorems |

**Tunnel.** `pc` is the main loop's position. An apply is a chain of actions from
`ApplyUsbAddr` to `Announce`, one per stretch of code that nothing can interrupt in a
way anybody could see: `wg_teardown`'s locked part is one action, its four unlocked
assignments are three more, the exit flags two, and so on. `wg_poll` is cut in two
(`PollAsk`/`PollWait` then `PollAddPeer`; `PollMonitor` then `PollAct`) where the code
releases the lock between reading and acting. Background actions have no guard on `pc`.
Packets are not state: the isolation properties quantify over every destination the
client could name in the state reached, through the hook itself. `usb`, `ap` and `sta`
are links (address, subnet, the one lease). `lease` and `ap_lease` are what the clients
believe. The driver's habit of addressing a new AP and making it the default interface is
`ApEnable`. A configuration carries `ok` for `config_wg_complete`, `peerok` for whether
`wireguardif_add_peer` takes its keys, and `hint` for the DNS and MTU the AP hands on. The
WireGuard engine appears as `sess`, a session that a handshake with the configured
endpoint creates and time or silence removes, and `at`, the address it sends to. `at` is
`peer`, the endpoint the peer was registered with, until an authentic message from elsewhere
moves it (`Roam`, `update_peer_addr`); `wireguardif_connect` in `wg_poll` moves it back, when
a session is lost and every 10 s without one (`kick`). A handshake needs `at` to be where the
server is. An endpoint's address is its name, so a peer at the wrong server is `peer # wgc.ep`.

**Napt.** A slot is its NAT port. A packet is its flow and the TCP flag that matters.
`now` is unwrapped and differences are taken modulo `Wrap`, as `entry_live` does.

**BootClock.** `phase` follows `wg_time_init` through its read, erase and program. `last` is
the last stamp any boot produced. `torn` records that a boot died between erase and
program, or ran although the write was refused.

**WgPeer.** `kp` holds the three keypair slots. A session is named by the initiation it came
from, numbered across both sides, so keys are equal exactly when names are; a nonce is a name
and a counter. The replay check keeps 32 bits of the difference of two counters; `MaxRx`, the
number of messages the server sends in a session, is taken to be below 2^32, where nothing is
lost by that. `net` is every message the server has sent: a message in it may arrive at any
time, any number of times, or never. `wireguardif_tmr` is the whole timer, in the code's
order: expiry, keepalive, initiation, link flag. Its inputs say whether the keepalive
interval and the 5 s between initiations have passed and whether there is memory for the
message; `Tick` ages the keypairs and then waits for the timer, which runs every 400 ms.
`DataAccepted` keeps the code's order too: lookup, rotation, rekeying, replay check, the last
two through the pointer found first. `sent`, `answered`, `delivered` and `twice` are history.
A message counts as delivered when it passes the replay check; the check of its inner source
comes after and only drops.

**UsbNet.** `pc` is the place in `usb_net_update`; `DrainXmit`, `DrainAdvance` and `DrainFree` are
the drain's three steps, between which `usb_linkoutput` may push. `ref` counts pbuf
references, `stack` is what lwIP still holds. `ntb` is what TinyUSB has not handed over;
`tud_network_recv_cb` takes, refuses or drops it (the empty datagram it also accepts is not
offered by the driver). The clock, which is only read
where an iteration starts, counts modulo `WRAP`; the replug's deadlines are compared as
numbers and 0 means none, as in the code; a request may come at any time. `queued` and
`dropped_at` are history: what was accepted and not transmitted, and when the device was detached, 0 while it is not.

**Capture and Portal.** A cell of the ring knows the record it belongs to, so `Stream` parses
the bytes as a reader of the file would. `pcap_capture` evicts, wraps and writes as the code
does. Each lwIP callback of the portal is one action (they run under the lock). A peer may send
as often as it likes, also after its request was answered. `spans` are
the two segments a download points into, `want` what it promised; both are forgotten when
another download ends, because the code then resumes capturing (observation 6.6).

**SerialBridge.** Bytes are symbols. The pump moves one byte per action so that sinks may fill
and drain in between; `tn_process` is the telnet automaton. `owed` is what the client meant and
the line has not received, computed from the client's script and not from the automaton: a
script is a sequence of units (a byte of data, a verb with its option, a subnegotiation with any
payload), `Telnet` is what the client sends for a unit and `Meaning` the data in it. `Code` gives the byte
`cmd + 100` of a reply, which the code writes unescaped; `faults` tells a reply misread on that
account ("miscoded") from any other misreading. `Plain` is the other reference, what a telnet peer makes of a write of the bridge: a subnegotiation in it ends at
the first IAC SE that an even number of IACs precedes.

**Checksum.** A packet is the words that hops change, over words below `B` in place of 2^16;
the others are constants of the sums. `Ways` lists the ways through the device, `Step` takes a
hop. `odd` is a SYN whose options put the MSS at an odd offset, where its bytes are halves of two
words (`OptSum`, with bytes below `K`) while `clamp_mss` adjusts them as one; `flat` is a frame in one
buffer, the only kind that `eth_csum_restore` and `usb_net_update` look into. History: `refilled`
says that a hop computed a checksum afresh, which hides earlier corruption, `skewed` that the NAT
clamped at an odd offset.

**WifiConn.** The device is one record `d`, because a tick of `wifi_conn_task` is a chain of
calls over most of it; every call maps a state to the states it may leave (a refused scan or
join, a failed save). Deadlines are inputs of a tick: any of them may have passed. `NOJOIN` is
`UNTRIED`, from which only displays tell it. The signal strengths are taken from the results
when an order is built, which is when the code last copied them. A serial terminal coming or
going is folded into `Terminal` and `Poll`. `shown` is history: the numbered list on a screen. Any
line ends it, also a rescan the radio refuses, which has already emptied the results, and also a
line of the portal's console: the two consoles share one menu, so that a line takes the list out
of the terminal's hands although its text stays on the screen.

**Settings.** A command is one action: it runs to its end in the main loop and the save stops
everything else. `cfg` is the record, `live` what was last handed to the links, `flash` the
sector, `kept` what the last completed save stored. Texts are the values their parsers make
of them. Numbers keep the code's limits. A save may fail, which changes neither sector nor `kept`. An empty
name clears the endpoint. `live.tunnel` is what `wg.c` copied, which counts only while
`wg_configured` (`WgFor`); that `netif_add` may fail is in `Tunnel`. `country` is stored, but given to the radio at boot only, so `live` does
not have it. Wi-Fi commands appear only as part of the record.

## 4. Runs

| Run | Result | Shows |
|---|---|---|
| `tunnel` | passes | isolation of both clients up to two windows, confined exit traffic, the default route and the NAT table follow the tunnel, in all interleavings |
| `tunnel_recovers` | passes | after any three disturbances the tunnel comes back once the uplink stays |
| `tunnel_late_dns` | violated | an old DNS answer becomes the new tunnel's endpoint |
| `napt` | passes | one mapping per flow, never taken while live; refines `NatPromise` |
| `boot_clock` | passes | stamps increase over boots and power losses unless a count was lost |
| `wg_peer` | passes | fresh nonces, only confirmed keys used, no repeated delivery in sessions this side started, link flag follows the keypairs |
| `usb` | passes | the ring is a queue, references are exact, reception never wedges, and a detached device is attached again, whenever replugs are requested, over the clock's wrap |
| `portal` | passes | the ring always parses to the latest records, downloads are intact, no hold is lost, and no slot but to a peer that keeps sending |
| `bridge` | passes | telnet is undone exactly, nothing is overrun or misread, a client's bytes drain |
| `checksum` | passes | valid packets leave valid, corruption stays detectable, on every way, but for a clamp at an odd offset |
| `wifi` | passes | credentials that worked are stored, a list on a screen keeps its numbers, the mark stays with its network, the device reconnects |
| `settings` | passes | what runs is what is configured, values stay usable, what is loaded is what was stored |

The violated run states what `wg.h` says of a live apply; the finding in `PROJECT.json`
quotes it.

Some passing properties name an exception, a case that the code gets wrong. None is a precondition
that hides the case: `UsbHostIsolated` and `ApClientIsolated` speak of every state, say in their
windows too what cannot happen (the uplink, normal routing), and name the one thing that can (the
other client's link). Each exception is needed: without `bounce_at`, `Renumbered` or `pc = "ap_up"`
there, `skewed` in `LeavesValid`, the lost deadline in `ReplugEnds` or "miscoded" in
`ClientReadsTheLine`, the same run finds a counterexample. Section 6 lists them.

**Bounds.** `MaxDisturb` counts applies, uplink losses and session losses together: with
two, one apply can run into the consequences of another or of a loss, which is what every
known case needs; three in `tunnel_recovers`, which has fewer configurations. Messages that move
the peer's address count too. Two complete configurations with different pairs, a third with the
first one's device address in another subnet, and an incomplete one (the island) make all kinds
of re-addressing; two access points force a rebuild of a running one. In `tunnel` the
server is known by address; in the other tunnel runs by name, with DNS.
`tunnel_recovers` has two servers, so that a peer can be moved, and a late answer can come from
the other one. The uplink's subnet is
of public addresses in the runs, so `dest_is_local_scope`'s second disjunct is exercised.

In `napt`, two slots and four flows of all protocols fill the table; the timeouts 1, 2 and 3 let
entries of all classes die while others live within a horizon of six. In `boot_clock` the clock's
wrap and the boots' window are the smallest for which the window still exceeds the wrap, so
boots follow each other without a gap to hide an error in; `MaxBoots` ends a behaviour, which
is why deadlock is not checked there. In `wg_peer`, two handshakes, each started by either
side, rotate keypairs through all three slots; two messages per session in each direction
reach the message limit, the rekeying limit just below it and the edge of a two-bit replay
window; two ticks reach the reject age. Three full slots at once need a third handshake: the
theorems have no such bound.

In `usb`, two pbufs and a ring of three places hold a full ring (one place stays empty). Its clock
of six values wraps, with delays of three and two: a request may come at any of the times, put
another off, arrive while the device is detached, or have its deadlines on both sides of the wrap
and on 0. In `portal`, a request takes
up to two segments and a peer sends any number after it; a ring of five cells
takes records of two and three cells and so wraps at different offsets; two slots make two
downloads overlap, and responses are longer than the send buffer, so that they are sent in
pieces. In `bridge`, the scripts hold every kind of unit and an echo longer than `sb_buf`;
two have codes that are SE and IAC (commands 140 and 155); buffers of one byte and a budget of two cut them everywhere. `checksum` enumerates every packet
over words below four, of two bytes below two; carries, both zeros and both alignments occur. In `wifi`, three profiles (one hidden,
one with a wrong password, one out of range) are the fewest for which the order matters, and
`MaxEvents` counts commands and faults together: with two, a command meets the consequences of
another or of a fault. A full list of three also makes eviction happen. In `settings`, every
number is given on both sides of its limit and four commands lead from three stored records
through enabling, saving and restoring. Deadlock is not checked where a bound ends behaviours
(`boot_clock`), where a packet arrives (`checksum`), and in `bridge`, where
everybody may be silent.

**Fairness.** `Tunnel`: the main loop continues (the watchdog resets a loop that does not) and
polls, time passes (a poll finds again and again that 10 s have gone by since the last kick), the
server answers a handshake that reaches it for as long as the uplink stays, and the resolver
neither refuses nor fails one name for ever. Nothing but the code's kick brings the engine back
to the configured endpoint. `WifiConn`: the loop ticks and deadlines
pass, a radio pass ends, and a network that accepts a profile does so when tried often enough
(strong fairness: attempts may fail any number of times before). `UsbNet`: the loop goes on,
`tud_task` and the drain end, though the background may keep pushing (strong fairness for the
drain's end), the deadlines are looked at although commands may reschedule each time, and the clock
ticks. `Portal`: lwIP polls each open connection; nothing is assumed of how often a peer sends. `SerialBridge`: the
pump runs, and a sink that stays drains again and again (keepalives reap a peer that is gone).
Nothing is assumed of commands, losses or users, nor of the portal's and the tunnel's
clients.

## 5. Proofs

All theorems hold for every value of the constants under the named assumptions of the modules
(types and orders of bounds; for `Tunnel`, `SaneLinks`: a link's ends lie in its subnet and no
client is given an address the device uses; for `Settings`, `FlashAssumption`: the sector first
holds nothing or what a release saved; for `WifiConn`, at least three profile slots; for
`SerialBridge`, a reply buffer that holds an empty reply).

* `TunnelProofs!TypeCorrect`: types.
* `TunnelProofs!ExitSafe`, `NatSafe`: `ExitConfined` and `NatOfThisTunnel`. Neither is inductive:
  while an apply runs the flags may be ahead of or behind the configuration. `ExitInv` says at
  which positions `exit_on` and `exit_lan_on` may be set and that the table is empty from its
  reset until the flags are set again.
* `TunnelProofs!DefaultSafe`: `DefaultInv` adds where the AP may hold the default route, and that
  an interface in state "up" exists.
* `TunnelProofs!ApIsolation`: `ApClientIsolated` at every point of an apply. `ApInv` says that a client
  with a lease holds the current AP pair's address, and that the AP is up or an apply is between
  its DHCP server and `ap_up`, so that elsewhere the hook recognises it as a client; `OwnInv` that
  none of the device's addresses is a client's, which keeps normal routing out.
* `TunnelProofs!UsbIsolation`: the host's lease is that of the current link, or a replug is pending,
  or the link was renumbered under the same device address; whichever, it is no address of the
  device, and the hook sends what it does not know to the tunnel or nowhere.
* `NaptProofs`: `TypeCorrect`, `OneEntryPerFlow`, `NeverTaken` and `Refinement`, the last three
  below the clock's wrap (`NoWrap`). The argument classifies each step by what it does to the
  set of live entries of a flow: nothing, one new entry where there was none, fewer, or none left.
* `TunnelProofs!StampsSafe`: `IntactStampsIncrease` below the wrap. `StampInv` ties the sector to
  the last stamp: the next boot's window lies above it.
* `WgPeerProofs!NonceSafe`: `NonceFresh`. It is not inductive: it does not exclude that a name
  comes back through a late answer or a repeated initiation. `IdInv` does: a name in a slot or
  already encrypted with is not the pending handshake's, and if the server chose it, the
  stamp check refuses it from now on. `UsedFresh`, `AddFresh` and `UpdateFresh` say what sending,
  a new session and a promotion do to any keypairs and nonces. `TypeCorrect` and `LinkSafe`
  come from the same step lemmas.
* `WgPeerProofs!ConfirmedSafe` and `ReplaySafe`: `SendsConfirmed` and `InitiatorOnce`, from
  `RxInv`. `AllGood` says of each keypair that it is confirmed only by a message of the
  server, and, if this side started it, that its window marks everything it delivered;
  `NextTheirs` that only a session the server started waits in the next slot, which is why the
  pointer the replay check uses is the keypair's own in all other sessions; `DelInv` that no
  delivered message belongs to a handshake still pending.
* `UsbNetProofs!AlwaysUnwedged`: `NeverWedged` with the type of `ntb`.
* `UsbNetProofs!TypeCorrect`, `AlwaysQueue`, `AlwaysExact`: `UsbInv`. `RingInv` reads the ring as a
  sequence (`Window`) and relates it to what was pushed at each place of the drain; the lemmas on
  windows say what a push, a take and a wrap do to it. `RefInv` counts each pbuf's holders, and
  says that a frame from the host that lwIP has not seen has one; `FlagInv` holds the other types.
* `PortalProofs!AlwaysHeldForAReader` and `AlwaysDownloadIntact`: `PortalInv`, by which spans are
  remembered only while the ring is held; the ring does not change then, whatever `Stream` reads.
* `PortalProofs!AlwaysLatest`: `StreamIsLatest`. `RingInv` describes the ring by tilings: a stretch of
  cells holds consecutive records, and a function says where each starts. Unwrapped, one tiling
  reaches from cell 0 to the head; wrapped, the older one from the tail to the top ends with the
  number the newer one begins with, and the head has not passed the tail. `ParseTiled` says that
  a reader finds a tiling's records, `EvictTiled` that the tail comes to rest on one of its
  boundaries clear of the room needed, or uses it up, and `TiledMore` and `TiledKept` what the new
  record does to the two tilings.
* `NaptProofs!AlwaysLeavesValid` and `AlwaysCorruptionKept`: `LeavesValid` and `CorruptionKept` for
  words of every size, the code's 16 bits included. `fold` has a closed form (the sum modulo
  `B - 1`, with `B - 1` in place of 0 unless the sum is 0) that solves its equation (`FoldExists`).
  Hence a computed checksum sums to all ones (`Finished`) and RFC 1624's update keeps a right sum right and a wrong
  one wrong (`Adjusted`). Every hop either adjusts or fills, or passes on a packet in several buffers, which no repair
  after it depends on; `CsumInv` says what is true of the packet between hops, given the hops still
  to come. Both properties except the clamp at an odd offset (`skewed`), and the second also packets
  whose checksum a hop had to write afresh.
* `WifiProofs!TypeCorrect`, `AlwaysCredsStored`, `AlwaysListKept` and `MarkStaysPut`: `WifiInv`
  (`AlwaysSound`). Besides types it says that an order names existing profiles and is tried from its
  front, that only the first profile can be marked connected, that the flash covers the running
  list unless credentials wait to be proved or a save failed, and that a list on a screen is the scanner's table, which
  nobody but the console touches meanwhile. One lemma per call says what it makes of any sound
  state. `wifi_pick_order` is a CHOOSE of a ranking: that one exists is shown by counting, a
  profile's place being one more than the number of those ahead of it.
* `BridgeProofs!LineGets`, `ClientReads`, `AlwaysBuffersHold` from `BridgeInv` (`AlwaysFaithful`), and
  `NeverOverrun`. `BridgeInv` says that what is owed is exactly what the parser, in the state it
  is in, will pass to the line out of the bytes received and still on the wire. `Reads` describes
  the parser as a reader of sequences that may be cut anywhere (`ReadsJoin`), and every unit of a
  script is shown to bring it back to its first state having passed on what was meant. For the
  replies, an escaped payload is a sequence of even runs of IAC (`EvenRun`), so the reference finds
  the end where the bridge put it, if the code before the payload is not IAC itself: any other
  code, SE included, is data of the subnegotiation.
* `SettingsProofs!AlwaysLive`, `AlwaysSane`, `AlwaysStored`: `SettingsInv` carries the same facts for
  the running record and for what the sector loads, since a restore and a start bring that back.
  One lemma per setter says its result is a sane record.

Sequences, payloads and rings of any length need induction. The library's induction theorems take
an operator, which the provers cannot instantiate; `Climb` states induction for a set of numbers
instead and follows from the pigeonhole principle for finite sets (`FS_Injection`). With it, recursive
functions (`Parse`, `evict`, `Plain`, `FlattenSeq`) are shown to exist and to have the values wanted.

Two modules were corrected by their proofs. A rescan that the radio refuses empties the results
behind a numbered list: `ListKept` was not inductive until `config_proto_handle_line` said that
any line ends the list. And `Plain` took an IAC SE inside an escaped payload for its end when a
run of IACs preceded it; it now counts them.

Only model-checked: all liveness (`Recovers`, `ReplugEnds`, `SlotsComeBack`, `ClientDrains`,
`Reconnects`), which the prover does not do, and everything beyond `NoWrap`.

## 6. Observations

Met while modelling, where the code does other than a comment says, or where the model had to
be limited. None of them is claimed
by a property. (The late DNS answer is the finding of `tunnel_late_dns`.)

1. Isolation has two windows and a gap. From a re-address to the replug, 5 s and more, the host's
   old lease is not in the current subnet, so the hook does not keep its packets from the AP client
   (`wg.c:223`; the repository's `README.md:59-61` says "never between USB host and AP client"). The AP's
   DHCP server runs before `ap_up` is set, and a client that takes its lease in between is not
   recognised (`ap.c:162-168`; comment at `wg.c:210-212`). And a new subnet under the same device
   address schedules no replug at all (`main.c:140` compares addresses; comment at `main.c:131-132`).
2. `tcp_track` never leaves the closing state (`napt.c:149`): a connection that reuses the port
   of a closed one keeps the short timeout.
3. Handshake stamps fall back after 49.7 days of uptime, when the 32-bit milliseconds of
   `wg.c:144` wrap.
4. The message that promotes the next keypair can be delivered twice (`wireguardif.c:392`): the
   replay check marks the slot the keypair has just left. `InitiatorOnce` leaves those sessions out.
5. `wireguardif_peer_is_up` accepts a previous keypair of any age (`wireguardif.c:773`). The
   reset branch at `wireguardif.c:913` never runs, and the rate limit at `wireguard.c:614`
   subtracts in an order that limits only initiations within one millisecond. After the station's address changes, exit traffic
   uses the old one until the next poll (`wg.c:421`).
6. Of two downloads the first to end resumes capturing under the other (`http_portal.c:233`, `347`).
7. `pcap_capture` is called by the main loop without the lock (`usb_net.c:305`, `413`) and by the
   AP's taps in the background (`ap.c:42`, `51`): with an AP up, one may preempt the other inside
   a record. `Portal` captures in one step and so covers the USB link alone.
8. A staged join that evicts a profile during an attempt leaves `trying` naming another one
   (`wifi_conn.c:144-147`); the attempt still succeeds or fails, and `MarkStays` holds.
   `wifi_conn_task` uses the link state it read before its calls, and calls `wifi_scan_*` without
   the driver's lock.
9. Results of an abandoned scan are not ignored (`wifi_scan.h:45-47` says they are): a list
   printed while an abandoned pass still runs may be renumbered.
10. A scan begun through the portal's console without a terminal keeps the manager waiting until
    a terminal comes (`serial_console.c:169-171`); `Reconnects` assumes the console lets go.
11. `creds_unsaved` is cleared although the save failed (`wifi_conn.c:163`); `CredsStored` says so.
12. The bridge gives the host's port priority over the TCP client, which can starve; a client's
    FIN drops what was not yet drained; the result of `tcp_write` is not looked at.
13. An MSS option at an odd offset is clamped with the wrong checksum (`napt.c:131-137`):
    a valid SYN leaves invalid, and a corrupt one may leave valid. `tests/test_main.c:530` says "after
    any rewrite"; its test has the option aligned.
14. The code of an RFC 2217 reply is written unescaped (`serial_bridge.c:88`): the answer to command
    155 holds a lone 0xFF, and the client's reading is put off. `ClientReadsTheLine` excepts it.
15. Every segment resets a portal connection's idle count, also after its request was answered
    (`http_portal.c:443`): a peer that keeps sending and does not read holds one of the two slots.
16. A replug deadline that comes out as exactly 0 means "none" (`usb_net.c:383`, `393`): once in 2^32
    a request is lost, or a detached device is not attached until the next one.
17. A line typed in the portal's console also ends the list that a terminal's user is choosing from.
18. `set keepalive` and `set mtu` take text that is not a number as 0. `config.h` says the record
    is in the last flash sector; it is in the third from the top.

## 7. Not modelled

Cryptography (ideal here), packet bytes other than checksums, formatting and parsing of text
(listings, JSON, HTTP headers, line editing), LEDs, statistics, the crash log, USB descriptors,
the host's tests and tools. Of the engine: cookie replies and load, more than one peer. Of the DHCP server: options and the reply's layout; its one lease
per link is in `Tunnel`.
