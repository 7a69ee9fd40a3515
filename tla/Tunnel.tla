------------------------------ MODULE Tunnel ------------------------------
(***************************************************************************)
(* The tunnel's life: the live apply of a configuration (main.c apply_wg), *)
(* the WireGuard interface's set-up, tear-down and monitoring (wg.c), the  *)
(* quarantine access point that follows it (ap.c), the logical USB replug  *)
(* (usb_net.c) and the routing hook all of them feed.                      *)
(*                                                                         *)
(* Two contexts run.  The main loop applies configurations and polls; its  *)
(* operations are cut at every point where the lwIP lock is not held,      *)
(* because there the background context (Wi-Fi and lwIP: DNS callbacks,    *)
(* handshakes, AP and tunnel packets) preempts it.  USB frames are pumped  *)
(* by the main loop itself, so the USB host acts only at pc = "idle".      *)
(*                                                                         *)
(* Packets are not state: the isolation properties quantify over the       *)
(* packets a client could send in the state reached.                       *)
(***************************************************************************)
EXTENDS Naturals

CONSTANTS
  Addr,        \* IPv4 addresses
  None,        \* the unset address, endpoint, mapping, access point
  Endpoint,    \* configured server endpoints; its address is the name itself
  Hostname,    \* the endpoints that are names and need DNS
  WgConf,      \* cfg->wg values: see WgRecord
  ApConf,      \* cfg->ap values that are enabled and complete: see LinkRecord
  Island,      \* the bring-up link used without a complete configuration
  Glue,        \* the link the Wi-Fi driver gives a freshly enabled AP
  StaLink,     \* what the uplink's DHCP server may give the station
  LocalScope,  \* RFC 1918, CGNAT, link-local and loopback addresses
  MaxDisturb   \* bound on applies, link losses and session losses

LinkRecord == [addr: Addr, net: SUBSET Addr, host: Addr]
WgRecord == [ok: BOOLEAN, addr: Addr, net: SUBSET Addr, host: Addr,
             ep: Endpoint, peerok: BOOLEAN, exit: BOOLEAN, exitlan: BOOLEAN,
             hint: BOOLEAN]

\* The link of an interface without an address.
NoLink == [addr |-> None, net |-> {}, host |-> None]

\* The device's end and the client's end of a link.
DevOf(s) == {l.addr : l \in s}
CliOf(s) == {l.host : l \in s}

ASSUME ConstTypes ==
  /\ None \notin Addr /\ None \notin Endpoint
  /\ None \notin WgConf /\ None \notin ApConf
  /\ Hostname \subseteq Endpoint
  /\ LocalScope \subseteq Addr
  /\ WgConf \subseteq WgRecord
  /\ ApConf \subseteq LinkRecord
  /\ Island \in LinkRecord
  /\ Glue \in LinkRecord
  /\ StaLink \subseteq LinkRecord
  /\ MaxDisturb \in Nat

\* What the operator is trusted with: a link's two ends lie in its subnet,
\* and no client is given an address the device itself uses somewhere.
ASSUME SaneLinks ==
  /\ \A l \in WgConf \cup ApConf \cup {Island} : l.addr \in l.net /\ l.host \in l.net
  /\ CliOf(WgConf \cup ApConf \cup {Island})
       \cap DevOf(WgConf \cup ApConf \cup {Island, Glue} \cup StaLink) = {}

VARIABLES
  pc,                \* the main loop's position, "idle" between operations
  job,               \* which apply is running: apply_wg or ap_apply alone
  cfg, apc,          \* cfg->wg and cfg->ap (None: disabled or incomplete)
  wg_configured, wgc,
  wg_netif_added, wg_state,
  endpoint_addr, endpoint_resolved,
  peer,              \* endpoint of the registered peer, None without one
  at,                \* peer->ip: where the engine sends, the server may move it
  sess,              \* wireguardif_peer_is_up: the peer has a session
  exit_on, exit_lan_on,
  ext_ip,            \* napt's external address
  nat,               \* whose mappings the NAT table holds
  up,                \* wg_poll's local, FALSE outside it
  resolve_due,       \* 15 s have passed since the last DNS query
  dns,               \* names with a query in flight
  usb,               \* address, subnet and DHCP lease of the USB link
  ap, ap_radio, ap_dhcp, ap_up, applied,
  sta, sta_up,       \* the station's address and its link
  netif_default,
  lease,             \* the address the USB host uses
  ap_lease,          \* the address the AP client uses
  bounce_at, reconnect_at, \* the replug's two timers are set
  applied_addr,
  disturb            \* disturbances left

apvars  == <<ap, ap_radio, ap_dhcp, ap_up, applied, ap_lease>>
usbvars == <<usb, lease, bounce_at, reconnect_at, applied_addr>>
stavars == <<sta, sta_up>>
epvars  == <<endpoint_addr, endpoint_resolved, dns, resolve_due>>
wgvars  == <<wg_configured, wgc, wg_netif_added, wg_state, peer, at, sess, up>>
natvars == <<exit_on, exit_lan_on, ext_ip, nat>>
cfgvars == <<job, cfg, apc, disturb>>
vars == <<pc, cfgvars, wgvars, epvars, natvars, usbvars, apvars, stavars, netif_default>>

(***************************************************************************)
(* The routing hook.                                                       *)
(***************************************************************************)
in_usb_subnet(a) == usb.addr # None /\ a \in usb.net

in_ap_subnet(a) == ap_up /\ ap.addr # None /\ a \in ap.net

dest_is_local_scope(d) == d \in LocalScope \/ (sta.addr # None /\ d \in sta.net)

is_own_addr(a) ==
  \/ a \in {usb.addr, ap.addr, sta.addr} \ {None}
  \/ wg_netif_added /\ a = wgc.addr

\* Where overlay and client traffic goes that is bound for neither client link.
Onward(inp, dest) ==
  IF exit_on /\ wg_netif_added /\ inp = "wg"
  THEN IF ~exit_lan_on /\ dest_is_local_scope(dest) THEN "blackhole" ELSE "sta"
  ELSE IF wg_netif_added THEN "wg" ELSE "blackhole"

\* The interface a packet from src that came in on inp is sent to; "normal"
\* is the hook's NULL, which leaves the decision to lwIP.
wg_ip4_route_hook(inp, src, dest) ==
  IF is_own_addr(src) THEN "normal"
  ELSE IF in_usb_subnet(dest)
       THEN IF in_ap_subnet(src) THEN "blackhole" ELSE "usb"
  ELSE IF in_ap_subnet(dest)
       THEN IF in_usb_subnet(src) THEN "blackhole" ELSE "ap"
  ELSE Onward(inp, dest)

(***************************************************************************)
(* Applying a configuration (main loop).                                   *)
(***************************************************************************)
Init ==
  /\ pc = "addr" /\ job = "wg"
  /\ cfg \in WgConf /\ apc \in ApConf \cup {None}
  /\ wg_configured = FALSE /\ wgc = cfg /\ wg_netif_added = FALSE
  /\ wg_state = "unconfigured" /\ peer = None /\ at = None /\ sess = FALSE /\ up = FALSE
  /\ endpoint_addr = None /\ endpoint_resolved = FALSE /\ dns = {} /\ resolve_due = TRUE
  /\ exit_on = FALSE /\ exit_lan_on = FALSE /\ ext_ip = None /\ nat = None
  /\ usb = NoLink /\ lease = None /\ bounce_at = FALSE /\ reconnect_at = FALSE
  /\ applied_addr = None
  /\ ap = NoLink /\ ap_radio = FALSE /\ ap_dhcp = FALSE /\ ap_up = FALSE
  /\ applied = None /\ ap_lease = None
  /\ sta = NoLink /\ sta_up = FALSE
  /\ netif_default = "sta"
  /\ disturb = MaxDisturb

\* A console or portal command that returns SET_WG: apply_wg starts.
CmdSetWg(c) ==
  /\ pc = "idle" /\ disturb > 0
  /\ pc' = "addr" /\ job' = "wg" /\ cfg' = c /\ disturb' = disturb - 1
  /\ UNCHANGED <<apc, wgvars, epvars, natvars, usbvars, apvars, stavars, netif_default>>

\* A command that returns SET_AP: only ap_apply runs.
CmdSetAp(a) ==
  /\ pc = "idle" /\ disturb > 0
  /\ pc' = "ap" /\ job' = "ap" /\ apc' = a /\ disturb' = disturb - 1
  /\ UNCHANGED <<cfg, wgvars, epvars, natvars, usbvars, apvars, stavars, netif_default>>

\* The USB link gets the tunnel pair, or the island.
LinkOf(c) ==
  IF c.ok THEN [addr |-> c.addr, net |-> c.net, host |-> c.host] ELSE Island

ApplyUsbAddr ==
  /\ pc = "addr"
  /\ usb' = LinkOf(cfg)
  /\ pc' = "teardown"
  /\ UNCHANGED <<cfgvars, wgvars, epvars, natvars, lease, bounce_at, reconnect_at, applied_addr,
                 apvars, stavars, netif_default>>

\* wg_teardown, the part under the lock; default is the new default route.
Teardown(default) ==
  /\ pc = "teardown"
  /\ netif_default' = default
  /\ wg_netif_added' = FALSE
  /\ peer' = None /\ at' = None /\ sess' = FALSE
  /\ pc' = "td_state"
  /\ UNCHANGED <<cfgvars, wg_configured, wgc, wg_state, up, epvars, natvars, usbvars,
                 apvars, stavars>>

\* The mutant leaves the default route on the interface it removes.
TeardownKeepsDefault == Teardown(netif_default)

TeardownNetif ==
  Teardown(IF wg_netif_added /\ netif_default = "wg" THEN "sta" ELSE netif_default)

TeardownState ==
  /\ pc = "td_state"
  /\ wg_state' = "unconfigured"
  /\ endpoint_resolved' = FALSE
  /\ pc' = "td_exit"
  /\ UNCHANGED <<cfgvars, wg_configured, wgc, wg_netif_added, peer, at, sess, up,
                 endpoint_addr, dns, resolve_due, natvars, usbvars, apvars, stavars,
                 netif_default>>

TeardownExit ==
  /\ pc = "td_exit"
  /\ exit_on' = FALSE /\ exit_lan_on' = FALSE
  /\ pc' = "td_nat"
  /\ UNCHANGED <<cfgvars, wgvars, epvars, ext_ip, nat, usbvars, apvars, stavars,
                 netif_default>>

ResetTo(table) ==
  /\ pc = "td_nat"
  /\ nat' = table
  /\ pc' = "config"
  /\ UNCHANGED <<cfgvars, wgvars, epvars, exit_on, exit_lan_on, ext_ip, usbvars, apvars,
                 stavars, netif_default>>

\* The mutant leaves the old tunnel's mappings in the table.
TeardownNoReset == ResetTo(nat)

TeardownNat == ResetTo(None)

\* wg_apply up to the exit flags: an incomplete configuration goes no further.
ApplyConfig ==
  /\ pc = "config"
  /\ wg_configured' = cfg.ok
  /\ wgc' = IF cfg.ok THEN cfg ELSE wgc
  /\ pc' = IF ~cfg.ok THEN "ap" ELSE IF cfg.exit THEN "exit" ELSE "endpoint"
  /\ UNCHANGED <<cfgvars, wg_netif_added, wg_state, peer, at, sess, up, epvars,
                 natvars, usbvars, apvars, stavars, netif_default>>

SetExit(lan) ==
  /\ pc = "exit"
  /\ exit_lan_on' = lan
  /\ ext_ip' = sta.addr
  /\ pc' = "exit_on"
  /\ UNCHANGED <<cfgvars, wgvars, epvars, exit_on, nat, usbvars, apvars, stavars,
                 netif_default>>

\* The mutant lets exit peers reach the local network whatever was configured.
ExitLanAlways == SetExit(TRUE)

ApplyExit == SetExit(wgc.exitlan)

ApplyExitOn ==
  /\ pc = "exit_on"
  /\ exit_on' = TRUE
  /\ pc' = "endpoint"
  /\ UNCHANGED <<cfgvars, wgvars, epvars, exit_lan_on, ext_ip, nat, usbvars, apvars,
                 stavars, netif_default>>

\* A literal endpoint is resolved on the spot.
ApplyEndpoint ==
  /\ pc = "endpoint"
  /\ IF wgc.ep \in Hostname
     THEN UNCHANGED <<endpoint_addr, endpoint_resolved>>
     ELSE endpoint_addr' = wgc.ep /\ endpoint_resolved' = TRUE
  /\ pc' = "netif"
  /\ UNCHANGED <<cfgvars, wgvars, dns, resolve_due, natvars, usbvars, apvars, stavars,
                 netif_default>>

\* netif_add under the lock; it fails when the interface cannot be initialised.
ApplyNetif ==
  /\ pc = "netif"
  /\ \/ wg_netif_added' = TRUE /\ wg_state' = "resolving"
     \/ UNCHANGED <<wg_netif_added, wg_state>>
  /\ pc' = "ap"
  /\ UNCHANGED <<cfgvars, wg_configured, wgc, peer, at, sess, up, epvars, natvars,
                 usbvars, apvars, stavars, netif_default>>

(***************************************************************************)
(* ap_apply.                                                               *)
(***************************************************************************)
\* ap_apply returns: to apply_wg's announcement, or to the loop.
ApReturn == IF job = "wg" THEN "announce" ELSE "idle"

\* What a running AP depends on: its own record and the tunnel-side DNS/MTU.
ApWanted == <<apc, cfg.hint>>

ApDecide ==
  /\ pc = "ap"
  /\ pc' = IF ap_up
           THEN IF apc # None /\ applied = ApWanted THEN ApReturn ELSE "ap_off"
           ELSE IF apc # None THEN "ap_glue" ELSE ApReturn
  /\ UNCHANGED <<cfgvars, wgvars, epvars, natvars, usbvars, apvars, stavars, netif_default>>

\* ap_teardown: the radio drops the client first, then the interface is cleared.
RadioOff(client) ==
  /\ pc = "ap_off"
  /\ ap_radio' = FALSE /\ ap_lease' = client
  /\ pc' = "ap_clear"
  /\ UNCHANGED <<cfgvars, wgvars, epvars, natvars, usbvars, ap, ap_dhcp, ap_up, applied,
                 stavars, netif_default>>

\* The mutant re-addresses the AP under a client that stays.
ApKeepsClient == RadioOff(ap_lease)

ApRadioOff == RadioOff(None)

ApClear ==
  /\ pc = "ap_clear"
  /\ ap' = NoLink /\ ap_dhcp' = FALSE /\ ap_up' = FALSE
  /\ pc' = IF apc # None THEN "ap_glue" ELSE ApReturn
  /\ UNCHANGED <<cfgvars, wgvars, epvars, natvars, usbvars, ap_radio, applied, ap_lease,
                 stavars, netif_default>>

\* cyw43_arch_enable_ap_mode: the driver addresses the AP and makes it default.
ApEnable ==
  /\ pc = "ap_glue"
  /\ ap_radio' = TRUE
  /\ ap' = Glue
  /\ netif_default' = "ap"
  /\ pc' = "ap_addr"
  /\ UNCHANGED <<cfgvars, wgvars, epvars, natvars, usbvars, ap_dhcp, ap_up, applied,
                 ap_lease, stavars>>

Readdress(fallback) ==
  /\ pc = "ap_addr"
  /\ ap' = apc
  /\ netif_default' = IF wg_state = "up" /\ wg_netif_added THEN "wg" ELSE fallback
  /\ pc' = "ap_dhcp"
  /\ UNCHANGED <<cfgvars, wgvars, epvars, natvars, usbvars, ap_radio, ap_dhcp, ap_up,
                 applied, ap_lease, stavars>>

\* The mutant hands the default route to nobody when the tunnel is down.
ApNoDefault == Readdress("none")

ApAddress == Readdress("sta")

ApServeDhcp ==
  /\ pc = "ap_dhcp"
  /\ ap_dhcp' = TRUE
  /\ pc' = "ap_up"
  /\ UNCHANGED <<cfgvars, wgvars, epvars, natvars, usbvars, ap, ap_radio, ap_up, applied,
                 ap_lease, stavars, netif_default>>

ApUp ==
  /\ pc = "ap_up"
  /\ applied' = ApWanted /\ ap_up' = TRUE
  /\ pc' = ApReturn
  /\ UNCHANGED <<cfgvars, wgvars, epvars, natvars, usbvars, ap, ap_radio, ap_dhcp,
                 ap_lease, stavars, netif_default>>

\* The end of apply_wg; replug tells whether one is scheduled.
Announced(replug) ==
  /\ pc = "announce"
  /\ bounce_at' = (bounce_at \/ replug)
  /\ applied_addr' = usb.addr
  /\ pc' = "idle"
  /\ UNCHANGED <<cfgvars, wgvars, epvars, natvars, usb, lease, reconnect_at, apvars, stavars,
                 netif_default>>

\* The mutant forgets the replug.
AnnounceNoBounce == Announced(FALSE)

\* Replug when the device's own address changed (a pending replug is re-armed);
\* never on the boot-time apply, where applied_addr is None.
Announce == Announced(applied_addr # None /\ usb.addr # applied_addr)

(***************************************************************************)
(* wg_poll (main loop, once a second).                                     *)
(***************************************************************************)
Pollable == wg_configured /\ wg_netif_added /\ sta_up

\* wg_poll's early returns.
PollNothing ==
  /\ pc = "idle" /\ ~Pollable
  /\ UNCHANGED vars

PolledExtIp == IF exit_on THEN sta.addr ELSE ext_ip

\* An unresolved endpoint is asked for every 15 s: the answer is cached, or a
\* query is queued, or the resolver refuses.
PollAsk(outcome) ==
  /\ pc = "idle" /\ Pollable /\ wg_state = "resolving"
  /\ ~endpoint_resolved /\ resolve_due
  /\ ext_ip' = PolledExtIp
  /\ resolve_due' = FALSE
  /\ dns' = IF outcome = "queued" THEN dns \cup {wgc.ep} ELSE dns
  /\ IF outcome = "cached"
     THEN endpoint_addr' = wgc.ep /\ endpoint_resolved' = TRUE
     ELSE UNCHANGED <<endpoint_addr, endpoint_resolved>>
  /\ pc' = "addpeer"
  /\ UNCHANGED <<cfgvars, wgvars, exit_on, exit_lan_on, nat, usbvars, apvars, stavars,
                 netif_default>>

\* Resolved already, or asked less than 15 s ago.
PollWait ==
  /\ pc = "idle" /\ Pollable /\ wg_state = "resolving"
  /\ endpoint_resolved \/ ~resolve_due
  /\ ext_ip' = PolledExtIp
  /\ pc' = "addpeer"
  /\ UNCHANGED <<cfgvars, wgvars, epvars, exit_on, exit_lan_on, nat, usbvars, apvars,
                 stavars, netif_default>>

\* wg_add_peer_and_connect, once the endpoint is known; else state stays.
AddPeer(state) ==
  /\ pc = "addpeer"
  /\ IF endpoint_resolved /\ wgc.peerok
     THEN peer' = endpoint_addr /\ at' = endpoint_addr /\ wg_state' = "handshaking"
     ELSE /\ wg_state' = IF endpoint_resolved THEN "unconfigured" ELSE state
          /\ UNCHANGED <<peer, at>>
  /\ pc' = "idle"
  /\ UNCHANGED <<cfgvars, wg_configured, wgc, wg_netif_added, sess, up, epvars, natvars,
                 usbvars, apvars, stavars, netif_default>>

\* The mutant gives up when the endpoint is not resolved at the first poll.
AddPeerGivesUp == AddPeer("unconfigured")

PollAddPeer == AddPeer(wg_state)

\* Session monitoring: the session is read under the lock and acted on after.
PollMonitor ==
  /\ pc = "idle" /\ Pollable /\ wg_state # "resolving"
  /\ ext_ip' = PolledExtIp
  /\ up' = (peer # None /\ sess)
  /\ pc' = "act"
  /\ UNCHANGED <<cfgvars, wg_configured, wgc, wg_netif_added, wg_state, peer, at, sess,
                 epvars, exit_on, exit_lan_on, nat, usbvars, apvars, stavars,
                 netif_default>>

\* down is the default route once an established session is gone; kick says that
\* 10 s have passed since the last wireguardif_connect, which sends the engine
\* back to the configured endpoint (it repeats its initiations by itself).
Act(down, kick) ==
  /\ pc = "act"
  /\ IF up /\ wg_state # "up"
     THEN wg_state' = "up" /\ netif_default' = "wg" /\ UNCHANGED at
     ELSE IF ~up /\ wg_state = "up"
     THEN wg_state' = "handshaking" /\ netif_default' = down /\ at' = peer
     ELSE /\ at' = IF ~up /\ kick THEN peer ELSE at
          /\ UNCHANGED <<wg_state, netif_default>>
  /\ pc' = "idle" /\ up' = FALSE
  /\ UNCHANGED <<cfgvars, wg_configured, wgc, wg_netif_added, peer, sess, epvars,
                 natvars, usbvars, apvars, stavars>>

\* The mutants leave the default route on a tunnel without a session, and drop
\* the periodic kick.
ActKeepsDefault(kick) == Act("wg", kick)
ActNeverKicks(kick) == Act("sta", FALSE)

PollAct(kick) == Act("sta", kick)

(***************************************************************************)
(* The replug and the USB host (main loop: usb_net_update).                *)
(***************************************************************************)
BounceDetach ==
  /\ pc = "idle" /\ bounce_at
  /\ bounce_at' = FALSE /\ reconnect_at' = TRUE
  /\ lease' = None
  /\ UNCHANGED <<pc, cfgvars, wgvars, epvars, natvars, usb, applied_addr, apvars, stavars,
                 netif_default>>

BounceAttach ==
  /\ pc = "idle" /\ reconnect_at
  /\ reconnect_at' = FALSE
  /\ UNCHANGED <<pc, cfgvars, wgvars, epvars, natvars, usb, lease, bounce_at, applied_addr,
                 apvars, stavars, netif_default>>

\* The USB host runs DHCP: dhcp_usb has the one lease of the current link.
UsbHostDhcp ==
  /\ pc = "idle" /\ ~reconnect_at
  /\ lease' = usb.host
  /\ UNCHANGED <<pc, cfgvars, wgvars, epvars, natvars, usb, bounce_at, reconnect_at, applied_addr, apvars,
                 stavars, netif_default>>

(***************************************************************************)
(* The background context, at any position of the main loop.               *)
(***************************************************************************)
\* dns_resolved_cb: an answer, or the failure of the query.
DnsAnswer(n, good) ==
  /\ n \in dns
  /\ dns' = dns \ {n}
  /\ IF good THEN endpoint_addr' = n /\ endpoint_resolved' = TRUE
             ELSE UNCHANGED <<endpoint_addr, endpoint_resolved>>
  /\ UNCHANGED <<pc, cfgvars, wgvars, resolve_due, natvars, usbvars, apvars, stavars,
                 netif_default>>

\* The tunnel's server, which is at the configured endpoint, answers the
\* initiations that the engine keeps sending (WgPeer's wireguardif_tmr).
HandshakeDone ==
  /\ peer # None /\ at = wgc.ep /\ sta_up /\ ~sess
  /\ sess' = TRUE
  /\ UNCHANGED <<pc, cfgvars, wg_configured, wgc, wg_netif_added, wg_state, peer, at, up,
                 epvars, natvars, usbvars, apvars, stavars, netif_default>>

\* An authentic message of the server from another address e: the engine sends
\* there from now on.  The message may complete a handshake of the server's.
Roam(e) ==
  /\ peer # None /\ e # at /\ sta_up /\ disturb > 0
  /\ at' = e /\ sess' \in {sess, TRUE} /\ disturb' = disturb - 1
  /\ UNCHANGED <<pc, job, cfg, apc, wg_configured, wgc, wg_netif_added, wg_state, peer,
                 up, epvars, natvars, usbvars, apvars, stavars, netif_default>>

SessionLost ==
  /\ sess /\ disturb > 0
  /\ sess' = FALSE /\ disturb' = disturb - 1
  /\ UNCHANGED <<pc, job, cfg, apc, wg_configured, wgc, wg_netif_added, wg_state, peer,
                 at, up, epvars, natvars, usbvars, apvars, stavars, netif_default>>

\* Overlay traffic leaves through the station: the NAT gets a mapping.
ExitTraffic ==
  /\ peer # None /\ sess /\ sta_up /\ exit_on /\ ext_ip # None
  /\ \E src, dest \in Addr : wg_ip4_route_hook("wg", src, dest) = "sta"
  /\ nat' = wgc
  /\ UNCHANGED <<pc, cfgvars, wgvars, epvars, exit_on, exit_lan_on, ext_ip, usbvars,
                 apvars, stavars, netif_default>>

\* The uplink associates, is given an address, and drops: the address of a
\* station that lost its link may survive it.
StaLinkUp ==
  /\ ~sta_up
  /\ sta_up' = TRUE
  /\ UNCHANGED <<pc, cfgvars, wgvars, epvars, natvars, usbvars, apvars, sta, netif_default>>

StaDhcp(l) ==
  /\ sta_up /\ sta # l
  /\ sta' = l
  /\ UNCHANGED <<pc, cfgvars, wgvars, epvars, natvars, usbvars, apvars, sta_up,
                 netif_default>>

StaDown ==
  /\ sta_up /\ disturb > 0
  /\ sta_up' = FALSE /\ sta' \in {sta, NoLink}
  /\ disturb' = disturb - 1
  /\ UNCHANGED <<pc, job, cfg, apc, wgvars, epvars, natvars, usbvars, apvars,
                 netif_default>>

\* A client associates with the AP and takes its one lease.
ApClientDhcp ==
  /\ ap_radio /\ ap_dhcp /\ ap_lease # ap.host
  /\ ap_lease' = ap.host
  /\ UNCHANGED <<pc, cfgvars, wgvars, epvars, natvars, usbvars, ap, ap_radio, ap_dhcp,
                 ap_up, applied, stavars, netif_default>>

\* The 15 s between two DNS queries pass.
TimePasses ==
  /\ ~resolve_due
  /\ resolve_due' = TRUE
  /\ UNCHANGED <<pc, cfgvars, wg_configured, wgc, wg_netif_added, wg_state, peer, at, sess, up,
                 endpoint_addr, endpoint_resolved, dns, natvars, usbvars, apvars, stavars,
                 netif_default>>

ApplyStep ==
  \/ ApplyUsbAddr \/ TeardownNetif \/ TeardownState \/ TeardownExit \/ TeardownNat
  \/ ApplyConfig \/ ApplyExit \/ ApplyExitOn \/ ApplyEndpoint \/ ApplyNetif
  \/ ApDecide \/ ApRadioOff \/ ApClear \/ ApEnable \/ ApAddress \/ ApServeDhcp \/ ApUp
  \/ Announce

PollStep ==
  \/ PollNothing
  \/ \E outcome \in {"cached", "queued", "refused"} : PollAsk(outcome)
  \/ PollWait \/ PollAddPeer \/ PollMonitor
  \/ \E kick \in BOOLEAN : PollAct(kick)

UsbStep == BounceDetach \/ BounceAttach \/ UsbHostDhcp

Background ==
  \/ \E n \in Hostname, good \in BOOLEAN : DnsAnswer(n, good)
  \/ HandshakeDone \/ (\E e \in Endpoint : Roam(e)) \/ SessionLost \/ ExitTraffic
  \/ StaLinkUp \/ (\E l \in StaLink : StaDhcp(l)) \/ StaDown
  \/ ApClientDhcp \/ TimePasses

Next ==
  \/ \E c \in WgConf : CmdSetWg(c)
  \/ \E a \in ApConf \cup {None} : CmdSetAp(a)
  \/ ApplyStep \/ PollStep \/ UsbStep \/ Background

\* The loop keeps running and polling, and time passes (10 s again and again);
\* the server answers handshakes; the resolver does not refuse or fail one name
\* for ever.
Fairness ==
  /\ WF_vars(ApplyStep) /\ WF_vars(PollStep) /\ WF_vars(TimePasses)
  /\ WF_vars(HandshakeDone) /\ SF_vars(PollAct(TRUE))
  /\ SF_vars(PollAsk("queued"))
  /\ \A n \in Hostname : SF_vars(DnsAnswer(n, TRUE))
  /\ \A n \in Hostname : WF_vars(\E good \in BOOLEAN : DnsAnswer(n, good))

Spec == Init /\ [][Next]_vars
FairSpec == Spec /\ Fairness

(***************************************************************************)
(* Properties.                                                             *)
(***************************************************************************)
Positions == {"idle", "addr", "teardown", "td_state", "td_exit", "td_nat", "config",
              "exit", "exit_on", "endpoint", "netif", "ap", "ap_off", "ap_clear",
              "ap_glue", "ap_addr", "ap_dhcp", "ap_up", "announce", "addpeer", "act"}

Flags ==
  /\ wg_configured \in BOOLEAN /\ wg_netif_added \in BOOLEAN
  /\ endpoint_resolved \in BOOLEAN /\ resolve_due \in BOOLEAN
  /\ sess \in BOOLEAN /\ up \in BOOLEAN
  /\ exit_on \in BOOLEAN /\ exit_lan_on \in BOOLEAN
  /\ ap_radio \in BOOLEAN /\ ap_dhcp \in BOOLEAN /\ ap_up \in BOOLEAN
  /\ sta_up \in BOOLEAN /\ bounce_at \in BOOLEAN /\ reconnect_at \in BOOLEAN

Values ==
  /\ pc \in Positions /\ job \in {"wg", "ap"}
  /\ cfg \in WgConf /\ wgc \in WgConf /\ apc \in ApConf \cup {None}
  /\ wg_state \in {"unconfigured", "resolving", "handshaking", "up"}
  /\ endpoint_addr \in Endpoint \cup {None} /\ dns \subseteq Endpoint
  /\ peer \in Endpoint \cup {None} /\ at \in Endpoint \cup {None}
  /\ ext_ip \in Addr \cup {None} /\ nat \in WgConf \cup {None}
  /\ usb \in LinkRecord \cup {NoLink} /\ ap \in LinkRecord \cup {NoLink}
  /\ sta \in LinkRecord \cup {NoLink}
  /\ applied \in ((ApConf \cup {None}) \X BOOLEAN) \cup {None}
  /\ netif_default \in {"sta", "wg", "ap"}
  /\ lease \in Addr \cup {None} /\ ap_lease \in Addr \cup {None}
  /\ applied_addr \in Addr \cup {None}
  /\ disturb \in 0..MaxDisturb

\* Every variable of wg.c, ap.c, usb_net.c and main.c's statics has its type.
TypeOK == Flags /\ Values

\* The links an apply may give the USB interface.
UsbLinks == {LinkOf(c) : c \in WgConf}

\* main.c 138-141 compares addresses only: a link with another prefix or lease
\* under the same device address replaces the host's without a replug.
Renumbered == \E l \in UsbLinks : l.addr = usb.addr /\ l.host = lease /\ l # usb

\* wg.c 203-212: whatever sequence of live applies led here, and whatever its
\* destination, a packet of the USB host that the loop pumps in, from the
\* current lease or an old one, is never routed to the Wi-Fi uplink nor left to
\* normal routing; and to the AP client's link only while a replug is pending
\* or the link was renumbered without one.
UsbHostIsolated ==
  pc = "idle" /\ lease # None =>
    \A dest \in Addr :
      LET out == wg_ip4_route_hook("usb", lease, dest)
      IN out \notin {"sta", "normal"} /\ (out = "ap" => bounce_at \/ Renumbered)

\* The same for the AP client, at every point of an apply, not only between
\* two: its packets are processed in the background while wg_apply and
\* ap_apply are half done.  Only between the start of the AP's DHCP and ap_up,
\* when the hook does not know the client yet, can it be routed to the USB link.
ApClientIsolated ==
  ap_lease # None =>
    \A dest \in Addr :
      LET out == wg_ip4_route_hook("ap", ap_lease, dest)
      IN out \notin {"sta", "normal"} /\ (out = "usb" => pc = "ap_up")

\* wg.c 224-235 and config.h's exit flags: at every point of an apply, traffic
\* that came out of the tunnel leaves through the uplink only for the applied
\* configuration's exit mode, and to the local network only with its exit_lan.
ExitConfined ==
  \A src, dest \in Addr :
    wg_ip4_route_hook("wg", src, dest) = "sta" =>
      /\ wg_configured /\ wgc.exit
      /\ dest_is_local_scope(dest) => wgc.exitlan

\* The device's own traffic: the default route is never an interface that was
\* removed, and whenever the loop is idle it is the tunnel exactly while the
\* tunnel is reported up, the station otherwise - never the AP the driver
\* makes the default behind ap_apply's back (ap.c 138-141).
DefaultFollowsSession ==
  /\ netif_default = "wg" => wg_netif_added
  /\ pc = "idle" => netif_default = IF wg_state = "up" THEN "wg" ELSE "sta"

\* napt.h "Drop all mappings (config change / tunnel restart)": no packet path
\* that consults the NAT table finds a mapping of an earlier configuration,
\* although background traffic may add one between any two steps of an apply.
NatOfThisTunnel == exit_on => nat \in {None, wgc}

\* wg.h 42-43, wg.c 444-445: with the uplink back for good, a configured tunnel whose
\* interface exists ends up reported up, with the default route on it, also when
\* the server's address had moved while there was no session - unless a late DNS
\* answer gave it another configuration's endpoint.
Recovers ==
  <>[]sta_up =>
    <>[](wg_netif_added /\ wgc.peerok /\ peer \in {None, wgc.ep}
           => wg_state = "up" /\ netif_default = "wg")

\* wg.h 37-38 "Safe to call repeatedly (live apply)": the registered peer is at
\* the endpoint of the configuration that is applied.
PeerAtConfiguredEndpoint == peer # None => peer = wgc.ep
=============================================================================
