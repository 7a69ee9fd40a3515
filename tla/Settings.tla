------------------------------ MODULE Settings ------------------------------
(***************************************************************************)
(* The configuration record of config.c, its one sector of flash and the   *)
(* console commands of config_proto.c that edit it, with what main.c and   *)
(* ap.c put into effect after each.  Wi-Fi profiles, which WifiConn covers,*)
(* appear only as part of the record that is stored.                       *)
(*                                                                         *)
(* Commands run to their end in the main loop and a save stops everything  *)
(* else, so each is one action; only a loss of power gets in between.  A   *)
(* text is the value its parser makes of it, Absent where a part is        *)
(* missing; a name is a model value, a password its length.  The CRC is    *)
(* taken to tell a whole record from anything else.                        *)
(***************************************************************************)
EXTENDS Integers, Sequences

CONSTANTS
  Absent,              \* a part of a command that was not typed
  Off,                 \* the word that clears a setting
  GoodKey,             \* texts that decode to 32 bytes
  KeyText,             \* texts typed for a key
  Name,                \* endpoints and network names that fit their fields
  LongName,            \* an endpoint too long for its field
  IpText,              \* what parse_ip4 makes of addresses typed: 0 for a bad one
  Port, Prefix, Keepalive, Mtu, PassLen,   \* numbers typed
  Country, WIFI_COUNTRY,   \* what parse_country makes of texts typed, the default
  Route,               \* routes typed: [net, prefix], Absent without a slash
  CONFIG_ROUTES_MAX,   \* routes a record holds
  ApMtu,               \* WIREGUARDIF_MTU
  Flashed,             \* what the sector may hold at first
  MaxCmds              \* bound on the commands of a behaviour

ASSUME SettingsBounds ==
  /\ GoodKey \subseteq KeyText /\ LongName \notin Name /\ CONFIG_ROUTES_MAX \in Nat
  /\ IpText \subseteq Nat /\ MaxCmds \in Nat /\ WIFI_COUNTRY \in Country
  /\ Port \ {Absent} \subseteq Int /\ Prefix \ {Absent} \subseteq Int
  /\ Keepalive \subseteq Int /\ Mtu \subseteq Int /\ PassLen \subseteq Int

VARIABLES
  cfg,    \* the running config_t
  live,   \* what the USB link, the tunnel and the AP were last given
  flash,  \* the sector: [layout, rec], layout 0 when magic or CRC fail
  kept,   \* what the last completed save stored, the defaults if one was cut
          \* short (history)
  cmds    \* commands given

vars == <<cfg, live, flash, kept, cmds>>

Unset == ""

\* The limits the code writes as numbers.
U16Max == 65535
MaxKeepalive == 65000
MinMtu == 576
MaxMtu == 1420

NoWg == [private_key |-> Unset, peer_public |-> Unset, psk |-> Unset,
         endpoint |-> Unset, endpoint_port |-> 0, addr |-> 0, prefix |-> 0,
         host_addr |-> 0, dns |-> 0, routes |-> <<>>, keepalive |-> 0,
         host_mtu |-> 0, exit_enabled |-> FALSE, exit_lan |-> FALSE]
NoAp == [ssid |-> Unset, password |-> 0, addr |-> 0, prefix |-> 0,
         client_addr |-> 0, enabled |-> FALSE]

\* config_defaults of a build without baked-in credentials.
config_defaults ==
  [wifi |-> Unset, country |-> WIFI_COUNTRY, debug |-> FALSE, wg |-> NoWg, ap |-> NoAp]

\* config_t: a key or a name that may be unset, and the routes.
KeyField == GoodKey \cup {Unset}
NameField == Name \cup {Unset}
RouteField == Seq(Route)
WgConfig ==
  [private_key : KeyField, peer_public : KeyField, psk : KeyField, endpoint : NameField,
   endpoint_port : Nat, addr : Nat, prefix : Nat, host_addr : Nat, dns : Nat,
   routes : RouteField, keepalive : Nat, host_mtu : Nat, exit_enabled : BOOLEAN,
   exit_lan : BOOLEAN]
ApConfig ==
  [ssid : NameField, password : Nat, addr : Nat, prefix : Nat, client_addr : Nat,
   enabled : BOOLEAN]
Config ==
  [wifi : NameField, country : Country, debug : BOOLEAN, wg : WgConfig, ap : ApConfig]

\* Values the rest of the firmware can use: prefixes that are shift counts, a
\* port, an MTU from which 40 can be taken, whole routes that fit; and no AP
\* enabled without a name and a proper password.
SaneWg(w) ==
  /\ w.prefix = 0 \/ w.prefix \in 8 .. 30
  /\ w.endpoint # Unset => w.endpoint_port \in 1 .. U16Max
  /\ w.keepalive <= U16Max /\ (w.host_mtu = 0 \/ w.host_mtu \in MinMtu .. MaxMtu)
  /\ Len(w.routes) <= CONFIG_ROUTES_MAX
  /\ \A k \in DOMAIN w.routes : w.routes[k] # Absent /\ w.routes[k].prefix \in 1 .. 32
SaneAp(a) ==
  /\ a.prefix = 0 \/ a.prefix \in 8 .. 30
  /\ a.enabled => a.ssid # Unset /\ a.password \in 8 .. 63
Sane(c) == SaneWg(c.wg) /\ SaneAp(c.ap)

\* The device comes with nothing stored, or with what this release or the one
\* before it has saved.
ASSUME FlashAssumption ==
  /\ Unset \notin Name
  /\ \A f \in Flashed :
       /\ f \in [layout : 0 .. 2, rec : Config] /\ Sane(f.rec)
       /\ f.layout = 0 => f.rec = config_defaults
       /\ f.layout = 1 => f.rec.ap = NoAp

(***************************** The flash sector *****************************)

\* An erased sector, and one whose writing was cut short.
NoRecord == [layout |-> 0, rec |-> config_defaults]
Torn(c)  == [layout |-> 0, rec |-> c]

\* The mutant takes what it finds without checking it.
LoadUnchecked(f) == IF f.layout = 1 THEN [f.rec EXCEPT !.ap = NoAp] ELSE f.rec

\* A record of layout 1 has no AP settings: they stay at their defaults.
config_load(f) ==
  CASE f.layout = 2 -> f.rec
    [] f.layout = 1 -> [f.rec EXCEPT !.ap = NoAp]
    [] OTHER        -> config_defaults

(************************ What the settings put into effect *****************)

config_wg_complete(w) ==
  /\ w.private_key # Unset /\ w.peer_public # Unset /\ w.endpoint # Unset
  /\ w.endpoint_port # 0 /\ w.addr # 0 /\ w.host_addr # 0
  /\ w.prefix \in 8 .. 30

config_ap_complete(a) ==
  /\ a.ssid # Unset /\ a.password \in 8 .. 63
  /\ a.addr # 0 /\ a.client_addr # 0 /\ a.addr # a.client_addr
  /\ a.prefix \in 8 .. 30
  /\ a.addr \div 2^(32 - a.prefix) = a.client_addr \div 2^(32 - a.prefix)

HostMtu(w) == IF w.host_mtu = 0 THEN ApMtu ELSE w.host_mtu

\* What the USB host is given: the tunnel pair, or the bring-up island.
Island == [addr |-> 0, prefix |-> 0, host_addr |-> 0, dns |-> 0, mtu |-> 0, routes |-> <<>>]
UsbLink(w) ==
  IF config_wg_complete(w)
  THEN [addr |-> w.addr, prefix |-> w.prefix, host_addr |-> w.host_addr, dns |-> w.dns,
        mtu |-> HostMtu(w), routes |-> w.routes]
  ELSE Island

\* An AP as it was brought up, or none.
ApOff      == [up |-> FALSE, ap |-> NoAp, dns |-> 0, mtu |-> 0]
ApFor(c)   == [up |-> TRUE, ap |-> c.ap, dns |-> c.wg.dns, mtu |-> HostMtu(c.wg)]
Wanted(c)  == c.ap.enabled /\ config_ap_complete(c.ap)

\* The mutant compares the AP's own settings only.
ApApplyOwn(l, c) ==
  IF l.up /\ Wanted(c) /\ l.ap = c.ap THEN l ELSE IF Wanted(c) THEN ApFor(c) ELSE ApOff

\* Nothing relevant changed, or torn down and, if wanted, brought up afresh.
ap_apply(l, c) ==
  IF l.up /\ Wanted(c) /\ l.ap = c.ap /\ l.dns = c.wg.dns /\ l.mtu = HostMtu(c.wg) THEN l
  ELSE IF Wanted(c) THEN ApFor(c) ELSE ApOff

\* wg_apply's copy of the settings, which stands for nothing unless
\* wg_configured.  A key that set key or genkey stored is one netif_add takes.
WgFor(w) == IF config_wg_complete(w) THEN w ELSE NoWg

apply_wg(l, c) == [usb |-> UsbLink(c.wg), tunnel |-> WgFor(c.wg), ap |-> ap_apply(l.ap, c)]
apply_ap(l, c) == [l EXCEPT !.ap = ap_apply(@, c)]

(******************************* cmd_set ************************************)

\* The outcome of a set command: an error has nothing applied.
Done(w) == [ok |-> TRUE, to |-> w]
Err(w)  == [ok |-> FALSE, to |-> w]

set_wg_key(w, field, val, allow_off) ==
  IF allow_off /\ val = Off THEN Done([w EXCEPT ![field] = Unset])
  ELSE IF val \notin GoodKey THEN Err(w)
  ELSE Done([w EXCEPT ![field] = val])

\* With nothing before the port the endpoint is cleared.
set_endpoint(w, host, port) ==
  IF port = Absent \/ host = LongName THEN Err(w)
  ELSE IF port < 1 \/ port > U16Max THEN Err(w)
  ELSE Done([w EXCEPT !.endpoint = host, !.endpoint_port = port])

\* set addr, and set apaddr on the AP's settings.
set_addr(w, a, pfx) ==
  IF pfx = Absent \/ a = 0 THEN Err(w)
  ELSE IF pfx < 8 \/ pfx > 30 THEN Err(w)
  ELSE Done([w EXCEPT !.addr = a, !.prefix = pfx])

\* set hostip and set apclient: the address in the named field.
set_ip(w, field, a) == IF a = 0 THEN Err(w) ELSE Done([w EXCEPT ![field] = a])

\* set dns, which off clears.
set_dns(w, a) == IF a = Off THEN Done([w EXCEPT !.dns = 0]) ELSE set_ip(w, "dns", a)

\* The routes are parsed aside and taken over only if all of them are good.
set_routes(w, toks) ==
  IF toks = Off THEN Done([w EXCEPT !.routes = <<>>])
  ELSE IF toks = <<>> \/ Len(toks) > CONFIG_ROUTES_MAX THEN Err(w)
  ELSE IF \E k \in DOMAIN toks : toks[k] = Absent \/ ~(toks[k].prefix \in 1 .. 32) THEN Err(w)
  ELSE Done([w EXCEPT !.routes = toks])

set_keepalive(w, k) == IF k < 0 \/ k > MaxKeepalive THEN Err(w) ELSE Done([w EXCEPT !.keepalive = k])
set_mtu(w, m) ==
  IF m # 0 /\ (m < MinMtu \/ m > MaxMtu) THEN Err(w) ELSE Done([w EXCEPT !.host_mtu = m])

\* set exit and set exitlan: on, off or neither.
set_switch(w, field, on) == IF on = Absent THEN Err(w) ELSE Done([w EXCEPT ![field] = on])

set_apssid(a, s) == Done([a EXCEPT !.ssid = s])

\* The mutant takes passwords of any length.
AppassAny(a, n) == Done([a EXCEPT !.password = n])

set_appass(a, n) == IF n < 8 \/ n > 63 THEN Err(a) ELSE Done([a EXCEPT !.password = n])

set_ap(a, on) ==
  IF on = Absent \/ (on = TRUE /\ ~config_ap_complete(a)) THEN Err(a)
  ELSE Done([a EXCEPT !.enabled = on])

Switch == BOOLEAN \cup {Absent}
RouteLists == UNION {[1 .. n -> Route] : n \in 0 .. CONFIG_ROUTES_MAX + 1}

\* Everything a set command on the tunnel's and on the AP's settings may do.
SetWg(w) ==
  {set_wg_key(w, f, v, f = "psk") : f \in {"private_key", "peer_public", "psk"}, v \in KeyText}
  \cup {set_endpoint(w, h, p) : h \in Name \cup {LongName, Unset}, p \in Port}
  \cup {set_addr(w, a, p) : a \in IpText, p \in Prefix}
  \cup {set_ip(w, "host_addr", a) : a \in IpText} \cup {set_dns(w, a) : a \in IpText}
  \cup {set_dns(w, Off), set_routes(w, Off)} \cup {set_routes(w, r) : r \in RouteLists}
  \cup {set_keepalive(w, k) : k \in Keepalive} \cup {set_mtu(w, m) : m \in Mtu}
  \cup {set_switch(w, f, on) : f \in {"exit_enabled", "exit_lan"}, on \in Switch}

SetAp(a) ==
  {set_apssid(a, s) : s \in Name} \cup {set_appass(a, n) : n \in PassLen}
  \cup {set_addr(a, x, p) : x \in IpText, p \in Prefix}
  \cup {set_ip(a, "client_addr", x) : x \in IpText} \cup {set_ap(a, on) : on \in Switch}

-----------------------------------------------------------------------------

Init ==
  /\ flash \in Flashed
  /\ cfg = config_load(flash) /\ kept = flash.rec
  /\ live = apply_wg([usb |-> Island, tunnel |-> NoWg, ap |-> ApOff], cfg)
  /\ cmds = 0

Command == cmds < MaxCmds /\ cmds' = cmds + 1

\* A set command that fails returns before anything is applied.
SetWgCmd ==
  /\ Command
  /\ \E r \in SetWg(cfg.wg) :
       /\ cfg' = [cfg EXCEPT !.wg = r.to]
       /\ live' = IF r.ok THEN apply_wg(live, cfg') ELSE live
  /\ UNCHANGED <<flash, kept>>

SetApCmd ==
  /\ Command
  /\ \E r \in SetAp(cfg.ap) :
       /\ cfg' = [cfg EXCEPT !.ap = r.to]
       /\ live' = IF r.ok THEN apply_ap(live, cfg') ELSE live
  /\ UNCHANGED <<flash, kept>>

\* set debug, set country, which the radio is given at the next start only, and
\* the Wi-Fi commands as far as the record goes.
SetOther ==
  /\ Command
  /\ cfg' \in {[cfg EXCEPT !.debug = on] : on \in BOOLEAN}
              \cup {[cfg EXCEPT !.country = n] : n \in Country}
              \cup {[cfg EXCEPT !.wifi = s] : s \in Name}
  /\ UNCHANGED <<live, flash, kept>>

\* A new identity, if there is none or it is forced and the TRNG delivers.
Genkey(force) ==
  /\ Command
  /\ cfg.wg.private_key = Unset \/ force
  /\ \E k \in GoodKey :
       /\ cfg' = [cfg EXCEPT !.wg.private_key = k]
       /\ live' = apply_wg(live, cfg')
  /\ UNCHANGED <<flash, kept>>

\* save, or the automatic one after a join: the sector is erased, then written;
\* or the other core does not stop in time, and it is left alone.
config_save ==
  /\ Command
  /\ \/ flash' = [layout |-> 2, rec |-> cfg] /\ kept' = cfg
     \/ UNCHANGED <<flash, kept>>
  /\ UNCHANGED <<cfg, live>>

Restore ==
  /\ Command
  /\ cfg' = config_load(flash)
  /\ live' = apply_wg(live, cfg')
  /\ UNCHANGED <<flash, kept>>

\* The device starts from what the sector holds.
Boot(f) ==
  /\ cfg' = config_load(f)
  /\ live' = apply_wg([usb |-> Island, tunnel |-> NoWg, ap |-> ApOff], cfg')

\* reboot, bootsel, or a loss of power; one within a save, after the erase and
\* before the last page, leaves no record.
PowerCycle == Boot(flash) /\ UNCHANGED <<flash, kept, cmds>>
CutInSave ==
  /\ Command
  /\ flash' \in {NoRecord, Torn(cfg)} /\ Boot(flash') /\ kept' = config_defaults

Next ==
  \/ SetWgCmd \/ SetApCmd \/ SetOther \/ \E force \in BOOLEAN : Genkey(force)
  \/ config_save \/ Restore \/ PowerCycle \/ CutInSave

Spec == Init /\ [][Next]_vars

-----------------------------------------------------------------------------

\* What runs is what is configured: after every command, failed ones included,
\* and every start, the USB link, the tunnel and the AP have been given exactly
\* the settings of the running record (handle_main, apply_wg, ap_apply).
LiveIsCurrent ==
  /\ live.usb = UsbLink(cfg.wg) /\ live.tunnel = WgFor(cfg.wg)
  /\ live.ap = IF Wanted(cfg) THEN ApFor(cfg) ELSE ApOff

\* However the record came about (commands, a restore, an upgrade, a cut save),
\* its values are ones the rest of the firmware can use, and no AP is ever
\* enabled without a name and a proper password.
ValuesSane == cfg \in Config /\ Sane(cfg)

\* What a restore or a start brings back is what was last stored, whole: the
\* last completed save, the record of an older release with its identity, or
\* the defaults after a save that was cut short (config_load, config_save).
StoredIsLoaded == config_load(flash) = kept
=============================================================================
