--------------------------- MODULE SettingsProofs ---------------------------
(***************************************************************************)
(* Proofs about Settings, for any set of texts a user may type and any     *)
(* sector a device may start with: the values stay usable, what runs is    *)
(* what is configured, and what is loaded is what was stored.              *)
(***************************************************************************)
EXTENDS Settings, TLAPS

\* What a record of settings has running.
ApNow(c)   == IF Wanted(c) THEN ApFor(c) ELSE ApOff
Running(c) == [usb |-> UsbLink(c.wg), tunnel |-> WgFor(c.wg), ap |-> ApNow(c)]

\* A usable record.
Usable(c) == c \in Config /\ Sane(c)

\* The inductive invariant.  The stored record must be usable too, as a
\* restore or a start makes it the running one.
SettingsInv ==
  /\ Usable(cfg) /\ live = Running(cfg)
  /\ flash \in [layout : 0 .. 2, rec : Config] /\ Sane(flash.rec)
  /\ StoredIsLoaded

-----------------------------------------------------------------------------

\* The limits, as far as the proofs need them.
LEMMA Limits ==
  /\ U16Max \in Nat /\ MaxKeepalive \in Nat /\ MaxKeepalive <= U16Max
  /\ MinMtu \in Nat /\ MaxMtu \in Nat
BY SMTT(60) DEF U16Max, MaxKeepalive, MinMtu, MaxMtu

\* The defaults are usable.
LEMMA DefaultsUsable == Usable(config_defaults)
<1>1. <<>> \in RouteField /\ Len(<<>>) = 0 /\ CONFIG_ROUTES_MAX \in Nat
  BY SettingsBounds DEF RouteField
<1>2. Unset \in KeyField /\ Unset \in NameField
  BY DEF KeyField, NameField
<1>3. NoWg \in WgConfig
  BY <1>1, <1>2 DEF NoWg, WgConfig
<1>4. SaneWg(NoWg)
  BY <1>1, Limits DEF NoWg, SaneWg
<1>5. NoAp \in ApConfig /\ SaneAp(NoAp)
  BY <1>2 DEF NoAp, ApConfig, SaneAp
<1> QED
  BY <1>2, <1>3, <1>4, <1>5, SettingsBounds DEF config_defaults, Usable, Config, Sane

\* So is whatever config_load makes of a sector.
LEMMA LoadUsable ==
  ASSUME NEW f \in [layout : 0 .. 2, rec : Config], Sane(f.rec)
  PROVE  Usable(config_load(f))
<1>1. NoAp \in ApConfig /\ SaneAp(NoAp)
  BY DefaultsUsable DEF config_defaults, Usable, Config, Sane
<1>2. CASE f.layout = 2
  BY <1>2 DEF config_load, Usable
<1>3. CASE f.layout = 1
  <2>1. config_load(f) = [f.rec EXCEPT !.ap = NoAp]
    BY <1>3 DEF config_load
  <2> QED
    BY <1>1, <2>1 DEF Usable, Config, Sane
<1>4. CASE f.layout \notin {1, 2}
  <2>1. config_load(f) = config_defaults
    BY <1>4 DEF config_load
  <2> QED
    BY <2>1, DefaultsUsable
<1> QED
  BY <1>2, <1>3, <1>4

\* Applying settings to what others had running gives what they have running.
LEMMA ApApplies ==
  ASSUME NEW b, NEW c
  PROVE  ap_apply(ApNow(b), c) = ApNow(c)
<1>1. CASE Wanted(b)
  BY <1>1 DEF ApNow, ap_apply, ApFor
<1>2. CASE ~Wanted(b)
  BY <1>2 DEF ApNow, ap_apply, ApOff
<1> QED
  BY <1>1, <1>2

LEMMA WgApplies ==
  ASSUME NEW b, NEW c
  PROVE  apply_wg(Running(b), c) = Running(c)
BY ApApplies DEF apply_wg, Running

\* The AP alone is applied when only its settings changed.
LEMMA ApOnlyApplies ==
  ASSUME NEW b, NEW c, c.wg = b.wg
  PROVE  apply_ap(Running(b), c) = Running(c)
<1>1. apply_ap(Running(b), c) =
        [usb |-> UsbLink(b.wg), tunnel |-> WgFor(b.wg), ap |-> ap_apply(ApNow(b), c)]
  BY DEF apply_ap, Running
<1> QED
  BY <1>1, ApApplies DEF Running

\* At a start nothing runs yet.
LEMMA BootApplies ==
  ASSUME NEW c
  PROVE  apply_wg([usb |-> Island, tunnel |-> NoWg, ap |-> ApOff], c) = Running(c)
BY DEF apply_wg, Running, ap_apply, ApNow, ApOff

-----------------------------------------------------------------------------

\* What a set command may answer for settings w of the tunnel: a good value,
\* or an error that keeps them.
GoodWg(w, r) ==
  r.ok \in BOOLEAN /\ r.to \in WgConfig /\ SaneWg(r.to) /\ (~r.ok => r.to = w)
GoodAp(a, r) ==
  r.ok \in BOOLEAN /\ r.to \in ApConfig /\ SaneAp(r.to) /\ (~r.ok => r.to = a)

\* An error is a good answer, and so is a usable value.
LEMMA AnswersWg ==
  ASSUME NEW w \in WgConfig, SaneWg(w)
  PROVE  /\ GoodWg(w, Err(w))
         /\ \A v \in WgConfig : SaneWg(v) => GoodWg(w, Done(v))
BY DEF GoodWg, Err, Done

LEMMA AnswersAp ==
  ASSUME NEW a \in ApConfig, SaneAp(a)
  PROVE  /\ GoodAp(a, Err(a))
         /\ \A v \in ApConfig : SaneAp(v) => GoodAp(a, Done(v))
BY DEF GoodAp, Err, Done

\* A change of fields that have no limit keeps the settings sane.
SameLimits(w, v) ==
  /\ v.prefix = w.prefix /\ v.endpoint = w.endpoint /\ v.endpoint_port = w.endpoint_port
  /\ v.keepalive = w.keepalive /\ v.host_mtu = w.host_mtu /\ v.routes = w.routes

LEMMA Unlimited ==
  ASSUME NEW w \in WgConfig, SaneWg(w), NEW v \in WgConfig, SameLimits(w, v)
  PROVE  GoodWg(w, Done(v))
<1>1. SaneWg(v)
  BY DEF SaneWg, SameLimits
<1> QED
  BY <1>1, AnswersWg

\* The keys.
LEMMA KeyGood ==
  ASSUME NEW w \in WgConfig, SaneWg(w), NEW val,
         NEW f \in {"private_key", "peer_public", "psk"}, NEW off \in BOOLEAN
  PROVE  GoodWg(w, set_wg_key(w, f, val, off))
<1>1. ASSUME NEW k \in KeyField PROVE GoodWg(w, Done([w EXCEPT ![f] = k]))
  <2>1. [w EXCEPT ![f] = k] \in WgConfig
    <3>1. CASE f = "private_key"
      BY <3>1, Zenon DEF WgConfig
    <3>2. CASE f = "peer_public"
      BY <3>2, Zenon DEF WgConfig
    <3>3. CASE f = "psk"
      BY <3>3, Zenon DEF WgConfig
    <3> QED
      BY <3>1, <3>2, <3>3
  <2>2. SameLimits(w, [w EXCEPT ![f] = k])
    BY DEF WgConfig, SameLimits
  <2> QED
    BY <2>1, <2>2, Unlimited
<1>2. Unset \in KeyField /\ GoodKey \subseteq KeyField
  BY DEF KeyField
<1>3. GoodWg(w, Err(w))
  BY AnswersWg
<1> QED
  BY <1>1, <1>2, <1>3, Zenon DEF set_wg_key

\* The endpoint.
LEMMA EndpointGood ==
  ASSUME NEW w \in WgConfig, SaneWg(w), NEW h \in Name \cup {LongName, Unset}, NEW p \in Port
  PROVE  GoodWg(w, set_endpoint(w, h, p))
<1>1. ASSUME NEW n \in NameField, NEW k \in 1 .. U16Max
      PROVE  GoodWg(w, Done([w EXCEPT !.endpoint = n, !.endpoint_port = k]))
  <2> DEFINE v == [w EXCEPT !.endpoint = n, !.endpoint_port = k]
  <2>1. k \in Nat
    BY Limits
  <2>2. v \in WgConfig
    BY <2>1, Zenon DEF WgConfig
  <2>3. /\ v.prefix = w.prefix /\ v.keepalive = w.keepalive /\ v.host_mtu = w.host_mtu
        /\ v.routes = w.routes /\ v.endpoint_port = k
    BY Zenon DEF WgConfig
  <2> HIDE DEF v
  <2>4. SaneWg(v)
    BY <2>3 DEF SaneWg
  <2> QED
    BY <2>2, <2>4, AnswersWg DEF v
<1>2. GoodWg(w, Err(w))
  BY AnswersWg
<1>3. CASE p = Absent \/ h = LongName
  BY <1>2, <1>3 DEF set_endpoint
<1>4. CASE p # Absent /\ h # LongName
  <2>1. p \in Int /\ h \in NameField
    BY <1>4, SettingsBounds DEF NameField
  <2>2. CASE p < 1 \/ p > U16Max
    BY <1>2, <1>4, <2>2 DEF set_endpoint
  <2>3. CASE ~(p < 1 \/ p > U16Max)
    <3>1. p \in 1 .. U16Max
      BY <2>1, <2>3, Limits
    <3>2. set_endpoint(w, h, p) = Done([w EXCEPT !.endpoint = h, !.endpoint_port = p])
      BY <1>4, <2>3, Zenon DEF set_endpoint
    <3> QED
      BY <1>1, <2>1, <3>1, <3>2
  <2> QED
    BY <2>2, <2>3
<1> QED
  BY <1>3, <1>4

\* An address with its prefix, of the tunnel or of the AP.
LEMMA AddrGood ==
  ASSUME NEW a \in IpText, NEW p \in Prefix
  PROVE  /\ \A w \in WgConfig : SaneWg(w) => GoodWg(w, set_addr(w, a, p))
         /\ \A w \in ApConfig : SaneAp(w) => GoodAp(w, set_addr(w, a, p))
<1>1. CASE p = Absent \/ a = 0
  BY <1>1, AnswersWg, AnswersAp DEF set_addr
<1>2. CASE ~(p = Absent \/ a = 0)
  <2>1. p \in Int /\ a \in Nat
    BY <1>2, SettingsBounds
  <2>2. CASE p < 8 \/ p > 30
    BY <1>2, <2>2, AnswersWg, AnswersAp DEF set_addr
  <2>3. CASE ~(p < 8 \/ p > 30)
    <3>1. p \in 8 .. 30 /\ p \in Nat
      BY <2>1, <2>3
    <3>2. \A w : set_addr(w, a, p) = Done([w EXCEPT !.addr = a, !.prefix = p])
      BY <1>2, <2>3, Zenon DEF set_addr
    <3>3. ASSUME NEW w \in WgConfig, SaneWg(w) PROVE GoodWg(w, set_addr(w, a, p))
      <4> DEFINE v == [w EXCEPT !.addr = a, !.prefix = p]
      <4>1. v \in WgConfig
        BY <2>1, <3>1, Zenon DEF WgConfig
      <4>2. /\ v.prefix = p /\ v.keepalive = w.keepalive /\ v.host_mtu = w.host_mtu
            /\ v.routes = w.routes /\ v.endpoint_port = w.endpoint_port
            /\ v.endpoint = w.endpoint
        BY Zenon DEF WgConfig
      <4>3. set_addr(w, a, p) = Done(v)
        BY <3>2
      <4> HIDE DEF v
      <4>4. SaneWg(v)
        BY <3>1, <3>3, <4>2 DEF SaneWg
      <4> QED
        BY <3>3, <4>1, <4>3, <4>4, AnswersWg
    <3>4. ASSUME NEW w \in ApConfig, SaneAp(w) PROVE GoodAp(w, set_addr(w, a, p))
      <4> DEFINE v == [w EXCEPT !.addr = a, !.prefix = p]
      <4>1. v \in ApConfig
        BY <2>1, <3>1, Zenon DEF ApConfig
      <4>2. /\ v.prefix = p /\ v.enabled = w.enabled /\ v.ssid = w.ssid
            /\ v.password = w.password
        BY Zenon DEF ApConfig
      <4>3. set_addr(w, a, p) = Done(v)
        BY <3>2
      <4> HIDE DEF v
      <4>4. SaneAp(v)
        BY <3>1, <3>4, <4>2 DEF SaneAp
      <4> QED
        BY <3>4, <4>1, <4>3, <4>4, AnswersAp
    <3> QED
      BY <3>3, <3>4
  <2> QED
    BY <2>2, <2>3
<1> QED
  BY <1>1, <1>2

\* The host's address and the DNS server.
LEMMA IpGood ==
  ASSUME NEW w \in WgConfig, SaneWg(w), NEW a \in IpText
  PROVE  GoodWg(w, set_ip(w, "host_addr", a)) /\ GoodWg(w, set_dns(w, a))
<1>1. a \in Nat /\ 0 \in Nat
  BY SettingsBounds
<1>2. \A x \in Nat : GoodWg(w, Done([w EXCEPT !.host_addr = x]))
  <2>1. \A x \in Nat : [w EXCEPT !.host_addr = x] \in WgConfig
    BY Zenon DEF WgConfig
  <2>2. \A x \in Nat : SameLimits(w, [w EXCEPT !.host_addr = x])
    BY Zenon DEF WgConfig, SameLimits
  <2> QED
    BY <2>1, <2>2, Unlimited
<1>3. \A x \in Nat : GoodWg(w, Done([w EXCEPT !.dns = x]))
  <2>1. \A x \in Nat : [w EXCEPT !.dns = x] \in WgConfig
    BY Zenon DEF WgConfig
  <2>2. \A x \in Nat : SameLimits(w, [w EXCEPT !.dns = x])
    BY Zenon DEF WgConfig, SameLimits
  <2> QED
    BY <2>1, <2>2, Unlimited
<1>4. GoodWg(w, Err(w))
  BY AnswersWg
<1> QED
  BY <1>1, <1>2, <1>3, <1>4, Zenon DEF set_ip, set_dns

\* `set dns off`.
LEMMA DnsOffGood ==
  ASSUME NEW w \in WgConfig, SaneWg(w)
  PROVE  GoodWg(w, set_dns(w, Off))
<1>1. 0 \in Nat
  OBVIOUS
<1>2. [w EXCEPT !.dns = 0] \in WgConfig
  BY <1>1, Zenon DEF WgConfig
<1>3. SameLimits(w, [w EXCEPT !.dns = 0])
  BY Zenon DEF WgConfig, SameLimits
<1>4. GoodWg(w, Done([w EXCEPT !.dns = 0]))
  BY <1>2, <1>3, Unlimited
<1> QED
  BY <1>4, Zenon DEF set_dns

\* Routes with their slashes, and prefixes in range.
Whole(rs) == \A k \in DOMAIN rs : rs[k] # Absent /\ rs[k].prefix \in 1 .. 32

\* The routes.
LEMMA RoutesGood ==
  ASSUME NEW w \in WgConfig, SaneWg(w), NEW toks \in RouteLists \cup {Off}
  PROVE  GoodWg(w, set_routes(w, toks))
<1>1. ASSUME NEW rs \in RouteField, Len(rs) <= CONFIG_ROUTES_MAX, Whole(rs)
      PROVE  GoodWg(w, Done([w EXCEPT !.routes = rs]))
  <2> DEFINE v == [w EXCEPT !.routes = rs]
  <2>1. v \in WgConfig
    BY Zenon DEF WgConfig
  <2>2. /\ v.prefix = w.prefix /\ v.keepalive = w.keepalive /\ v.host_mtu = w.host_mtu
        /\ v.routes = rs /\ v.endpoint_port = w.endpoint_port /\ v.endpoint = w.endpoint
    BY Zenon DEF WgConfig
  <2> HIDE DEF v
  <2>3. SaneWg(v)
    BY <1>1, <2>2 DEF SaneWg, Whole
  <2> QED
    BY <2>1, <2>3, AnswersWg DEF v
<1>2. GoodWg(w, Err(w))
  BY AnswersWg
<1>3. CASE toks = Off
  <2>1. <<>> \in RouteField /\ Len(<<>>) <= CONFIG_ROUTES_MAX /\ Whole(<<>>)
    BY SettingsBounds DEF RouteField, Whole
  <2>2. set_routes(w, toks) = Done([w EXCEPT !.routes = <<>>])
    BY <1>3, Zenon DEF set_routes
  <2> QED
    BY <1>1, <2>1, <2>2
<1>4. CASE toks # Off
  <2>1. toks \in RouteField
    BY <1>4, SettingsBounds DEF RouteLists, RouteField
  <2>2. Len(toks) \in Nat
    BY <2>1 DEF RouteField
  <2>3. CASE Len(toks) > CONFIG_ROUTES_MAX
    BY <1>2, <1>4, <2>3 DEF set_routes
  <2>4. CASE ~(Len(toks) > CONFIG_ROUTES_MAX)
    <3>1. Len(toks) <= CONFIG_ROUTES_MAX
      BY <2>2, <2>4, SettingsBounds
    <3>2. CASE Whole(toks)
      <4>1. GoodWg(w, Done([w EXCEPT !.routes = toks]))
        BY <1>1, <2>1, <3>1, <3>2
      <4> QED
        BY <1>2, <1>4, <4>1, Zenon DEF set_routes
    <3>3. CASE ~Whole(toks)
      BY <1>2, <1>4, <3>3, Zenon DEF set_routes, Whole
    <3> QED
      BY <3>2, <3>3
  <2> QED
    BY <2>3, <2>4
<1> QED
  BY <1>3, <1>4

\* Keepalive.
LEMMA KeepaliveGood ==
  ASSUME NEW w \in WgConfig, SaneWg(w), NEW k \in Keepalive
  PROVE  GoodWg(w, set_keepalive(w, k))
<1> DEFINE v == [w EXCEPT !.keepalive = k]
<1>1. k \in Int
  BY SettingsBounds
<1>2. CASE k < 0 \/ k > MaxKeepalive
  BY <1>2, AnswersWg DEF set_keepalive
<1>3. CASE ~(k < 0 \/ k > MaxKeepalive)
  <2>1. k \in Nat /\ k <= U16Max
    BY <1>1, <1>3, Limits
  <2>2. v \in WgConfig
    BY <2>1, Zenon DEF WgConfig
  <2>3. /\ v.prefix = w.prefix /\ v.keepalive = k /\ v.host_mtu = w.host_mtu
        /\ v.routes = w.routes /\ v.endpoint_port = w.endpoint_port
        /\ v.endpoint = w.endpoint
    BY Zenon DEF WgConfig
  <2>4. set_keepalive(w, k) = Done(v)
    BY <1>3, Zenon DEF set_keepalive
  <2> HIDE DEF v
  <2>5. SaneWg(v)
    BY <2>1, <2>3 DEF SaneWg
  <2> QED
    BY <2>2, <2>4, <2>5, AnswersWg
<1> QED
  BY <1>2, <1>3

\* The MTU.
LEMMA MtuGood ==
  ASSUME NEW w \in WgConfig, SaneWg(w), NEW m \in Mtu
  PROVE  GoodWg(w, set_mtu(w, m))
<1> DEFINE v == [w EXCEPT !.host_mtu = m]
<1>1. m \in Int
  BY SettingsBounds
<1>2. CASE m # 0 /\ (m < MinMtu \/ m > MaxMtu)
  BY <1>2, AnswersWg DEF set_mtu
<1>3. CASE ~(m # 0 /\ (m < MinMtu \/ m > MaxMtu))
  <2>1. m \in Nat /\ (m = 0 \/ m \in MinMtu .. MaxMtu)
    BY <1>1, <1>3, Limits
  <2>2. v \in WgConfig
    BY <2>1, Zenon DEF WgConfig
  <2>3. /\ v.prefix = w.prefix /\ v.keepalive = w.keepalive /\ v.host_mtu = m
        /\ v.routes = w.routes /\ v.endpoint_port = w.endpoint_port
        /\ v.endpoint = w.endpoint
    BY Zenon DEF WgConfig
  <2>4. set_mtu(w, m) = Done(v)
    BY <1>3, Zenon DEF set_mtu
  <2> HIDE DEF v
  <2>5. SaneWg(v)
    BY <2>1, <2>3 DEF SaneWg
  <2> QED
    BY <2>2, <2>4, <2>5, AnswersWg
<1> QED
  BY <1>2, <1>3

\* The two switches of exit mode.
LEMMA SwitchGood ==
  ASSUME NEW w \in WgConfig, SaneWg(w), NEW f \in {"exit_enabled", "exit_lan"},
         NEW on \in Switch
  PROVE  GoodWg(w, set_switch(w, f, on))
<1>1. CASE on = Absent
  BY <1>1, AnswersWg DEF set_switch
<1>2. CASE on # Absent
  <2>1. on \in BOOLEAN
    BY <1>2, Zenon DEF Switch
  <2>2. [w EXCEPT ![f] = on] \in WgConfig
    <3>1. CASE f = "exit_enabled"
      BY <2>1, <3>1, Zenon DEF WgConfig
    <3>2. CASE f = "exit_lan"
      BY <2>1, <3>2, Zenon DEF WgConfig
    <3> QED
      BY <3>1, <3>2
  <2>3. SameLimits(w, [w EXCEPT ![f] = on])
    BY DEF WgConfig, SameLimits
  <2>4. set_switch(w, f, on) = Done([w EXCEPT ![f] = on])
    BY <1>2, Zenon DEF set_switch
  <2> QED
    BY <2>2, <2>3, <2>4, Unlimited
<1> QED
  BY <1>1, <1>2

\* Every set command on the tunnel's settings.
LEMMA SetWgGood ==
  ASSUME NEW w \in WgConfig, SaneWg(w), NEW r \in SetWg(w)
  PROVE  GoodWg(w, r)
<1>1. CASE r \in {set_wg_key(w, f, v, f = "psk") :
                    f \in {"private_key", "peer_public", "psk"}, v \in KeyText}
  <2>1. PICK f \in {"private_key", "peer_public", "psk"}, v \in KeyText :
          r = set_wg_key(w, f, v, f = "psk")
    BY <1>1
  <2>2. (f = "psk") \in BOOLEAN
    BY Zenon
  <2> QED
    BY <2>1, <2>2, KeyGood, Zenon
<1>2. CASE r \in {set_endpoint(w, h, p) : h \in Name \cup {LongName, Unset}, p \in Port}
  BY <1>2, EndpointGood
<1>3. CASE r \in {set_addr(w, a, p) : a \in IpText, p \in Prefix}
  BY <1>3, AddrGood
<1>4. CASE r \in {set_ip(w, "host_addr", a) : a \in IpText} \cup {set_dns(w, a) : a \in IpText}
  BY <1>4, IpGood, Zenon
<1>5. CASE r \in {set_dns(w, Off), set_routes(w, Off)} \cup {set_routes(w, t) : t \in RouteLists}
  BY <1>5, DnsOffGood, RoutesGood, Zenon
<1>6. CASE r \in {set_keepalive(w, k) : k \in Keepalive} \cup {set_mtu(w, m) : m \in Mtu}
  BY <1>6, KeepaliveGood, MtuGood, Zenon
<1>7. CASE r \in {set_switch(w, f, on) : f \in {"exit_enabled", "exit_lan"}, on \in Switch}
  BY <1>7, SwitchGood
<1> QED
  BY <1>1, <1>2, <1>3, <1>4, <1>5, <1>6, <1>7 DEF SetWg

\* Every set command on the AP's settings.
LEMMA SetApGood ==
  ASSUME NEW a \in ApConfig, SaneAp(a), NEW r \in SetAp(a)
  PROVE  GoodAp(a, r)
<1>0. GoodAp(a, Err(a))
  BY AnswersAp
<1>1. ASSUME NEW s \in Name PROVE GoodAp(a, set_apssid(a, s))
  <2>1. s \in NameField /\ s # Unset
    BY FlashAssumption DEF NameField
  <2>2. [a EXCEPT !.ssid = s] \in ApConfig
    BY <2>1, Zenon DEF ApConfig
  <2>3. SaneAp([a EXCEPT !.ssid = s])
    BY <2>1 DEF ApConfig, SaneAp
  <2> QED
    BY <2>2, <2>3, AnswersAp DEF set_apssid
<1>2. ASSUME NEW n \in PassLen PROVE GoodAp(a, set_appass(a, n))
  <2>1. n \in Int
    BY SettingsBounds
  <2>2. CASE n < 8 \/ n > 63
    BY <2>2, <1>0, Zenon DEF set_appass
  <2>3. CASE ~(n < 8 \/ n > 63)
    <3>1. n \in 8 .. 63 /\ n \in Nat
      BY <2>1, <2>3
    <3>2. [a EXCEPT !.password = n] \in ApConfig
      BY <3>1, Zenon DEF ApConfig
    <3>3. SaneAp([a EXCEPT !.password = n])
      BY <3>1 DEF ApConfig, SaneAp
    <3>4. set_appass(a, n) = Done([a EXCEPT !.password = n])
      BY <2>3, Zenon DEF set_appass
    <3> QED
      BY <3>2, <3>3, <3>4, AnswersAp
  <2> QED
    BY <2>2, <2>3
<1>3. ASSUME NEW x \in IpText PROVE GoodAp(a, set_ip(a, "client_addr", x))
  <2>1. x \in Nat
    BY SettingsBounds
  <2>2. [a EXCEPT !.client_addr = x] \in ApConfig
    BY <2>1, Zenon DEF ApConfig
  <2>3. SaneAp([a EXCEPT !.client_addr = x])
    BY DEF ApConfig, SaneAp
  <2>4. GoodAp(a, Done([a EXCEPT !.client_addr = x]))
    BY <2>2, <2>3, AnswersAp
  <2> QED
    BY <1>0, <2>4, Zenon DEF set_ip
<1>4. ASSUME NEW on \in Switch PROVE GoodAp(a, set_ap(a, on))
  <2>1. CASE on = Absent \/ (on = TRUE /\ ~config_ap_complete(a))
    BY <2>1, <1>0, Zenon DEF set_ap
  <2>2. CASE ~(on = Absent \/ (on = TRUE /\ ~config_ap_complete(a)))
    <3>1. on \in BOOLEAN /\ (on = TRUE => config_ap_complete(a))
      BY <2>2, Zenon DEF Switch
    <3>2. on = TRUE => a.ssid # Unset /\ a.password \in 8 .. 63
      BY <3>1 DEF config_ap_complete
    <3>3. [a EXCEPT !.enabled = on] \in ApConfig
      BY <3>1, Zenon DEF ApConfig
    <3>4. SaneAp([a EXCEPT !.enabled = on])
      BY <3>1, <3>2 DEF ApConfig, SaneAp
    <3>5. set_ap(a, on) = Done([a EXCEPT !.enabled = on])
      BY <2>2, Zenon DEF set_ap
    <3> QED
      BY <3>3, <3>4, <3>5, AnswersAp
  <2> QED
    BY <2>1, <2>2
<1> QED
  BY <1>1, <1>2, <1>3, <1>4, AddrGood DEF SetAp

-----------------------------------------------------------------------------

\* What a start or a restore makes of the sector.
LEMMA LoadedInv ==
  ASSUME NEW f \in [layout : 0 .. 2, rec : Config], Sane(f.rec), flash' = f,
         cfg' = config_load(f), live' = Running(cfg'), config_load(f) = kept'
  PROVE  SettingsInv'
BY LoadUsable DEF SettingsInv, StoredIsLoaded

\* Init establishes the invariant.
LEMMA InitInv == Init => SettingsInv
<1> SUFFICES ASSUME Init PROVE SettingsInv
  OBVIOUS
<1>1. flash \in [layout : 0 .. 2, rec : Config] /\ Sane(flash.rec)
  BY FlashAssumption DEF Init
<1>2. Usable(cfg)
  BY <1>1, LoadUsable DEF Init
<1>3. live = Running(cfg)
  BY BootApplies DEF Init
<1>4. config_load(flash) = flash.rec
  <2>1. CASE flash.layout = 2
    BY <2>1 DEF config_load
  <2>2. CASE flash.layout = 1
    <3>1. config_load(flash) = [flash.rec EXCEPT !.ap = NoAp] /\ flash.rec.ap = NoAp
      BY <2>2, FlashAssumption DEF Init, config_load
    <3> QED
      BY <1>1, <3>1 DEF Config
  <2>3. CASE flash.layout = 0
    BY <2>3, FlashAssumption DEF Init, config_load
  <2> QED
    BY <1>1, <2>1, <2>2, <2>3
<1> QED
  BY <1>1, <1>2, <1>3, <1>4 DEF SettingsInv, StoredIsLoaded, Init

\* A command that edits the running record and applies it.
LEMMA EditKeeps ==
  ASSUME SettingsInv, NEW c, Usable(c), cfg' = c, live' = Running(c),
         UNCHANGED <<flash, kept>>
  PROVE  SettingsInv'
BY DEF SettingsInv, StoredIsLoaded

\* The record with the settings of one half replaced.
LEMMA HalfUsable ==
  ASSUME NEW c, Usable(c)
  PROVE  /\ \A w \in WgConfig : SaneWg(w) => Usable([c EXCEPT !.wg = w])
         /\ \A a \in ApConfig : SaneAp(a) => Usable([c EXCEPT !.ap = a])
         /\ [c EXCEPT !.wg = c.wg] = c /\ [c EXCEPT !.ap = c.ap] = c
         /\ c.wg \in WgConfig /\ SaneWg(c.wg) /\ c.ap \in ApConfig /\ SaneAp(c.ap)
BY DEF Usable, Config, Sane

\* set, on the tunnel's settings.
LEMMA SetWgKeeps ==
  ASSUME SettingsInv, SetWgCmd
  PROVE  SettingsInv'
<1>1. PICK r \in SetWg(cfg.wg) :
        /\ cfg' = [cfg EXCEPT !.wg = r.to]
        /\ live' = IF r.ok THEN apply_wg(live, cfg') ELSE live
  BY DEF SetWgCmd
<1>2. Usable(cfg) /\ live = Running(cfg) /\ UNCHANGED <<flash, kept>>
  BY DEF SettingsInv, SetWgCmd
<1>3. GoodWg(cfg.wg, r)
  BY <1>2, HalfUsable, SetWgGood
<1>4. Usable([cfg EXCEPT !.wg = r.to])
  BY <1>2, <1>3, HalfUsable DEF GoodWg
<1>5. live' = Running([cfg EXCEPT !.wg = r.to])
  <2>1. CASE r.ok
    <3>1. live' = apply_wg(Running(cfg), [cfg EXCEPT !.wg = r.to])
      BY <1>1, <1>2, <2>1
    <3> QED
      BY <3>1, WgApplies
  <2>2. CASE ~r.ok
    BY <1>1, <1>2, <1>3, <2>2, HalfUsable DEF GoodWg
  <2> QED
    BY <2>1, <2>2
<1> QED
  BY <1>1, <1>2, <1>4, <1>5, EditKeeps

\* set, on the AP's settings.
LEMMA SetApKeeps ==
  ASSUME SettingsInv, SetApCmd
  PROVE  SettingsInv'
<1>1. PICK r \in SetAp(cfg.ap) :
        /\ cfg' = [cfg EXCEPT !.ap = r.to]
        /\ live' = IF r.ok THEN apply_ap(live, cfg') ELSE live
  BY DEF SetApCmd
<1>2. Usable(cfg) /\ live = Running(cfg) /\ UNCHANGED <<flash, kept>>
  BY DEF SettingsInv, SetApCmd
<1>3. GoodAp(cfg.ap, r)
  BY <1>2, HalfUsable, SetApGood
<1>4. Usable([cfg EXCEPT !.ap = r.to])
  BY <1>2, <1>3, HalfUsable DEF GoodAp
<1>5. live' = Running([cfg EXCEPT !.ap = r.to])
  <2>1. CASE r.ok
    <3>1. live' = apply_ap(Running(cfg), [cfg EXCEPT !.ap = r.to])
      BY <1>1, <1>2, <2>1
    <3>2. [cfg EXCEPT !.ap = r.to].wg = cfg.wg
      BY <1>2 DEF Usable, Config
    <3> QED
      BY <3>1, <3>2, ApOnlyApplies
  <2>2. CASE ~r.ok
    BY <1>1, <1>2, <1>3, <2>2, HalfUsable DEF GoodAp
  <2> QED
    BY <2>1, <2>2
<1> QED
  BY <1>1, <1>2, <1>4, <1>5, EditKeeps

\* set debug, set country and the Wi-Fi commands touch nothing that is applied.
LEMMA OtherKeeps ==
  ASSUME SettingsInv, SetOther
  PROVE  SettingsInv'
<1>1. PICK c : cfg' = c /\ (\/ \E on \in BOOLEAN : c = [cfg EXCEPT !.debug = on]
                            \/ \E n \in Country : c = [cfg EXCEPT !.country = n]
                            \/ \E s \in Name : c = [cfg EXCEPT !.wifi = s])
  BY DEF SetOther
<1>2. Usable(cfg) /\ live = Running(cfg) /\ UNCHANGED <<live, flash, kept>>
  BY DEF SettingsInv, SetOther
<1>3. c \in Config /\ c.wg = cfg.wg /\ c.ap = cfg.ap
  <2>1. CASE \E on \in BOOLEAN : c = [cfg EXCEPT !.debug = on]
    BY <1>2, <2>1, Zenon DEF Usable, Config
  <2>2. CASE \E s \in Name : c = [cfg EXCEPT !.wifi = s]
    BY <1>2, <2>2 DEF Usable, Config, NameField
  <2>3. CASE \E n \in Country : c = [cfg EXCEPT !.country = n]
    BY <1>2, <2>3 DEF Usable, Config
  <2> QED
    BY <1>1, <2>1, <2>2, <2>3
<1>4. Usable(c) /\ live' = Running(c)
  BY <1>2, <1>3 DEF Usable, Sane, Running, ApNow, Wanted, ApFor
<1> QED
  BY <1>1, <1>2, <1>4, EditKeeps

\* genkey.
LEMMA GenkeyKeeps ==
  ASSUME SettingsInv, NEW force \in BOOLEAN, Genkey(force)
  PROVE  SettingsInv'
<1>1. PICK k \in GoodKey : cfg' = [cfg EXCEPT !.wg.private_key = k]
                           /\ live' = apply_wg(live, cfg')
  BY DEF Genkey
<1>2. Usable(cfg) /\ live = Running(cfg) /\ UNCHANGED <<flash, kept>>
  BY DEF SettingsInv, Genkey
<1> DEFINE w == [cfg.wg EXCEPT !.private_key = k]
           c == [cfg EXCEPT !.wg = w]
<1>3. cfg' = c
  BY <1>1
<1>4. cfg.wg \in WgConfig /\ SaneWg(cfg.wg) /\ k \in KeyField
  BY <1>2, HalfUsable DEF KeyField
<1>5. w \in WgConfig
  BY <1>4, Zenon DEF WgConfig
<1>6. SameLimits(cfg.wg, w)
  BY <1>4, Zenon DEF WgConfig, SameLimits
<1> HIDE DEF w
<1>7. SaneWg(w)
  BY <1>4, <1>6 DEF SaneWg, SameLimits
<1>8. Usable(c)
  BY <1>2, <1>5, <1>7, HalfUsable
<1> HIDE DEF c
<1>9. live' = Running(c)
  BY <1>1, <1>2, <1>3, WgApplies
<1> QED
  BY <1>2, <1>3, <1>8, <1>9, EditKeeps

\* save.
LEMMA SaveKeeps ==
  ASSUME SettingsInv, config_save
  PROVE  SettingsInv'
<1>1. UNCHANGED <<cfg, live>>
  BY DEF config_save
<1>2. CASE flash' = [layout |-> 2, rec |-> cfg] /\ kept' = cfg
  <2>1. flash' \in [layout : 0 .. 2, rec : Config] /\ Sane(flash'.rec)
    BY <1>2 DEF SettingsInv, Usable
  <2>2. config_load(flash)' = kept'
    BY <1>2 DEF config_load
  <2> QED
    BY <1>1, <2>1, <2>2 DEF SettingsInv, StoredIsLoaded, Usable
<1>3. CASE UNCHANGED <<flash, kept>>
  BY <1>1, <1>3 DEF SettingsInv, StoredIsLoaded, Usable
<1> QED
  BY <1>2, <1>3 DEF config_save

\* restore.
LEMMA RestoreKeeps ==
  ASSUME SettingsInv, Restore
  PROVE  SettingsInv'
<1>1. live' = apply_wg(Running(cfg), config_load(flash)) /\ cfg' = config_load(flash)
  BY DEF Restore, SettingsInv
<1>2. live' = Running(cfg')
  BY <1>1, WgApplies
<1> QED
  BY <1>1, <1>2, LoadedInv DEF SettingsInv, StoredIsLoaded, Restore

\* A start, after a save that was cut short too.
LEMMA BootKeeps ==
  ASSUME SettingsInv, PowerCycle \/ CutInSave
  PROVE  SettingsInv'
<1>1. CASE PowerCycle
  <2>1. cfg' = config_load(flash) /\ live' = Running(config_load(flash))
    BY <1>1, BootApplies DEF PowerCycle, Boot
  <2> QED
    BY <1>1, <2>1, LoadedInv DEF SettingsInv, StoredIsLoaded, PowerCycle
<1>2. CASE CutInSave
  <2>1. PICK f : f = flash' /\ f \in {NoRecord, Torn(cfg)}
    BY <1>2 DEF CutInSave
  <2>2. cfg' = config_load(f) /\ live' = Running(config_load(f)) /\ kept' = config_defaults
    BY <1>2, <2>1, BootApplies DEF CutInSave, Boot
  <2>3. f \in [layout : 0 .. 2, rec : Config] /\ Sane(f.rec) /\ f.layout = 0
    BY <2>1, DefaultsUsable DEF NoRecord, Torn, SettingsInv, Usable
  <2>4. config_load(f) = config_defaults
    BY <2>3 DEF config_load
  <2> QED
    BY <2>1, <2>2, <2>3, <2>4, LoadedInv
<1> QED
  BY <1>1, <1>2

\* Every step keeps the invariant.
LEMMA StepKeeps == SettingsInv /\ [Next]_vars => SettingsInv'
<1> SUFFICES ASSUME SettingsInv, [Next]_vars PROVE SettingsInv'
  OBVIOUS
<1>1. CASE Next
  BY <1>1, SetWgKeeps, SetApKeeps, OtherKeeps, GenkeyKeeps, SaveKeeps, RestoreKeeps,
     BootKeeps DEF Next
<1>2. CASE UNCHANGED vars
  BY <1>2 DEF vars, SettingsInv, StoredIsLoaded
<1> QED
  BY <1>1, <1>2

\* The invariant always holds.
LEMMA Invariant == Spec => []SettingsInv
BY InitInv, StepKeeps, PTL DEF Spec

\* What runs is what is configured, after every command and every start
\* (apply_wg, ap_apply).
THEOREM AlwaysLive == Spec => []LiveIsCurrent
<1>1. SettingsInv => LiveIsCurrent
  BY DEF SettingsInv, Running, ApNow, LiveIsCurrent
<1> QED
  BY <1>1, Invariant, PTL

\* However the record came about, its values are ones the firmware can use.
THEOREM AlwaysSane == Spec => []ValuesSane
<1>1. SettingsInv => ValuesSane
  BY DEF SettingsInv, Usable, ValuesSane
<1> QED
  BY <1>1, Invariant, PTL

\* What a restore or a start brings back is what was last stored, whole, or
\* the defaults after a save that was cut short (config_load, config_save).
THEOREM AlwaysStored == Spec => []StoredIsLoaded
<1>1. SettingsInv => StoredIsLoaded
  BY DEF SettingsInv
<1> QED
  BY <1>1, Invariant, PTL
=============================================================================
