---------------------------- MODULE TunnelProofs ----------------------------
(***************************************************************************)
(* Proofs of Tunnel's safety properties for every set of configurations,   *)
(* addresses and endpoints.  Each property has its own inductive invariant *)
(* over the variables it is about; the type invariant is proved first and  *)
(* used by all of them.  At the end, those about BootClock, the clock of   *)
(* the tunnel's handshakes, the other state wg.c keeps.                    *)
(***************************************************************************)
EXTENDS Tunnel, BootClock, TLAPS

\* ap_apply brings an access point up only when one is wanted.
Wanting == pc \in {"ap_glue", "ap_addr", "ap_dhcp", "ap_up"} => apc # None

\* Every variable keeps its type: the base of the other proofs.
LEMMA TypeInit == Init => TypeOK
<1>1. Init => Flags
  BY Zenon DEF Init, Flags
<1>2. Init => Values
  BY ConstTypes DEF Init, Values, Positions, NoLink
<1> QED BY <1>1, <1>2 DEF TypeOK

LEMMA FlagsNext == TypeOK /\ [Next]_vars => Flags'
<1> SUFFICES ASSUME TypeOK, [Next]_vars PROVE Flags'
  OBVIOUS
<1> USE DEF TypeOK, Flags
<1>1. CASE UNCHANGED vars
  BY <1>1 DEF vars, apvars, usbvars, stavars, epvars, wgvars, natvars, cfgvars
<1>2. ASSUME NEW c \in WgConf, CmdSetWg(c) PROVE Flags'
  BY <1>2 DEF CmdSetWg, apvars, usbvars, stavars, epvars, wgvars, natvars
<1>3. ASSUME NEW a \in ApConf \cup {None}, CmdSetAp(a) PROVE Flags'
  BY <1>3 DEF CmdSetAp, apvars, usbvars, stavars, epvars, wgvars, natvars
<1>4. CASE ApplyStep
  <2> USE DEF apvars, usbvars, stavars, epvars, wgvars, natvars, cfgvars
  <2>1. CASE ApplyUsbAddr BY <2>1 DEF ApplyUsbAddr
  <2>2. CASE TeardownNetif
    <3>1. wg_netif_added' \in BOOLEAN /\ sess' \in BOOLEAN
      BY <2>2, Zenon DEF TeardownNetif, Teardown
    <3> QED BY <2>2, <3>1 DEF TeardownNetif, Teardown
  <2>3. CASE TeardownState
    <3>1. endpoint_resolved' \in BOOLEAN
      BY <2>3, Zenon DEF TeardownState
    <3> QED BY <2>3, <3>1 DEF TeardownState
  <2>4. CASE TeardownExit
    <3>1. exit_on' \in BOOLEAN /\ exit_lan_on' \in BOOLEAN
      BY <2>4, Zenon DEF TeardownExit
    <3> QED BY <2>4, <3>1 DEF TeardownExit
  <2>5. CASE TeardownNat BY <2>5 DEF TeardownNat, ResetTo
  <2>6. CASE ApplyConfig
    <3>1. cfg.ok \in BOOLEAN
      BY ConstTypes DEF Values, WgRecord
    <3>2. wg_configured' \in BOOLEAN
      BY <2>6, <3>1 DEF ApplyConfig
    <3> QED BY <2>6, <3>2 DEF ApplyConfig
  <2>7. CASE ApplyExit
    <3>1. wgc.exitlan \in BOOLEAN
      BY ConstTypes DEF Values, WgRecord
    <3>2. exit_lan_on' \in BOOLEAN
      BY <2>7, <3>1 DEF ApplyExit, SetExit
    <3> QED BY <2>7, <3>2 DEF ApplyExit, SetExit
  <2>8. CASE ApplyExitOn
    <3>1. exit_on' \in BOOLEAN
      BY <2>8, Zenon DEF ApplyExitOn
    <3> QED BY <2>8, <3>1 DEF ApplyExitOn
  <2>9. CASE ApplyEndpoint
    <3>1. endpoint_resolved' \in BOOLEAN
      BY <2>9, Zenon DEF ApplyEndpoint
    <3> QED BY <2>9, <3>1 DEF ApplyEndpoint
  <2>10. CASE ApplyNetif
    <3>1. wg_netif_added' \in BOOLEAN
      BY <2>10, Zenon DEF ApplyNetif
    <3> QED BY <2>10, <3>1 DEF ApplyNetif
  <2>11. CASE ApDecide BY <2>11 DEF ApDecide
  <2>12. CASE ApRadioOff
    <3>1. ap_radio' \in BOOLEAN
      BY <2>12, Zenon DEF ApRadioOff, RadioOff
    <3> QED BY <2>12, <3>1 DEF ApRadioOff, RadioOff
  <2>13. CASE ApClear
    <3>1. ap_dhcp' \in BOOLEAN /\ ap_up' \in BOOLEAN
      BY <2>13, Zenon DEF ApClear
    <3> QED BY <2>13, <3>1 DEF ApClear
  <2>14. CASE ApEnable
    <3>1. ap_radio' \in BOOLEAN
      BY <2>14, Zenon DEF ApEnable
    <3> QED BY <2>14, <3>1 DEF ApEnable
  <2>15. CASE ApAddress BY <2>15 DEF ApAddress, Readdress
  <2>16. CASE ApServeDhcp
    <3>1. ap_dhcp' \in BOOLEAN
      BY <2>16, Zenon DEF ApServeDhcp
    <3> QED BY <2>16, <3>1 DEF ApServeDhcp
  <2>17. CASE ApUp
    <3>1. ap_up' \in BOOLEAN
      BY <2>17, Zenon DEF ApUp
    <3> QED BY <2>17, <3>1 DEF ApUp
  <2>18. CASE Announce BY <2>18 DEF Announce, Announced
  <2> QED BY <1>4, <2>1, <2>2, <2>3, <2>4, <2>5, <2>6, <2>7, <2>8, <2>9, <2>10, <2>11,
             <2>12, <2>13, <2>14, <2>15, <2>16, <2>17, <2>18 DEF ApplyStep
<1>5. CASE PollStep
  <2> USE DEF apvars, usbvars, stavars, epvars, wgvars, natvars, cfgvars
  <2>1. CASE PollNothing BY <2>1 DEF PollNothing, vars
  <2>2. ASSUME NEW o \in {"cached", "queued", "refused"}, PollAsk(o) PROVE Flags'
    <3>1. endpoint_resolved' \in BOOLEAN /\ resolve_due' \in BOOLEAN
      BY <2>2, Zenon DEF PollAsk
    <3> QED BY <2>2, <3>1 DEF PollAsk
  <2>3. CASE PollWait BY <2>3 DEF PollWait
  <2>4. CASE PollAddPeer BY <2>4 DEF PollAddPeer, AddPeer
  <2>5. CASE PollMonitor BY <2>5 DEF PollMonitor
  <2>6. ASSUME NEW kick \in BOOLEAN, PollAct(kick) PROVE Flags'
    <3>1. up' \in BOOLEAN
      BY <2>6, Zenon DEF PollAct, Act
    <3> QED BY <2>6, <3>1 DEF PollAct, Act
  <2> QED BY <1>5, <2>1, <2>2, <2>3, <2>4, <2>5, <2>6 DEF PollStep
<1>6. CASE UsbStep
  <2> USE DEF apvars, usbvars, stavars, epvars, wgvars, natvars, cfgvars
  <2>1. CASE BounceDetach
    <3>1. bounce_at' \in BOOLEAN /\ reconnect_at' \in BOOLEAN
      BY <2>1, Zenon DEF BounceDetach
    <3> QED BY <2>1, <3>1 DEF BounceDetach
  <2>2. CASE BounceAttach
    <3>1. reconnect_at' \in BOOLEAN
      BY <2>2, Zenon DEF BounceAttach
    <3> QED BY <2>2, <3>1 DEF BounceAttach
  <2>3. CASE UsbHostDhcp BY <2>3 DEF UsbHostDhcp
  <2> QED BY <1>6, <2>1, <2>2, <2>3 DEF UsbStep
<1>7. CASE Background
  <2> USE DEF apvars, usbvars, stavars, epvars, wgvars, natvars, cfgvars
  <2>1. ASSUME NEW n \in Hostname, NEW good \in BOOLEAN, DnsAnswer(n, good) PROVE Flags'
    <3>1. endpoint_resolved' \in BOOLEAN
      BY <2>1, Zenon DEF DnsAnswer
    <3> QED BY <2>1, <3>1 DEF DnsAnswer
  <2>2. CASE HandshakeDone
    <3>1. sess' \in BOOLEAN
      BY <2>2, Zenon DEF HandshakeDone
    <3> QED BY <2>2, <3>1 DEF HandshakeDone
  <2>3. CASE SessionLost
    <3>1. sess' \in BOOLEAN
      BY <2>3, Zenon DEF SessionLost
    <3> QED BY <2>3, <3>1 DEF SessionLost
  <2>4. CASE ExitTraffic BY <2>4 DEF ExitTraffic
  <2>5. CASE StaLinkUp
    <3>1. sta_up' \in BOOLEAN
      BY <2>5, Zenon DEF StaLinkUp
    <3> QED BY <2>5, <3>1 DEF StaLinkUp
  <2>6. ASSUME NEW l \in StaLink, StaDhcp(l) PROVE Flags'
    BY <2>6 DEF StaDhcp
  <2>7. CASE StaDown
    <3>1. sta_up' \in BOOLEAN
      BY <2>7, Zenon DEF StaDown
    <3> QED BY <2>7, <3>1 DEF StaDown
  <2>8. CASE ApClientDhcp BY <2>8 DEF ApClientDhcp
  <2>9. CASE TimePasses
    <3>1. resolve_due' \in BOOLEAN
      BY <2>9, Zenon DEF TimePasses
    <3> QED BY <2>9, <3>1 DEF TimePasses
  <2>10. ASSUME NEW e \in Endpoint, Roam(e) PROVE Flags'
    <3>1. sess' \in BOOLEAN
      BY <2>10, Zenon DEF Roam
    <3> QED BY <2>10, <3>1 DEF Roam
  <2> QED BY <1>7, <2>1, <2>2, <2>3, <2>4, <2>5, <2>6, <2>7, <2>8, <2>9,
             <2>10 DEF Background
<1> QED BY <1>1, <1>2, <1>3, <1>4, <1>5, <1>6, <1>7 DEF Next

LEMMA ValuesNext == TypeOK /\ Wanting /\ [Next]_vars => Values' /\ Wanting'
<1> SUFFICES ASSUME TypeOK, Wanting, [Next]_vars PROVE Values' /\ Wanting'
  OBVIOUS
<1> USE ConstTypes DEF TypeOK, Values, Wanting, Positions, WgRecord, LinkRecord
<1>1. CASE UNCHANGED vars
  BY <1>1 DEF vars, apvars, usbvars, stavars, epvars, wgvars, natvars, cfgvars
<1>2. ASSUME NEW c \in WgConf, CmdSetWg(c) PROVE Values' /\ Wanting'
  BY <1>2 DEF CmdSetWg, apvars, usbvars, stavars, epvars, wgvars, natvars
<1>3. ASSUME NEW a \in ApConf \cup {None}, CmdSetAp(a) PROVE Values' /\ Wanting'
  BY <1>3 DEF CmdSetAp, apvars, usbvars, stavars, epvars, wgvars, natvars
<1>4. CASE ApplyStep
  <2> USE DEF apvars, usbvars, stavars, epvars, wgvars, natvars, cfgvars
  <2>1. CASE ApplyUsbAddr BY <2>1 DEF ApplyUsbAddr, LinkOf
  <2>2. CASE TeardownNetif BY <2>2 DEF TeardownNetif, Teardown
  <2>3. CASE TeardownState BY <2>3 DEF TeardownState
  <2>4. CASE TeardownExit BY <2>4 DEF TeardownExit
  <2>5. CASE TeardownNat BY <2>5 DEF TeardownNat, ResetTo
  <2>6. CASE ApplyConfig BY <2>6 DEF ApplyConfig
  <2>7. CASE ApplyExit BY <2>7 DEF ApplyExit, SetExit, NoLink
  <2>8. CASE ApplyExitOn BY <2>8 DEF ApplyExitOn
  <2>9. CASE ApplyEndpoint BY <2>9 DEF ApplyEndpoint
  <2>10. CASE ApplyNetif BY <2>10 DEF ApplyNetif
  <2>11. CASE ApDecide BY <2>11 DEF ApDecide, ApReturn
  <2>12. CASE ApRadioOff BY <2>12 DEF ApRadioOff, RadioOff
  <2>13. CASE ApClear BY <2>13 DEF ApClear, ApReturn
  <2>14. CASE ApEnable BY <2>14 DEF ApEnable
  <2>15. CASE ApAddress BY <2>15 DEF ApAddress, Readdress
  <2>16. CASE ApServeDhcp BY <2>16 DEF ApServeDhcp
  <2>17. CASE ApUp BY <2>17 DEF ApUp, ApReturn, ApWanted
  <2>18. CASE Announce BY <2>18 DEF Announce, Announced, NoLink
  <2> QED BY <1>4, <2>1, <2>2, <2>3, <2>4, <2>5, <2>6, <2>7, <2>8, <2>9, <2>10, <2>11,
             <2>12, <2>13, <2>14, <2>15, <2>16, <2>17, <2>18 DEF ApplyStep
<1>5. CASE PollStep
  <2> USE DEF apvars, usbvars, stavars, epvars, wgvars, natvars, cfgvars
  <2>1. CASE PollNothing BY <2>1 DEF PollNothing, vars
  <2>2. ASSUME NEW o \in {"cached", "queued", "refused"}, PollAsk(o) PROVE Values' /\ Wanting'
    BY <2>2 DEF PollAsk, PolledExtIp, NoLink
  <2>3. CASE PollWait BY <2>3 DEF PollWait, PolledExtIp, NoLink
  <2>4. CASE PollAddPeer BY <2>4 DEF PollAddPeer, AddPeer
  <2>5. CASE PollMonitor BY <2>5 DEF PollMonitor, PolledExtIp, NoLink
  <2>6. ASSUME NEW kick \in BOOLEAN, PollAct(kick) PROVE Values' /\ Wanting'
    BY <2>6 DEF PollAct, Act
  <2> QED BY <1>5, <2>1, <2>2, <2>3, <2>4, <2>5, <2>6 DEF PollStep
<1>6. CASE UsbStep
  <2> USE DEF apvars, usbvars, stavars, epvars, wgvars, natvars, cfgvars
  <2>1. CASE BounceDetach BY <2>1 DEF BounceDetach
  <2>2. CASE BounceAttach BY <2>2 DEF BounceAttach
  <2>3. CASE UsbHostDhcp BY <2>3 DEF UsbHostDhcp, NoLink
  <2> QED BY <1>6, <2>1, <2>2, <2>3 DEF UsbStep
<1>7. CASE Background
  <2> USE DEF apvars, usbvars, stavars, epvars, wgvars, natvars, cfgvars
  <2>1. ASSUME NEW n \in Hostname, NEW good \in BOOLEAN, DnsAnswer(n, good) PROVE Values' /\ Wanting'
    BY <2>1 DEF DnsAnswer
  <2>2. CASE HandshakeDone BY <2>2 DEF HandshakeDone
  <2>3. CASE SessionLost BY <2>3 DEF SessionLost
  <2>4. CASE ExitTraffic BY <2>4 DEF ExitTraffic
  <2>5. CASE StaLinkUp BY <2>5 DEF StaLinkUp
  <2>6. ASSUME NEW l \in StaLink, StaDhcp(l) PROVE Values' /\ Wanting'
    BY <2>6 DEF StaDhcp
  <2>7. CASE StaDown BY <2>7 DEF StaDown
  <2>8. CASE ApClientDhcp BY <2>8 DEF ApClientDhcp, NoLink
  <2>9. CASE TimePasses BY <2>9 DEF TimePasses
  <2>10. ASSUME NEW e \in Endpoint, Roam(e) PROVE Values' /\ Wanting'
    BY <2>10 DEF Roam
  <2> QED BY <1>7, <2>1, <2>2, <2>3, <2>4, <2>5, <2>6, <2>7, <2>8, <2>9,
             <2>10 DEF Background
<1> QED BY <1>1, <1>2, <1>3, <1>4, <1>5, <1>6, <1>7 DEF Next

LEMMA TypeNext == TypeOK /\ Wanting /\ [Next]_vars => TypeOK' /\ Wanting'
  BY FlagsNext, ValuesNext DEF TypeOK

\* The state of wg.c, ap.c and usb_net.c stays within its types for ever.
THEOREM TypeCorrect == Spec => []TypeOK
<1>1. Init => Wanting
  BY DEF Init, Wanting
<1> QED BY <1>1, TypeInit, TypeNext, PTL DEF Spec

(***************************************************************************)
(* Exit mode.  The flags are consistent with the applied configuration     *)
(* because a configuration is replaced only while exit_on is clear, and    *)
(* with exit_on clear no packet adds a mapping.                            *)
(***************************************************************************)
ExitInv ==
  /\ exit_on => wg_configured /\ wgc.exit /\ (exit_lan_on => wgc.exitlan)
  /\ nat \in {None, wgc}
  /\ pc \in {"td_nat", "config", "exit", "exit_on"} => ~exit_on
  /\ pc = "config" => nat = None
  /\ pc \in {"exit", "exit_on"} => wg_configured /\ wgc.exit
  /\ pc = "exit_on" => (exit_lan_on => wgc.exitlan)

LEMMA ExitNext ==
  TypeOK /\ ExitInv /\ [Next]_vars => ExitInv'
<1> SUFFICES ASSUME TypeOK, ExitInv, [Next]_vars PROVE ExitInv'
  OBVIOUS
<1> USE DEF ExitInv, TypeOK, Flags, apvars, usbvars, stavars, epvars, wgvars, natvars, cfgvars
<1>1. CASE UNCHANGED vars BY <1>1 DEF vars
<1>2. ASSUME NEW c \in WgConf, CmdSetWg(c) PROVE ExitInv'
  BY <1>2 DEF CmdSetWg
<1>3. ASSUME NEW a \in ApConf \cup {None}, CmdSetAp(a) PROVE ExitInv'
  BY <1>3 DEF CmdSetAp
<1>4. CASE ApplyStep
  <2>1. CASE ApplyUsbAddr BY <2>1 DEF ApplyUsbAddr
  <2>2. CASE TeardownNetif BY <2>2 DEF TeardownNetif, Teardown
  <2>3. CASE TeardownState BY <2>3 DEF TeardownState
  <2>4. CASE TeardownExit BY <2>4 DEF TeardownExit
  <2>5. CASE TeardownNat BY <2>5 DEF TeardownNat, ResetTo
  <2>6. CASE ApplyConfig BY <2>6 DEF ApplyConfig
  <2>7. CASE ApplyExit BY <2>7 DEF ApplyExit, SetExit
  <2>8. CASE ApplyExitOn BY <2>8 DEF ApplyExitOn
  <2>9. CASE ApplyEndpoint BY <2>9 DEF ApplyEndpoint
  <2>10. CASE ApplyNetif BY <2>10 DEF ApplyNetif
  <2>11. CASE ApDecide BY <2>11 DEF ApDecide, ApReturn
  <2>12. CASE ApRadioOff BY <2>12 DEF ApRadioOff, RadioOff
  <2>13. CASE ApClear BY <2>13 DEF ApClear, ApReturn
  <2>14. CASE ApEnable BY <2>14 DEF ApEnable
  <2>15. CASE ApAddress BY <2>15 DEF ApAddress, Readdress
  <2>16. CASE ApServeDhcp BY <2>16 DEF ApServeDhcp
  <2>17. CASE ApUp BY <2>17 DEF ApUp, ApReturn
  <2>18. CASE Announce BY <2>18 DEF Announce, Announced
  <2> QED BY <1>4, <2>1, <2>2, <2>3, <2>4, <2>5, <2>6, <2>7, <2>8, <2>9, <2>10, <2>11,
             <2>12, <2>13, <2>14, <2>15, <2>16, <2>17, <2>18 DEF ApplyStep
<1>5. CASE PollStep
  <2>1. CASE PollNothing BY <2>1 DEF PollNothing, vars
  <2>2. ASSUME NEW o \in {"cached", "queued", "refused"}, PollAsk(o) PROVE ExitInv'
   BY <2>2 DEF PollAsk
  <2>3. CASE PollWait BY <2>3 DEF PollWait
  <2>4. CASE PollAddPeer BY <2>4 DEF PollAddPeer, AddPeer
  <2>5. CASE PollMonitor BY <2>5 DEF PollMonitor
  <2>6. ASSUME NEW kick \in BOOLEAN, PollAct(kick) PROVE ExitInv'
    BY <2>6 DEF PollAct, Act
  <2> QED BY <1>5, <2>1, <2>2, <2>3, <2>4, <2>5, <2>6 DEF PollStep
<1>6. CASE UsbStep
  <2>1. CASE BounceDetach BY <2>1 DEF BounceDetach
  <2>2. CASE BounceAttach BY <2>2 DEF BounceAttach
  <2>3. CASE UsbHostDhcp BY <2>3 DEF UsbHostDhcp
  <2> QED BY <1>6, <2>1, <2>2, <2>3 DEF UsbStep
<1>7. CASE Background
  <2>1. ASSUME NEW n \in Hostname, NEW good \in BOOLEAN, DnsAnswer(n, good) PROVE ExitInv'
   BY <2>1 DEF DnsAnswer
  <2>2. CASE HandshakeDone BY <2>2 DEF HandshakeDone
  <2>3. CASE SessionLost BY <2>3 DEF SessionLost
  <2>4. CASE ExitTraffic BY <2>4 DEF ExitTraffic, wg_ip4_route_hook, Onward
  <2>5. CASE StaLinkUp BY <2>5 DEF StaLinkUp
  <2>6. ASSUME NEW l \in StaLink, StaDhcp(l) PROVE ExitInv'
   BY <2>6 DEF StaDhcp
  <2>7. CASE StaDown BY <2>7 DEF StaDown
  <2>8. CASE ApClientDhcp BY <2>8 DEF ApClientDhcp
  <2>9. CASE TimePasses BY <2>9 DEF TimePasses
  <2>10. ASSUME NEW e \in Endpoint, Roam(e) PROVE ExitInv'
    BY <2>10 DEF Roam
  <2> QED BY <1>7, <2>1, <2>2, <2>3, <2>4, <2>5, <2>6, <2>7, <2>8, <2>9,
             <2>10 DEF Background
<1> QED BY <1>1, <1>2, <1>3, <1>4, <1>5, <1>6, <1>7 DEF Next

(***************************************************************************)
(* The default route.  Only the positions between the removal of the       *)
(* interface and the state's reset, and between the driver's and ap_apply's *)
(* choice, are exceptions.                                                 *)
(***************************************************************************)
DefaultInv ==
  /\ pc = "td_state" => netif_default = "sta"
  /\ pc = "ap_addr" => netif_default = "ap"
  /\ pc \notin {"td_state", "ap_addr"} =>
       netif_default = IF wg_state = "up" THEN "wg" ELSE "sta"
  /\ pc # "td_state" /\ wg_state = "up" => wg_netif_added
  /\ pc \in {"act", "addpeer"} => wg_netif_added
  /\ pc = "addpeer" => wg_state = "resolving"
  /\ pc \in {"td_exit", "td_nat", "config", "exit", "exit_on", "endpoint", "netif"} =>
       wg_state = "unconfigured"

LEMMA DefaultNext ==
  TypeOK /\ DefaultInv /\ [Next]_vars => DefaultInv'
<1> SUFFICES ASSUME TypeOK, DefaultInv, [Next]_vars PROVE DefaultInv'
  OBVIOUS
<1> USE DEF DefaultInv, TypeOK, Values, Flags, apvars, usbvars, stavars, epvars, wgvars, natvars, cfgvars
<1>1. CASE UNCHANGED vars BY <1>1 DEF vars
<1>2. ASSUME NEW c \in WgConf, CmdSetWg(c) PROVE DefaultInv'
  BY <1>2 DEF CmdSetWg
<1>3. ASSUME NEW a \in ApConf \cup {None}, CmdSetAp(a) PROVE DefaultInv'
  BY <1>3 DEF CmdSetAp
<1>4. CASE ApplyStep
  <2>1. CASE ApplyUsbAddr BY <2>1 DEF ApplyUsbAddr
  <2>2. CASE TeardownNetif BY <2>2 DEF TeardownNetif, Teardown
  <2>3. CASE TeardownState BY <2>3 DEF TeardownState
  <2>4. CASE TeardownExit BY <2>4 DEF TeardownExit
  <2>5. CASE TeardownNat BY <2>5 DEF TeardownNat, ResetTo
  <2>6. CASE ApplyConfig BY <2>6 DEF ApplyConfig
  <2>7. CASE ApplyExit BY <2>7 DEF ApplyExit, SetExit
  <2>8. CASE ApplyExitOn BY <2>8 DEF ApplyExitOn
  <2>9. CASE ApplyEndpoint BY <2>9 DEF ApplyEndpoint
  <2>10. CASE ApplyNetif BY <2>10 DEF ApplyNetif
  <2>11. CASE ApDecide BY <2>11 DEF ApDecide, ApReturn
  <2>12. CASE ApRadioOff BY <2>12 DEF ApRadioOff, RadioOff
  <2>13. CASE ApClear BY <2>13 DEF ApClear, ApReturn
  <2>14. CASE ApEnable BY <2>14 DEF ApEnable
  <2>15. CASE ApAddress BY <2>15 DEF ApAddress, Readdress
  <2>16. CASE ApServeDhcp BY <2>16 DEF ApServeDhcp
  <2>17. CASE ApUp BY <2>17 DEF ApUp, ApReturn
  <2>18. CASE Announce BY <2>18 DEF Announce, Announced
  <2> QED BY <1>4, <2>1, <2>2, <2>3, <2>4, <2>5, <2>6, <2>7, <2>8, <2>9, <2>10, <2>11,
             <2>12, <2>13, <2>14, <2>15, <2>16, <2>17, <2>18 DEF ApplyStep
<1>5. CASE PollStep
  <2>1. CASE PollNothing BY <2>1 DEF PollNothing, vars
  <2>2. ASSUME NEW o \in {"cached", "queued", "refused"}, PollAsk(o) PROVE DefaultInv'
   BY <2>2 DEF PollAsk, Pollable
  <2>3. CASE PollWait BY <2>3 DEF PollWait, Pollable
  <2>4. CASE PollAddPeer BY <2>4 DEF PollAddPeer, AddPeer
  <2>5. CASE PollMonitor BY <2>5 DEF PollMonitor, Pollable
  <2>6. ASSUME NEW kick \in BOOLEAN, PollAct(kick) PROVE DefaultInv'
    BY <2>6 DEF PollAct, Act
  <2> QED BY <1>5, <2>1, <2>2, <2>3, <2>4, <2>5, <2>6 DEF PollStep
<1>6. CASE UsbStep
  <2>1. CASE BounceDetach BY <2>1 DEF BounceDetach
  <2>2. CASE BounceAttach BY <2>2 DEF BounceAttach
  <2>3. CASE UsbHostDhcp BY <2>3 DEF UsbHostDhcp
  <2> QED BY <1>6, <2>1, <2>2, <2>3 DEF UsbStep
<1>7. CASE Background
  <2>1. ASSUME NEW n \in Hostname, NEW good \in BOOLEAN, DnsAnswer(n, good) PROVE DefaultInv'
   BY <2>1 DEF DnsAnswer
  <2>2. CASE HandshakeDone BY <2>2 DEF HandshakeDone
  <2>3. CASE SessionLost BY <2>3 DEF SessionLost
  <2>4. CASE ExitTraffic BY <2>4 DEF ExitTraffic
  <2>5. CASE StaLinkUp BY <2>5 DEF StaLinkUp
  <2>6. ASSUME NEW l \in StaLink, StaDhcp(l) PROVE DefaultInv'
   BY <2>6 DEF StaDhcp
  <2>7. CASE StaDown BY <2>7 DEF StaDown
  <2>8. CASE ApClientDhcp BY <2>8 DEF ApClientDhcp
  <2>9. CASE TimePasses BY <2>9 DEF TimePasses
  <2>10. ASSUME NEW e \in Endpoint, Roam(e) PROVE DefaultInv'
    BY <2>10 DEF Roam
  <2> QED BY <1>7, <2>1, <2>2, <2>3, <2>4, <2>5, <2>6, <2>7, <2>8, <2>9,
             <2>10 DEF Background
<1> QED BY <1>1, <1>2, <1>3, <1>4, <1>5, <1>6, <1>7 DEF Next

(***************************************************************************)
(* The access point's client holds the AP's one lease, or none.            *)
(***************************************************************************)
ApInv ==
  /\ ap_dhcp => ap \in ApConf /\ (ap_up \/ pc = "ap_up")
  /\ ap_up => ap_dhcp /\ pc \notin {"ap_glue", "ap_addr", "ap_dhcp", "ap_up"}
  /\ ap_lease # None => ap_dhcp /\ ap_lease = ap.host
  /\ pc = "ap_clear" => ~ap_radio /\ ap_lease = None
  /\ pc \in {"ap_glue", "ap_addr", "ap_dhcp"} => ~ap_dhcp
  /\ pc = "ap_dhcp" => ap \in ApConf
  /\ pc = "ap_up" => ap_dhcp
  /\ pc \in {"ap_off", "ap_clear"} => ap_up

LEMMA ApNext ==
  TypeOK /\ Wanting /\ ApInv /\ [Next]_vars => ApInv'
<1> SUFFICES ASSUME TypeOK, Wanting, ApInv, [Next]_vars PROVE ApInv'
  OBVIOUS
<1> USE ConstTypes DEF ApInv, TypeOK, Flags, Values, Wanting, apvars, usbvars, stavars, epvars, wgvars, natvars, cfgvars
<1>1. CASE UNCHANGED vars BY <1>1 DEF vars
<1>2. ASSUME NEW c \in WgConf, CmdSetWg(c) PROVE ApInv'
  BY <1>2 DEF CmdSetWg
<1>3. ASSUME NEW a \in ApConf \cup {None}, CmdSetAp(a) PROVE ApInv'
  BY <1>3 DEF CmdSetAp
<1>4. CASE ApplyStep
  <2>1. CASE ApplyUsbAddr BY <2>1 DEF ApplyUsbAddr
  <2>2. CASE TeardownNetif BY <2>2 DEF TeardownNetif, Teardown
  <2>3. CASE TeardownState BY <2>3 DEF TeardownState
  <2>4. CASE TeardownExit BY <2>4 DEF TeardownExit
  <2>5. CASE TeardownNat BY <2>5 DEF TeardownNat, ResetTo
  <2>6. CASE ApplyConfig BY <2>6 DEF ApplyConfig
  <2>7. CASE ApplyExit BY <2>7 DEF ApplyExit, SetExit
  <2>8. CASE ApplyExitOn BY <2>8 DEF ApplyExitOn
  <2>9. CASE ApplyEndpoint BY <2>9 DEF ApplyEndpoint
  <2>10. CASE ApplyNetif BY <2>10 DEF ApplyNetif
  <2>11. CASE ApDecide BY <2>11 DEF ApDecide, ApReturn
  <2>12. CASE ApRadioOff BY <2>12 DEF ApRadioOff, RadioOff
  <2>13. CASE ApClear BY <2>13 DEF ApClear, ApReturn
  <2>14. CASE ApEnable BY <2>14 DEF ApEnable
  <2>15. CASE ApAddress BY <2>15 DEF ApAddress, Readdress
  <2>16. CASE ApServeDhcp BY <2>16 DEF ApServeDhcp
  <2>17. CASE ApUp BY <2>17 DEF ApUp, ApReturn
  <2>18. CASE Announce BY <2>18 DEF Announce, Announced
  <2> QED BY <1>4, <2>1, <2>2, <2>3, <2>4, <2>5, <2>6, <2>7, <2>8, <2>9, <2>10, <2>11,
             <2>12, <2>13, <2>14, <2>15, <2>16, <2>17, <2>18 DEF ApplyStep
<1>5. CASE PollStep
  <2>1. CASE PollNothing BY <2>1 DEF PollNothing, vars
  <2>2. ASSUME NEW o \in {"cached", "queued", "refused"}, PollAsk(o) PROVE ApInv'
   BY <2>2 DEF PollAsk
  <2>3. CASE PollWait BY <2>3 DEF PollWait
  <2>4. CASE PollAddPeer BY <2>4 DEF PollAddPeer, AddPeer
  <2>5. CASE PollMonitor BY <2>5 DEF PollMonitor
  <2>6. ASSUME NEW kick \in BOOLEAN, PollAct(kick) PROVE ApInv'
    BY <2>6 DEF PollAct, Act
  <2> QED BY <1>5, <2>1, <2>2, <2>3, <2>4, <2>5, <2>6 DEF PollStep
<1>6. CASE UsbStep
  <2>1. CASE BounceDetach BY <2>1 DEF BounceDetach
  <2>2. CASE BounceAttach BY <2>2 DEF BounceAttach
  <2>3. CASE UsbHostDhcp BY <2>3 DEF UsbHostDhcp
  <2> QED BY <1>6, <2>1, <2>2, <2>3 DEF UsbStep
<1>7. CASE Background
  <2>1. ASSUME NEW n \in Hostname, NEW good \in BOOLEAN, DnsAnswer(n, good) PROVE ApInv'
   BY <2>1 DEF DnsAnswer
  <2>2. CASE HandshakeDone BY <2>2 DEF HandshakeDone
  <2>3. CASE SessionLost BY <2>3 DEF SessionLost
  <2>4. CASE ExitTraffic BY <2>4 DEF ExitTraffic
  <2>5. CASE StaLinkUp BY <2>5 DEF StaLinkUp
  <2>6. ASSUME NEW l \in StaLink, StaDhcp(l) PROVE ApInv'
   BY <2>6 DEF StaDhcp
  <2>7. CASE StaDown BY <2>7 DEF StaDown
  <2>8. CASE ApClientDhcp BY <2>8 DEF ApClientDhcp
  <2>9. CASE TimePasses BY <2>9 DEF TimePasses
  <2>10. ASSUME NEW e \in Endpoint, Roam(e) PROVE ApInv'
    BY <2>10 DEF Roam
  <2> QED BY <1>7, <2>1, <2>2, <2>3, <2>4, <2>5, <2>6, <2>7, <2>8, <2>9,
             <2>10 DEF Background
<1> QED BY <1>1, <1>2, <1>3, <1>4, <1>5, <1>6, <1>7 DEF Next

(***************************************************************************)
(* The USB link.  Outside an apply its address is the one last announced;  *)
(* with no replug pending the host's lease is that of a link of that       *)
(* address, the current one or one it was renumbered from.                 *)
(***************************************************************************)
WgPos == {"addr", "teardown", "td_state", "td_exit", "td_nat", "config", "exit",
          "exit_on", "endpoint", "netif", "announce"}

UsbInv ==
  /\ pc \in WgPos => job = "wg"
  /\ pc # "addr" => usb \in UsbLinks
  /\ pc = "addr" => usb \in UsbLinks \cup {NoLink}
  /\ pc \notin WgPos /\ (pc \in {"idle", "addpeer", "act"} \/ job = "ap") =>
       usb.addr = applied_addr
  /\ lease # None /\ ~bounce_at =>
       \E l \in UsbLinks : l.addr = applied_addr /\ l.host = lease
  /\ lease # None => lease \in CliOf(UsbLinks)

\* What the link records of UsbLinks are, spelled out.
SaneUsb == \A l \in UsbLinks : l.addr \in Addr /\ l.addr # None /\ l.host \in l.net

LEMMA SaneLinksUsb == SaneUsb
  BY ConstTypes, SaneLinks DEF SaneUsb, UsbLinks, LinkOf, LinkRecord, WgRecord

LEMMA UsbNext ==
  SaneUsb /\ TypeOK /\ UsbInv /\ [Next]_vars => UsbInv'
<1> SUFFICES ASSUME SaneUsb, TypeOK, UsbInv, [Next]_vars PROVE UsbInv'
  OBVIOUS
<1> USE DEF UsbInv, WgPos, TypeOK, Flags, Values, apvars, usbvars, stavars, epvars, wgvars, natvars, cfgvars
<1>1. CASE UNCHANGED vars BY <1>1 DEF vars
<1>2. ASSUME NEW c \in WgConf, CmdSetWg(c) PROVE UsbInv'
  BY <1>2 DEF CmdSetWg
<1>3. ASSUME NEW a \in ApConf \cup {None}, CmdSetAp(a) PROVE UsbInv'
  BY <1>3 DEF CmdSetAp
<1>4. CASE ApplyStep
  <2>1. CASE ApplyUsbAddr BY <2>1 DEF ApplyUsbAddr, UsbLinks
  <2>2. CASE TeardownNetif BY <2>2 DEF TeardownNetif, Teardown
  <2>3. CASE TeardownState BY <2>3 DEF TeardownState
  <2>4. CASE TeardownExit BY <2>4 DEF TeardownExit
  <2>5. CASE TeardownNat BY <2>5 DEF TeardownNat, ResetTo
  <2>6. CASE ApplyConfig BY <2>6 DEF ApplyConfig
  <2>7. CASE ApplyExit BY <2>7 DEF ApplyExit, SetExit
  <2>8. CASE ApplyExitOn BY <2>8 DEF ApplyExitOn
  <2>9. CASE ApplyEndpoint BY <2>9 DEF ApplyEndpoint
  <2>10. CASE ApplyNetif BY <2>10 DEF ApplyNetif
  <2>11. CASE ApDecide BY <2>11 DEF ApDecide, ApReturn
  <2>12. CASE ApRadioOff BY <2>12 DEF ApRadioOff, RadioOff
  <2>13. CASE ApClear BY <2>13 DEF ApClear, ApReturn
  <2>14. CASE ApEnable BY <2>14 DEF ApEnable
  <2>15. CASE ApAddress BY <2>15 DEF ApAddress, Readdress
  <2>16. CASE ApServeDhcp BY <2>16 DEF ApServeDhcp
  <2>17. CASE ApUp BY <2>17 DEF ApUp, ApReturn
  <2>18. CASE Announce BY <2>18 DEF Announce, Announced, SaneUsb
  <2> QED BY <1>4, <2>1, <2>2, <2>3, <2>4, <2>5, <2>6, <2>7, <2>8, <2>9, <2>10, <2>11,
             <2>12, <2>13, <2>14, <2>15, <2>16, <2>17, <2>18 DEF ApplyStep
<1>5. CASE PollStep
  <2>1. CASE PollNothing BY <2>1 DEF PollNothing, vars
  <2>2. ASSUME NEW o \in {"cached", "queued", "refused"}, PollAsk(o) PROVE UsbInv'
   BY <2>2 DEF PollAsk
  <2>3. CASE PollWait BY <2>3 DEF PollWait
  <2>4. CASE PollAddPeer BY <2>4 DEF PollAddPeer, AddPeer
  <2>5. CASE PollMonitor BY <2>5 DEF PollMonitor
  <2>6. ASSUME NEW kick \in BOOLEAN, PollAct(kick) PROVE UsbInv'
    BY <2>6 DEF PollAct, Act
  <2> QED BY <1>5, <2>1, <2>2, <2>3, <2>4, <2>5, <2>6 DEF PollStep
<1>6. CASE UsbStep
  <2>1. CASE BounceDetach BY <2>1 DEF BounceDetach
  <2>2. CASE BounceAttach BY <2>2 DEF BounceAttach
  <2>3. CASE UsbHostDhcp BY <2>3 DEF UsbHostDhcp, SaneUsb, CliOf
  <2> QED BY <1>6, <2>1, <2>2, <2>3 DEF UsbStep
<1>7. CASE Background
  <2>1. ASSUME NEW n \in Hostname, NEW good \in BOOLEAN, DnsAnswer(n, good) PROVE UsbInv'
   BY <2>1 DEF DnsAnswer
  <2>2. CASE HandshakeDone BY <2>2 DEF HandshakeDone
  <2>3. CASE SessionLost BY <2>3 DEF SessionLost
  <2>4. CASE ExitTraffic BY <2>4 DEF ExitTraffic
  <2>5. CASE StaLinkUp BY <2>5 DEF StaLinkUp
  <2>6. ASSUME NEW l \in StaLink, StaDhcp(l) PROVE UsbInv'
   BY <2>6 DEF StaDhcp
  <2>7. CASE StaDown BY <2>7 DEF StaDown
  <2>8. CASE ApClientDhcp BY <2>8 DEF ApClientDhcp
  <2>9. CASE TimePasses BY <2>9 DEF TimePasses
  <2>10. ASSUME NEW e \in Endpoint, Roam(e) PROVE UsbInv'
    BY <2>10 DEF Roam
  <2> QED BY <1>7, <2>1, <2>2, <2>3, <2>4, <2>5, <2>6, <2>7, <2>8, <2>9,
             <2>10 DEF Background
<1> QED BY <1>1, <1>2, <1>3, <1>4, <1>5, <1>6, <1>7 DEF Next

\* Where the device's own addresses come from.
OwnInv ==
  /\ usb \in UsbLinks \cup {NoLink}
  /\ ap \in ApConf \cup {Glue, NoLink}
  /\ sta \in StaLink \cup {NoLink}

LEMMA OwnNext ==
  TypeOK /\ Wanting /\ OwnInv /\ [Next]_vars => OwnInv'
<1> SUFFICES ASSUME TypeOK, Wanting, OwnInv, [Next]_vars PROVE OwnInv'
  OBVIOUS
<1> USE DEF OwnInv, TypeOK, Flags, Values, Wanting, apvars, usbvars, stavars, epvars, wgvars, natvars, cfgvars
<1>1. CASE UNCHANGED vars BY <1>1 DEF vars
<1>2. ASSUME NEW c \in WgConf, CmdSetWg(c) PROVE OwnInv'
  BY <1>2 DEF CmdSetWg
<1>3. ASSUME NEW a \in ApConf \cup {None}, CmdSetAp(a) PROVE OwnInv'
  BY <1>3 DEF CmdSetAp
<1>4. CASE ApplyStep
  <2>1. CASE ApplyUsbAddr BY <2>1 DEF ApplyUsbAddr, UsbLinks
  <2>2. CASE TeardownNetif BY <2>2 DEF TeardownNetif, Teardown
  <2>3. CASE TeardownState BY <2>3 DEF TeardownState
  <2>4. CASE TeardownExit BY <2>4 DEF TeardownExit
  <2>5. CASE TeardownNat BY <2>5 DEF TeardownNat, ResetTo
  <2>6. CASE ApplyConfig BY <2>6 DEF ApplyConfig
  <2>7. CASE ApplyExit BY <2>7 DEF ApplyExit, SetExit
  <2>8. CASE ApplyExitOn BY <2>8 DEF ApplyExitOn
  <2>9. CASE ApplyEndpoint BY <2>9 DEF ApplyEndpoint
  <2>10. CASE ApplyNetif BY <2>10 DEF ApplyNetif
  <2>11. CASE ApDecide BY <2>11 DEF ApDecide, ApReturn
  <2>12. CASE ApRadioOff BY <2>12 DEF ApRadioOff, RadioOff
  <2>13. CASE ApClear BY <2>13 DEF ApClear, ApReturn
  <2>14. CASE ApEnable BY <2>14 DEF ApEnable
  <2>15. CASE ApAddress BY <2>15 DEF ApAddress, Readdress
  <2>16. CASE ApServeDhcp BY <2>16 DEF ApServeDhcp
  <2>17. CASE ApUp BY <2>17 DEF ApUp, ApReturn
  <2>18. CASE Announce BY <2>18 DEF Announce, Announced
  <2> QED BY <1>4, <2>1, <2>2, <2>3, <2>4, <2>5, <2>6, <2>7, <2>8, <2>9, <2>10, <2>11,
             <2>12, <2>13, <2>14, <2>15, <2>16, <2>17, <2>18 DEF ApplyStep
<1>5. CASE PollStep
  <2>1. CASE PollNothing BY <2>1 DEF PollNothing, vars
  <2>2. ASSUME NEW o \in {"cached", "queued", "refused"}, PollAsk(o) PROVE OwnInv'
   BY <2>2 DEF PollAsk
  <2>3. CASE PollWait BY <2>3 DEF PollWait
  <2>4. CASE PollAddPeer BY <2>4 DEF PollAddPeer, AddPeer
  <2>5. CASE PollMonitor BY <2>5 DEF PollMonitor
  <2>6. ASSUME NEW kick \in BOOLEAN, PollAct(kick) PROVE OwnInv'
    BY <2>6 DEF PollAct, Act
  <2> QED BY <1>5, <2>1, <2>2, <2>3, <2>4, <2>5, <2>6 DEF PollStep
<1>6. CASE UsbStep
  <2>1. CASE BounceDetach BY <2>1 DEF BounceDetach
  <2>2. CASE BounceAttach BY <2>2 DEF BounceAttach
  <2>3. CASE UsbHostDhcp BY <2>3 DEF UsbHostDhcp
  <2> QED BY <1>6, <2>1, <2>2, <2>3 DEF UsbStep
<1>7. CASE Background
  <2>1. ASSUME NEW n \in Hostname, NEW good \in BOOLEAN, DnsAnswer(n, good) PROVE OwnInv'
   BY <2>1 DEF DnsAnswer
  <2>2. CASE HandshakeDone BY <2>2 DEF HandshakeDone
  <2>3. CASE SessionLost BY <2>3 DEF SessionLost
  <2>4. CASE ExitTraffic BY <2>4 DEF ExitTraffic
  <2>5. CASE StaLinkUp BY <2>5 DEF StaLinkUp
  <2>6. ASSUME NEW l \in StaLink, StaDhcp(l) PROVE OwnInv'
   BY <2>6 DEF StaDhcp
  <2>7. CASE StaDown BY <2>7 DEF StaDown
  <2>8. CASE ApClientDhcp BY <2>8 DEF ApClientDhcp
  <2>9. CASE TimePasses BY <2>9 DEF TimePasses
  <2>10. ASSUME NEW e \in Endpoint, Roam(e) PROVE OwnInv'
    BY <2>10 DEF Roam
  <2> QED BY <1>7, <2>1, <2>2, <2>3, <2>4, <2>5, <2>6, <2>7, <2>8, <2>9,
             <2>10 DEF Background
<1> QED BY <1>1, <1>2, <1>3, <1>4, <1>5, <1>6, <1>7 DEF Next

(***************************************************************************)
(* The theorems.                                                           *)
(***************************************************************************)
\* An address some client is given is never one of the device's own.
LEMMA ClientsNotOwn ==
  ASSUME TypeOK, OwnInv, NEW a \in Addr,
         a \in CliOf(UsbLinks) \/ a \in CliOf(ApConf)
  PROVE  ~is_own_addr(a)
<1> DEFINE All == WgConf \cup ApConf \cup {Island}
<1>1. a \in CliOf(All)
  BY DEF CliOf, UsbLinks, LinkOf
<1>2. \A d \in DevOf(All \cup {Glue} \cup StaLink) : a # d
  BY <1>1, SaneLinks DEF CliOf, DevOf
<1>3. \A l \in All \cup {Glue} \cup StaLink : a # l.addr
  BY <1>2 DEF DevOf
<1>4. usb \in UsbLinks => a # usb.addr
  BY <1>3 DEF UsbLinks, LinkOf
<1>5. a # usb.addr /\ a # ap.addr /\ a # sta.addr
  BY <1>3, <1>4, ConstTypes DEF OwnInv, NoLink
<1>6. a # wgc.addr
  BY <1>3 DEF TypeOK, Values
<1> QED BY <1>5, <1>6 DEF is_own_addr

\* wg.c's exit arm: traffic out of the tunnel uses the uplink only as the
\* applied configuration allows, at every point of every sequence of applies.
THEOREM ExitSafe == Spec => []ExitConfined
<1>1. Init => ExitInv
  BY DEF Init, ExitInv
<1>2. ExitInv => ExitConfined
  BY DEF ExitInv, ExitConfined, wg_ip4_route_hook, Onward
<1> QED BY <1>1, <1>2, ExitNext, TypeCorrect, PTL DEF Spec

\* The NAT table that overlay traffic uses holds only mappings made under the
\* applied configuration: wg_teardown's reset comes before the next exit arm.
THEOREM NatSafe == Spec => []NatOfThisTunnel
<1>1. Init => ExitInv
  BY DEF Init, ExitInv
<1>2. ExitInv => NatOfThisTunnel
  BY DEF ExitInv, NatOfThisTunnel
<1> QED BY <1>1, <1>2, ExitNext, TypeCorrect, PTL DEF Spec

\* The device's default route is the tunnel exactly while it is reported up,
\* and never an interface that is gone.
THEOREM DefaultSafe == Spec => []DefaultFollowsSession
<1>1. Init => DefaultInv
  BY DEF Init, DefaultInv
<1>2. TypeOK /\ DefaultInv => DefaultFollowsSession
  BY DEF DefaultInv, DefaultFollowsSession, TypeOK, Values
<1> QED BY <1>1, <1>2, DefaultNext, TypeCorrect, PTL DEF Spec

\* The AP client's packets never take the uplink or the device's own routes, at
\* every point of every apply, the start of a new access point included; and
\* they can be routed to the USB link only at the one point where the client may
\* have its lease and ap_up is not set yet.
THEOREM ApIsolation == Spec => []ApClientIsolated
<1>1. Init => Wanting /\ ApInv /\ OwnInv
  BY ConstTypes DEF Init, Wanting, ApInv, OwnInv
<1>2. TypeOK /\ ApInv /\ OwnInv => ApClientIsolated
  <2> SUFFICES ASSUME TypeOK, ApInv, OwnInv, ap_lease # None, NEW dest \in Addr
               PROVE  /\ wg_ip4_route_hook("ap", ap_lease, dest) \notin {"sta", "normal"}
                      /\ wg_ip4_route_hook("ap", ap_lease, dest) = "usb" => pc = "ap_up"
    BY DEF ApClientIsolated
  <2>1. ap \in ApConf /\ ap_lease = ap.host
    BY DEF ApInv
  <2>2. ap.addr # None /\ ap_lease \in ap.net /\ ap_lease \in Addr
    BY <2>1, ConstTypes, SaneLinks DEF LinkRecord
  <2>3. ~is_own_addr(ap_lease)
    BY <2>1, <2>2, ClientsNotOwn DEF CliOf
  <2>4. ap_up => in_ap_subnet(ap_lease)
    BY <2>2 DEF in_ap_subnet
  <2>5. ap_up \/ pc = "ap_up"
    BY DEF ApInv
  <2> QED BY <2>3, <2>4, <2>5 DEF wg_ip4_route_hook, Onward
<1> QED BY <1>1, <1>2, ApNext, OwnNext, TypeInit, TypeNext, PTL DEF Spec

\* The USB host's packets never take the uplink or the device's own routes,
\* whichever lease it still uses, with or without a pending replug, for all
\* configurations; and they can be routed to the AP only while a replug is
\* pending or after the link was renumbered under its device address.
THEOREM UsbIsolation == Spec => []UsbHostIsolated
<1>1. Init => Wanting /\ UsbInv /\ OwnInv
  BY ConstTypes DEF Init, Wanting, UsbInv, OwnInv, WgPos
<1>2. TypeOK /\ UsbInv /\ [Next]_vars => UsbInv'
  BY UsbNext, SaneLinksUsb
<1>3. TypeOK /\ UsbInv /\ OwnInv => UsbHostIsolated
  <2> SUFFICES ASSUME TypeOK, UsbInv, OwnInv, pc = "idle", lease # None, NEW dest \in Addr
               PROVE  /\ wg_ip4_route_hook("usb", lease, dest) \notin {"sta", "normal"}
                      /\ wg_ip4_route_hook("usb", lease, dest) = "ap" => bounce_at \/ Renumbered
    BY DEF UsbHostIsolated
  <2>1. usb \in UsbLinks /\ usb.addr # None /\ usb.host \in usb.net /\ usb.addr = applied_addr
    BY SaneLinksUsb DEF UsbInv, WgPos, SaneUsb
  <2>2. ~is_own_addr(lease)
    BY ClientsNotOwn DEF UsbInv, TypeOK, Values
  <2>3. in_usb_subnet(lease) \/ bounce_at \/ Renumbered
    BY <2>1 DEF in_usb_subnet, Renumbered, UsbInv
  <2> QED BY <2>2, <2>3 DEF wg_ip4_route_hook, Onward
<1> QED BY <1>1, <1>2, <1>3, OwnNext, TypeInit, TypeNext, PTL DEF Spec

-----------------------------------------------------------------------------
(***************************************************************************)
(* The handshake clock.  Stamps increase across every pattern of reboots,  *)
(* for every window, clock width and set of delays, while the uptime stays *)
(* below the clock's wrap.                                                 *)
(***************************************************************************)
\* The device does not stay powered until its millisecond clock wraps.
NoWrap == Horizon < Wrap

\* The stamp of an initiation at uptime t of boot n.
StampAt(n, t) == [sec |-> n * Window + t \div 1000, ms |-> t % 1000]

\* What ties the sector to the last stamp: a later boot starts a window above.
StampInv ==
  ~torn =>
    /\ phase = "off" => last.sec < NextCount(flash) * Window
    /\ phase = "erase" => boot_count = NextCount(flash)
    /\ phase \in {"erase", "program"} => last.sec < boot_count * Window
    /\ phase = "run" => flash = boot_count
    /\ phase = "run" /\ sent_at = 0 => last.sec < boot_count * Window
    /\ phase = "run" /\ sent_at # 0 => last = StampAt(boot_count, sent_at)
    /\ phase \in {"erase", "program"} => sent_at = 0
    /\ sent_at <= uptime

\* Windows of boots, as numbers.
LEMMA Arithmetic ==
  /\ Window \in Nat /\ 0 < Window
  /\ \A n \in Nat : n * Window \in Nat /\ (n + 1) * Window = n * Window + Window
BY ClockBounds

\* Below the wrap the 32-bit clock is the uptime, and its seconds stay in the
\* window of the boot.
LEMMA InWindow ==
  ASSUME NoWrap, NEW t \in 0..Horizon
  PROVE  t % Wrap = t /\ t \div 1000 < Window /\ t \div 1000 \in Nat /\ t % 1000 \in 0..999
BY ClockBounds DEF NoWrap

\* Time order is stamp order within one boot.
LEMMA OrderInBoot ==
  ASSUME NEW n \in Nat, NEW t \in Nat, NEW u \in Nat, t < u
  PROVE  Later(StampAt(n, u), StampAt(n, t))
<1>1. n * Window \in Nat BY Arithmetic
<1>2. t \div 1000 < u \div 1000 \/ (t \div 1000 = u \div 1000 /\ t % 1000 < u % 1000)
  OBVIOUS
<1> QED BY <1>1, <1>2 DEF Later, StampAt

\* Every variable keeps its type, for every width of clock and every fault.
THEOREM ClockTypeCorrect == ClockSpec => []ClockTypeOK
<1>1. ClockInit => ClockTypeOK
  <2> SUFFICES ASSUME ClockInit PROVE ClockTypeOK
    OBVIOUS
  <2>1. last \in Stamp BY DEF ClockInit, Stamp
  <2>2. torn \in BOOLEAN BY DEF ClockInit
  <2> QED BY <2>1, <2>2, ClockBounds DEF ClockInit, ClockTypeOK, Phases
<1>2. ClockTypeOK /\ [ClockNext]_clockvars => ClockTypeOK'
  <2> SUFFICES ASSUME ClockTypeOK, [ClockNext]_clockvars PROVE ClockTypeOK'
    OBVIOUS
  <2>1. CASE TimeInitRead
    BY <2>1, ClockBounds DEF TimeInitRead, NextCount, ClockTypeOK, Stamp, Phases
  <2>2. CASE FlashErase BY <2>2 DEF FlashErase, ClockTypeOK, Stamp, Phases
  <2>3. CASE FlashProgram BY <2>3 DEF FlashProgram, ClockTypeOK, Stamp, Phases
  <2>4. CASE WriteFails BY <2>4 DEF WriteFails, ClockTypeOK, Stamp, Phases
  <2>5. CASE Initiate
    <3>1. SysNow \in Nat BY ClockBounds DEF SysNow, ClockTypeOK
    <3>2. SysNow \div 1000 \in Nat /\ SysNow % 1000 \in 0..999 BY <3>1
    <3>3. last' \in Stamp
      BY <2>5, <3>2, Arithmetic DEF Initiate, wireguard_tai64n_now, Stamp, ClockTypeOK
    <3> QED BY <2>5, <3>3 DEF Initiate, ClockTypeOK
  <2>6. ASSUME NEW d \in Period, Elapse(d) PROVE ClockTypeOK'
    BY <2>6, ClockBounds DEF Elapse, ClockTypeOK, Stamp
  <2>7. CASE PowerLoss BY <2>7 DEF PowerLoss, ClockTypeOK, Stamp, Phases
  <2>8. CASE UNCHANGED clockvars BY <2>8 DEF clockvars, ClockTypeOK
  <2> QED BY <2>1, <2>2, <2>3, <2>4, <2>5, <2>6, <2>7, <2>8 DEF ClockNext
<1> QED BY <1>1, <1>2, PTL DEF ClockSpec

LEMMA InvStep ==
  ASSUME NoWrap, ClockTypeOK, StampInv, [ClockNext]_clockvars
  PROVE  StampInv'
<1> SUFFICES ASSUME ~torn' PROVE StampInv'
  BY DEF StampInv
<1>1. CASE TimeInitRead
  BY <1>1, ClockBounds DEF TimeInitRead, StampInv, ClockTypeOK
<1>2. CASE FlashErase BY <1>2 DEF FlashErase, StampInv
<1>3. CASE FlashProgram BY <1>3 DEF FlashProgram, StampInv
<1>4. CASE WriteFails BY <1>4 DEF WriteFails
<1>5. CASE Initiate
  <2>1. SysNow = uptime BY InWindow DEF SysNow, ClockTypeOK
  <2>2. last' = StampAt(boot_count, uptime)
    BY <1>5, <2>1 DEF Initiate, wireguard_tai64n_now, StampAt
  <2> QED BY <1>5, <2>2 DEF Initiate, StampInv, ClockTypeOK, StampAt
<1>6. ASSUME NEW d \in Period, Elapse(d) PROVE StampInv'
  BY <1>6, ClockBounds DEF Elapse, StampInv, ClockTypeOK, StampAt
<1>7. CASE PowerLoss
  <2>1. phase # "program" /\ ~torn BY <1>7 DEF PowerLoss
  <2>2. last.sec < NextCount(flash) * Window
    <3>1. CASE phase \in {"off", "erase"} BY <2>1, <3>1 DEF StampInv
    <3>2. CASE phase = "run"
      <4>1. flash = boot_count /\ NextCount(flash) = boot_count + 1
        BY <2>1, <3>2, ClockBounds DEF StampInv, ClockTypeOK, NextCount
      <4>2. NextCount(flash) * Window = boot_count * Window + Window
        BY <4>1, Arithmetic DEF ClockTypeOK
      <4>3. boot_count * Window \in Nat BY Arithmetic DEF ClockTypeOK
      <4>4. CASE sent_at = 0
        BY <2>1, <3>2, <4>2, <4>3, <4>4, Arithmetic DEF StampInv, ClockTypeOK, Stamp
      <4>5. CASE sent_at # 0
        <5>1. last.sec = boot_count * Window + sent_at \div 1000
          BY <2>1, <3>2, <4>5 DEF StampInv, StampAt
        <5>2. sent_at \div 1000 < Window /\ sent_at \div 1000 \in Nat
          BY InWindow DEF ClockTypeOK
        <5> QED BY <4>2, <4>3, <5>1, <5>2, Arithmetic
      <4> QED BY <4>4, <4>5
    <3> QED BY <2>1, <3>1, <3>2 DEF ClockTypeOK, Phases
  <2> QED BY <1>7, <2>1, <2>2 DEF PowerLoss, StampInv
<1>8. CASE UNCHANGED clockvars BY <1>8 DEF clockvars, StampInv, StampAt
<1> QED BY <1>1, <1>2, <1>3, <1>4, <1>5, <1>6, <1>7, <1>8 DEF ClockNext

LEMMA StampStep ==
  ASSUME NoWrap, ClockTypeOK, StampInv, [ClockNext]_clockvars, Stamped, ~torn
  PROVE  Later(last', last)
<1>1. Initiate
  BY DEF Stamped, ClockNext, clockvars, TimeInitRead, FlashErase, FlashProgram, WriteFails,
         Elapse, PowerLoss
<1>2. SysNow = uptime BY InWindow DEF SysNow, ClockTypeOK
<1>3. last' = StampAt(boot_count, uptime)
  BY <1>1, <1>2 DEF Initiate, wireguard_tai64n_now, StampAt
<1>4. CASE sent_at = 0
  <2>1. last.sec < boot_count * Window /\ boot_count * Window \in Nat /\ last.sec \in Nat
    BY <1>1, <1>4, Arithmetic DEF Initiate, StampInv, ClockTypeOK, Stamp
  <2>2. uptime \div 1000 \in Nat BY InWindow DEF ClockTypeOK
  <2> QED BY <1>3, <2>1, <2>2 DEF Later, StampAt
<1>5. CASE sent_at # 0
  <2>1. last = StampAt(boot_count, sent_at) BY <1>1, <1>5 DEF Initiate, StampInv
  <2> QED BY <1>1, <1>3, <2>1, OrderInBoot DEF Initiate, ClockTypeOK
<1> QED BY <1>4, <1>5

\* wg.c 113-117: below the wrap of the millisecond clock no sequence of boots,
\* power losses and initiations produces a stamp that is not later than all
\* before it, as long as no boot's write of its count was lost or refused.
THEOREM StampsSafe == NoWrap => (ClockSpec => IntactStampsIncrease)
<1> SUFFICES ASSUME NoWrap PROVE ClockSpec => IntactStampsIncrease
  OBVIOUS
<1>1. ClockInit => StampInv
  BY ClockBounds, Arithmetic DEF ClockInit, StampInv, NextCount
<1>2. ClockTypeOK /\ StampInv /\ [ClockNext]_clockvars => StampInv'
  BY InvStep
<1>3. ClockTypeOK /\ StampInv /\ [ClockNext]_clockvars => [Stamped /\ ~torn => Later(last', last)]_clockvars
  BY StampStep
<1> QED BY <1>1, <1>2, <1>3, ClockTypeCorrect, PTL DEF ClockSpec, IntactStampsIncrease
=============================================================================
