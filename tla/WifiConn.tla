------------------------------ MODULE WifiConn ------------------------------
(***************************************************************************)
(* The Wi-Fi connection manager of wifi_conn.c together with what it       *)
(* shares: the scanner of wifi_scan.c, the profile list of config.c and    *)
(* the console of config_proto.c and serial_console.c, whose commands edit *)
(* the list, take the scanner and store the list in flash.                 *)
(*                                                                         *)
(* The manager, the console and the portal all run in the main loop, so a  *)
(* tick of the manager or a command is one action; the radio's answers and *)
(* what a scan hears arrive in the background.  A step of the manager is a *)
(* chain of calls, some of which the radio may refuse: each call maps the  *)
(* device's state d to the set of states it may leave.  Deadlines are not  *)
(* timed: a tick may find any of them passed.                              *)
(***************************************************************************)
EXTENDS Profiles

CONSTANTS
  Networks,         \* the access points: a function from names to what each is:
                    \* [rssi : strengths heard, {} if hidden, pass : what it accepts]
  Stored,           \* the configurations flash may hold at first
  Typed,            \* passwords a user may type
  WIFI_SCAN_MAX,    \* scan results kept
  MGR_SCAN_PASSES,  \* passes of a manager scan
  SCAN_PASSES,      \* passes of a console scan
  FAST_RETRIES,     \* rejoins of the same network before a full cycle
  RrWrap,           \* rr_unseen wraps here (256 for a uint8_t)
  Named,            \* network names a user may type
  MaxEvents         \* bound on commands, refusals, lost links and failed saves

ASSUME WifiBounds ==
  /\ \A n \in {WIFI_SCAN_MAX, MGR_SCAN_PASSES, SCAN_PASSES, RrWrap} : n \in Nat \ {0}
  /\ FAST_RETRIES \in Nat /\ MaxEvents \in Nat
  /\ DOMAIN Networks \subseteq Ssid /\ Named \subseteq Ssid /\ Typed \subseteq Password
  /\ \A s \in DOMAIN Networks : Networks[s].rssi \subseteq Nat
  /\ Stored \subseteq Config

VARIABLES
  d,      \* the device: configuration, manager, scanner, console, radio
  shown   \* the numbered list a console user may be choosing from (history)

vars == <<d, shown>>

\* NOJOIN, which only the displays tell from UNTRIED, is UNTRIED here.
Status == {"UNTRIED", "CONNECTED", "BADPASS"}
Off    == [phase |-> "off", ssid |-> "", pass |-> NoPass]

\* What a network accepts: its own password, NoPass for an open one.
Accepts(r) == r.ssid \in DOMAIN Networks /\ Networks[r.ssid].pass = r.pass

\* x after one more event of the bounded kinds: here, a call that is refused.
Counted(x) == IF x.events < MaxEvents THEN {[x EXCEPT !.events = @ + 1]} ELSE {}

\* One call after another: F from each of the states in S.
Then(S, F(_)) == UNION {F(x) : x \in S}

(*************************** The scanner, wifi_scan.c ***********************)

\* Starting a scan abandons a join that is not established.
Cleared(x) ==
  [x EXCEPT !.results = <<>>, !.radio = IF @.phase = "link" THEN @ ELSE Off]
Running(x) == [x EXCEPT !.scanning = TRUE, !.hearing = TRUE]

\* The states after wifi_scan_start returned true; and false.
wifi_scan_start(x)  == IF x.scanning THEN x ELSE Running(Cleared(x))
ScanRefused(x)      == IF x.scanning THEN {} ELSE Counted(Cleared(x))
wifi_scan_again(x)  == Running(x)
AgainRefused(x)     == IF x.scanning THEN {} ELSE Counted(x)
wifi_scan_poll(x)   == [x EXCEPT !.scanning = @ /\ x.hearing]
wifi_scan_stop(x)   == [x EXCEPT !.scanning = FALSE]

\* scan_cb: a name heard again keeps its strongest signal; a full table gives
\* up its weakest entry for a stronger one.
scan_cb(res, e) ==
  LET same == {i \in DOMAIN res : res[i].ssid = e.ssid}
      weak == CHOOSE i \in DOMAIN res : \A j \in DOMAIN res :
                res[i].rssi < res[j].rssi \/ (res[i].rssi = res[j].rssi /\ i <= j)
  IN IF same # {} THEN [i \in DOMAIN res |->
                          IF i \in same /\ e.rssi > res[i].rssi THEN e ELSE res[i]]
     ELSE IF Len(res) < WIFI_SCAN_MAX THEN Append(res, e)
     ELSE IF e.rssi > res[weak].rssi THEN [res EXCEPT ![weak] = e]
     ELSE res

(************************ The manager, wifi_conn.c **************************)

\* The signal of each saved network in the latest results, taken before every
\* use of it.
snapshot_rssi(x) ==
  LET at(i) == {k \in DOMAIN x.results : config_find_profile(x.cfg, x.results[k].ssid) = i}
  IN [i \in Index |-> IF at(i) = {} THEN 0 ELSE x.results[CHOOSE k \in at(i) : TRUE].rssi]

\* Start joining the first candidate that the radio takes; when none is left,
\* wait.  The last attempt is then not called off: it may yet succeed.
From(x, i) ==
  IF i > Len(x.order)
  THEN [x EXCEPT !.state = "WAIT", !.order = <<>>, !.radio = IF i = 1 THEN @ ELSE Off]
  ELSE LET p == x.cfg.profiles[x.order[i]]
       IN [x EXCEPT !.state = "TRY", !.trying = x.order[i],
                    !.order = SubSeq(@, i, Len(@)),
                    !.radio = [phase |-> "joining", ssid |-> p.ssid, pass |-> p.pass]]

try_from(x) ==
  {[From(x, i) EXCEPT !.events = @ + i - 1] :
     i \in {k \in 1 .. Len(x.order) + 1 : x.events + k - 1 <= MaxEvents}}

\* Try the active profile and nothing else.
Pin(x) == Then({[x EXCEPT !.order = <<x.cfg.active>>]}, try_from)

Candidates(x) == wifi_pick_order(x.cfg, x.status, snapshot_rssi(x), x.rr_unseen)

\* The mutant never turns to the next network the scan does not see.
BuildSameBlind(x) == Then({[x EXCEPT !.order = Candidates(x)]}, try_from)

build_and_try(x) ==
  Then({[x EXCEPT !.order = Candidates(x), !.rr_unseen = (@ + 1) % RrWrap]}, try_from)

start_cycle(x, fresh) ==
  IF x.cfg.profiles = <<>> THEN {[x EXCEPT !.state = "IDLE"]}
  ELSE LET y == [x EXCEPT !.state = "SCAN"]
       IN IF x.scan_ever /\ fresh THEN Then({y}, build_and_try)
          ELSE {[wifi_scan_start(y) EXCEPT !.passes = MGR_SCAN_PASSES]}
               \cup {[z EXCEPT !.state = "WAIT"] : z \in ScanRefused(y)}

Unmarked(st) == [i \in Index |-> IF st[i] = "CONNECTED" THEN "UNTRIED" ELSE st[i]]

\* config_save, which either stores the record or leaves flash as it was.
Stores(x)  == [x EXCEPT !.flash = x.cfg, !.unstored = FALSE]
StoreFails(x) == {[y EXCEPT !.unstored = TRUE] : y \in Counted(x)}

\* The mutant forgets the credentials it has just proved.
ForgetCreds(x) == {[x EXCEPT !.creds_unsaved = FALSE]}

\* Credentials that a join proved are stored, once, whether or not that works.
AutoSave(x) ==
  IF ~x.creds_unsaved THEN {x}
  ELSE {[y EXCEPT !.creds_unsaved = FALSE] : y \in {Stores(x)} \cup StoreFails(x)}

\* The network tried last has come up: it becomes active and the most recent.
joined(x) ==
  LET up == [x EXCEPT !.state = "UP", !.fast_tries = FAST_RETRIES, !.order = <<>>]
      i  == x.trying
  IN IF i > Len(x.cfg.profiles) THEN {up}
     ELSE Then({[up EXCEPT
                   !.cfg    = config_touch_profile([@ EXCEPT !.active = i], i),
                   !.status = [Fronted(Unmarked(@), i) EXCEPT ![1] = "CONNECTED"],
                   !.trying = 1]}, AutoSave)

\* A tick's scan work: the passes of a scan of its own, whose end starts a
\* cycle that waited for it, or a scan the portal asked for.
PassOver(x) ==
  LET y == [x EXCEPT !.passes = 0, !.scan_ever = TRUE]
  IN IF x.state = "SCAN" THEN Then({y}, build_and_try) ELSE {y}

DriveScan(x) ==
  IF x.passes > 0
  THEN LET y == wifi_scan_poll(x)
       IN IF y.scanning THEN {y}
          ELSE IF x.passes = 1 THEN Then({y}, PassOver)
          ELSE {[wifi_scan_again(y) EXCEPT !.passes = @ - 1]}
               \cup Then(AgainRefused(y), PassOver)
  ELSE IF x.requested /\ x.state # "TRY"
  THEN LET y == [x EXCEPT !.requested = FALSE]
       IN {[wifi_scan_start(y) EXCEPT !.passes = MGR_SCAN_PASSES,
                                      !.state = IF @ = "WAIT" THEN "SCAN" ELSE @]}
          \cup ScanRefused(y)
  ELSE {x}

\* The attempt on the profile tried has failed: on to the next.
Failed(x, mark) ==
  Then({[x EXCEPT !.status[x.trying] = mark, !.order = Tail(@)]}, try_from)

\* The state machine proper.  link was read before the scan work; fresh says
\* the last results are recent, due that the deadline of a join or of a wait
\* that began before this tick has passed.
Switch(x, link, due, fresh) ==
  CASE x.state = "UP" ->
         IF link THEN {x}
         ELSE LET y == [x EXCEPT !.status = Unmarked(@)]
                  cycle(z) == start_cycle(z, fresh)
              IN IF x.fast_tries > 0 /\ HasActive(x.cfg)
                 THEN Then({[y EXCEPT !.fast_tries = @ - 1]}, Pin)
                 ELSE Then({y}, cycle)
    [] x.state = "TRY" ->
         IF link THEN joined(x)
         ELSE IF x.radio.phase = "badauth" THEN Failed(x, "BADPASS")
         ELSE IF x.radio.phase = "fail" \/ due THEN Failed(x, "UNTRIED")
         ELSE {x}
    [] x.state \in {"SCAN", "WAIT"} ->
         IF link THEN joined(x)
         ELSE IF x.state = "WAIT" /\ due THEN start_cycle(x, fresh)
         ELSE {x}
    [] x.state = "IDLE" ->
         IF x.cfg.profiles # <<>> THEN start_cycle(x, fresh) ELSE {x}

\* The mutant lets the manager in as soon as the console's passes are done.
OwnsWhileScanning(x) == x.scan_rounds > 0

config_proto_owns_scan(x) == x.scan_rounds > 0 \/ x.g_mode # "MAIN"

\* One tick: refused passwords are forgiven after a while (those in decayed),
\* and unless the console has the scanner the manager moves on.
wifi_conn_task(x, decayed, due, fresh) ==
  LET y == [x EXCEPT !.status = [i \in Index |->
              IF i \in decayed \cap 1 .. Len(x.cfg.profiles) /\ @[i] = "BADPASS"
              THEN "UNTRIED" ELSE @[i]]]
      act(z) == Switch(z, x.radio.phase = "link", due /\ z.state = x.state, fresh)
  IN IF config_proto_owns_scan(x) THEN {y} ELSE Then(Then({y}, DriveScan), act)

\* The mutant keeps the marks of the list as it was.
ApplyKeepsMarks(x) ==
  LET y == [x EXCEPT !.radio = Off]
  IN IF HasActive(x.cfg) THEN Then({y}, Pin)
     ELSE {[y EXCEPT !.state = "WAIT", !.order = <<>>]}

\* The list changed, or the user chose: forget what was tried and try again.
wifi_conn_apply(x) ==
  LET y == [x EXCEPT !.status = [i \in Index |-> "UNTRIED"], !.radio = Off]
  IN IF HasActive(x.cfg) THEN Then({y}, Pin)
     ELSE {[y EXCEPT !.state = "WAIT", !.order = <<>>]}

(************************ The console, config_proto.c ***********************)

config_proto_reset(x) ==
  LET y == IF x.scan_rounds > 0 \/ x.g_mode = "CONTSCAN" THEN wifi_scan_stop(x) ELSE x
  IN [y EXCEPT !.g_mode = "MAIN", !.scan_rounds = 0]

start_scan(x) ==
  {[wifi_scan_start(x) EXCEPT !.g_mode = "SCAN", !.scan_rounds = SCAN_PASSES]}
  \cup ScanRefused(x)

\* Select or create the profile for s; join it if the credentials suffice, else
\* leave it staged until its password is set.
join_ssid(x, s, open) ==
  LET p == config_find_profile(x.cfg, s)
      c == IF p = 0 THEN config_add_profile(x.cfg, s) ELSE x.cfg
      i == IF p = 0 THEN Len(c.profiles) ELSE p
      y == [x EXCEPT !.cfg = [c EXCEPT !.active = i],
                     !.creds_unsaved = @ \/ p = 0]
  IN IF c.profiles[i].pass # NoPass \/ open THEN wifi_conn_apply(y) ELSE {y}

\* Does the latest scan show s as an open network?
SeenOpen(x, s) ==
  \E k \in DOMAIN x.results : x.results[k].ssid = s /\ Networks[s].pass = NoPass

\* set ssid renames the active profile or creates one; set pass edits it.
SetSsid(x, s) ==
  LET c == IF HasActive(x.cfg) THEN [x.cfg EXCEPT !.profiles[x.cfg.active].ssid = s]
           ELSE LET a == config_add_profile(x.cfg, s)
                IN [a EXCEPT !.active = Len(a.profiles)]
  IN wifi_conn_apply([x EXCEPT !.cfg = c, !.creds_unsaved = TRUE])

SetPass(x, p) ==
  IF ~HasActive(x.cfg) THEN {x}
  ELSE wifi_conn_apply([x EXCEPT !.cfg.profiles[x.cfg.active].pass = p,
                                 !.creds_unsaved = TRUE])

\* The mutant leaves the manager with indices of the longer list.
DelQuietly(x, i) == {[x EXCEPT !.cfg = config_del_profile(@, i)]}

Use(x, i) == wifi_conn_apply([x EXCEPT !.cfg.active = i])
Del(x, i) == wifi_conn_apply([x EXCEPT !.cfg = config_del_profile(@, i)])
Save(x)   == {[Stores(x) EXCEPT !.creds_unsaved = FALSE]} \cup Counted(x)
Restore(x) ==
  wifi_conn_apply([x EXCEPT !.cfg = x.flash, !.creds_unsaved = FALSE, !.unstored = FALSE])

\* A line of the main menu that reaches the Wi-Fi; set country only applies.
handle_main(x) ==
  (UNION {SetSsid(x, s) : s \in Named}) \cup (UNION {SetPass(x, p) : p \in Typed})
  \cup (UNION {join_ssid(x, s, SeenOpen(x, s)) : s \in Named})
  \cup (UNION {Use(x, i) \cup Del(x, i) : i \in 1 .. Len(x.cfg.profiles)})
  \cup wifi_conn_apply(x) \cup start_scan(x) \cup Save(x) \cup Restore(x)

\* A line of the scan menu, but for back.
Live(x) ==
  LET y == [x EXCEPT !.radio = Off]
  IN {[wifi_scan_start(y) EXCEPT !.g_mode = "CONTSCAN"]} \cup ScanRefused(y)

JoinNth(x, n) ==
  LET s == x.results[n].ssid
  IN join_ssid([x EXCEPT !.g_mode = "MAIN"], s, Networks[s].pass = NoPass)

handle_scan(x) ==
  start_scan(x) \cup Live(x) \cup UNION {JoinNth(x, n) : n \in DOMAIN x.results}

\* Drive the console's scan; the passes of a live scan follow one another.
config_proto_poll(x) ==
  LET y == wifi_scan_poll(x)
      z == [y EXCEPT !.scan_rounds = IF x.scanning /\ ~y.scanning THEN @ - 1 ELSE @]
  IN IF x.g_mode = "CONTSCAN"
     THEN IF y.scanning THEN {y} ELSE {wifi_scan_start(y)} \cup ScanRefused(y)
     ELSE IF z.scan_rounds = 0 \/ z.scanning THEN {z}
     ELSE {wifi_scan_again(z)} \cup AgainRefused(z)

-----------------------------------------------------------------------------

\* wifi_conn_init: join the active profile, or scan for one of the others.
Booted(f) ==
  LET x == [cfg |-> f, flash |-> f, creds_unsaved |-> FALSE, unstored |-> FALSE,
            state |-> "WAIT", order |-> <<>>, trying |-> 1, rr_unseen |-> 0,
            fast_tries |-> 0, passes |-> 0, scan_ever |-> FALSE, requested |-> FALSE,
            status |-> [i \in Index |-> "UNTRIED"],
            scanning |-> FALSE, hearing |-> FALSE, results |-> <<>>,
            g_mode |-> "MAIN", scan_rounds |-> 0, radio |-> Off, events |-> 0]
  IN IF HasActive(f) THEN Pin(x)
     ELSE IF f.profiles # <<>> THEN {x} ELSE {[x EXCEPT !.state = "IDLE"]}

Init ==
  /\ \E f \in Stored : d \in Booted(f)
  /\ shown = <<>>

\* The list on the screen of a user in the scan menu.  One printed while a pass
\* that was abandoned still runs is not counted: its results may yet change it.
ListOf(x) ==
  IF x.g_mode = "SCAN" /\ x.scan_rounds = 0 /\ ~x.hearing
  THEN [n \in DOMAIN x.results |-> x.results[n].ssid] ELSE <<>>

Tick(decayed, due, fresh) ==
  /\ d' \in wifi_conn_task(d, decayed, due, fresh)
  /\ UNCHANGED shown

\* POST /api/scan.
wifi_conn_request_scan ==
  /\ ~d.requested
  /\ d' \in Counted([d EXCEPT !.requested = TRUE])
  /\ UNCHANGED shown

\* A line from the terminal or the portal.  In a live scan only the portal's
\* reach the protocol, and as lines of the main menu.  No line leaves a list to
\* choose from: one of the scan menu has chosen, or asks for another scan, which
\* empties the list even when the radio refuses it.  The protocol has one menu
\* for both, so a portal's line also takes the list from a terminal that still
\* shows it.
config_proto_handle_line ==
  /\ \E x \in Counted(d) : d' \in IF x.g_mode = "SCAN" THEN handle_scan(x) ELSE handle_main(x)
  /\ shown' = <<>>

\* Back to the main menu; a bare Enter prints the list again.
Back ==
  /\ d.g_mode = "SCAN"
  /\ \/ d' = [d EXCEPT !.g_mode = "MAIN"] /\ shown' = <<>>
     \/ d' = d /\ shown' = ListOf(d)

\* serial_console_task: a terminal comes or goes; a scan is driven as long as
\* one is there, which need never be; any key ends a live scan.
Terminal == d' = config_proto_reset(d) /\ shown' = <<>>

Poll ==
  /\ d.scan_rounds > 0 \/ d.g_mode = "CONTSCAN"
  /\ d' \in config_proto_poll(d)
  /\ shown' = ListOf(d')

config_proto_contscan_stop ==
  /\ d.g_mode = "CONTSCAN"
  /\ d' = [wifi_scan_stop(d) EXCEPT !.scan_rounds = 0, !.g_mode = "SCAN"]
  /\ shown' = ListOf(d')

(******************************** The radio *********************************)

RadioIs(ph) == d' = [d EXCEPT !.radio.phase = ph] /\ UNCHANGED shown

RadioJoins == d.radio.phase = "joining" /\ Accepts(d.radio) /\ RadioIs("link")

RadioFails ==
  /\ d.radio.phase = "joining" /\ ~Accepts(d.radio)
  /\ RadioIs(IF d.radio.ssid \in DOMAIN Networks THEN "badauth" ELSE "fail")

\* A network that should have accepted does not, or a link is lost.
RadioFaults ==
  /\ \/ /\ d.radio.phase = "joining" /\ Accepts(d.radio)
        /\ \E ph \in {"badauth", "fail"} :
             d' \in Counted([d EXCEPT !.radio.phase = ph])
     \/ /\ d.radio.phase = "link"
        /\ d' \in Counted([d EXCEPT !.radio = Off])
  /\ UNCHANGED shown

\* A beacon is heard, whether or not anyone still waits for the scan.
Hears(s) ==
  /\ d.hearing
  /\ \E r \in Networks[s].rssi :
       d' = [d EXCEPT !.results = scan_cb(@, [ssid |-> s, rssi |-> r])]
  /\ UNCHANGED shown

PassEnds == d.hearing /\ d' = [d EXCEPT !.hearing = FALSE] /\ UNCHANGED shown

Refused == {i \in Index : d.status[i] = "BADPASS"}

Next ==
  \/ \E decayed \in SUBSET Refused, due, fresh \in BOOLEAN : Tick(decayed, due, fresh)
  \/ wifi_conn_request_scan \/ config_proto_handle_line \/ Back
  \/ Terminal \/ Poll \/ config_proto_contscan_stop
  \/ RadioJoins \/ RadioFails \/ RadioFaults
  \/ \E s \in DOMAIN Networks : Hears(s)
  \/ PassEnds

\* The loop keeps ticking and time passes, a pass of the radio ends, and a
\* network that accepts a profile does so when it is tried often enough.
Fairness ==
  /\ WF_vars(Tick(Refused, TRUE, FALSE))
  /\ WF_vars(PassEnds)
  /\ SF_vars(RadioJoins)

Spec == Init /\ [][Next]_vars /\ Fairness

-----------------------------------------------------------------------------

\* Type invariant.  An attempt is always on a profile that exists: no edit
\* shortens the list under it.
TypeOK ==
  /\ d.cfg \in Config
  /\ d.state \in {"IDLE", "SCAN", "TRY", "WAIT", "UP"}
  /\ d.status \in [Index -> Status]
  /\ d.state = "TRY" =>
       /\ d.order # <<>> /\ d.trying = d.order[1]
       /\ \A k \in DOMAIN d.order : d.order[k] \in DOMAIN d.cfg.profiles
  /\ Len(d.results) <= WIFI_SCAN_MAX /\ d.scan_rounds \in 0 .. SCAN_PASSES

\* What a join proved is in flash: unless credentials still wait to be proved,
\* or an automatic save failed, every profile of the running configuration is in
\* the stored one (joined, join_ssid and the set, save and restore commands).
CredsStored ==
  ~d.creds_unsaved /\ ~d.unstored =>
    \A i \in DOMAIN d.cfg.profiles :
      \E j \in DOMAIN d.flash.profiles : d.flash.profiles[j] = d.cfg.profiles[i]

\* The numbered list a console user chooses from keeps its numbers until the next
\* line: neither the manager nor a scan that /api/scan asked for resets the results
\* behind it (config_proto_owns_scan).
ListKept ==
  \A n \in DOMAIN shown : n \in DOMAIN d.results /\ d.results[n].ssid = shown[n]

\* A mark of being connected stays with the network it was given to: no edit,
\* eviction or reordering of the list slides another profile under it, and there
\* is never a second one.
MarkStays ==
  [][\A i, j \in Index :
       d.status[i] = "CONNECTED" /\ d'.status[j] = "CONNECTED" /\ d'.state = d.state
         => i = j /\ d'.cfg.profiles[j].ssid = d.cfg.profiles[i].ssid]_vars

\* If from some point on one of the saved networks would accept its profile and
\* the console leaves the scanner alone, the device is connected for good:
\* refused passwords are forgiven and hidden networks get their turn.
Joinable == \E i \in DOMAIN d.cfg.profiles : Accepts(d.cfg.profiles[i])

Reconnects ==
  <>[](Joinable /\ ~config_proto_owns_scan(d)) => <>[](d.state = "UP")
=============================================================================
