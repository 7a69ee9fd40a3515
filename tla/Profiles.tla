------------------------------ MODULE Profiles ------------------------------
(***************************************************************************)
(* The saved Wi-Fi networks: the list operations of config.c, kept in      *)
(* most-recently-used order, and the order in which wifi_pick.c tries them.*)
(*                                                                         *)
(* A list is [profiles |-> sequence of [ssid, pass], active |-> index],    *)
(* counted from 1; index 0 stands for CONFIG_ACTIVE_NONE.                  *)
(***************************************************************************)
EXTENDS Naturals, Sequences, FiniteSets

CONSTANTS
  Ssid,                       \* network names
  Password,                   \* passwords, NoPass among them
  NoPass,                     \* the empty password
  CONFIG_PROFILE_MAX,         \* slots of the list
  WIFI_PICK_ACTIVE_BONUS_DB   \* what the active profile gains in the ranking

\* With two slots or fewer an eviction could reach the front of the list.
ASSUME ProfileBounds ==
  /\ CONFIG_PROFILE_MAX \in Nat /\ CONFIG_PROFILE_MAX >= 3
  /\ NoPass \in Password /\ WIFI_PICK_ACTIVE_BONUS_DB \in Nat

Index   == 1 .. CONFIG_PROFILE_MAX
Profile == [ssid : Ssid, pass : Password]

\* A list as the device keeps and stores it.
Config ==
  {c \in [profiles : UNION {[1 .. n -> Profile] : n \in 0 .. CONFIG_PROFILE_MAX},
          active : 0 .. CONFIG_PROFILE_MAX] : c.active <= Len(c.profiles)}

\* The profile that is active, if one is.
HasActive(c) == c.active \in 1 .. Len(c.profiles)

\* The first profile named s, or 0.
config_find_profile(c, s) ==
  LET named == {i \in 1 .. Len(c.profiles) : c.profiles[i].ssid = s}
  IN IF named = {} THEN 0 ELSE CHOOSE i \in named : \A j \in named : i <= j

\* Entry i goes, and active keeps naming the same profile; if that was the one
\* deleted the first becomes active.
config_del_profile(c, i) ==
  LET left == [k \in 1 .. Len(c.profiles) - 1 |-> c.profiles[IF k < i THEN k ELSE k + 1]]
  IN [profiles |-> left,
      active   |-> IF left = <<>> THEN 0
                   ELSE IF c.active = i THEN 1
                   ELSE IF c.active > i THEN c.active - 1 ELSE c.active]

\* The entry a full list gives up: its last, or the one before an active last.
Victim(c) == IF c.active = Len(c.profiles) THEN Len(c.profiles) - 1 ELSE Len(c.profiles)

\* A new entry without a password, last in the list.
config_add_profile(c, s) ==
  LET kept == IF Len(c.profiles) >= CONFIG_PROFILE_MAX
              THEN config_del_profile(c, Victim(c)) ELSE c
  IN [kept EXCEPT !.profiles = Append(@, [ssid |-> s, pass |-> NoPass])]

\* f with entry i moved to the front and those before it moved back by one:
\* what becomes of the list and of the arrays that run parallel to it.
Fronted(f, i) ==
  [k \in DOMAIN f |-> IF k = 1 THEN f[i] ELSE IF k <= i THEN f[k - 1] ELSE f[k]]

config_touch_profile(c, i) ==
  [profiles |-> Fronted(c.profiles, i),
   active   |-> IF c.active = i THEN 1
                ELSE IF c.active # 0 /\ c.active < i THEN c.active + 1 ELSE c.active]

-----------------------------------------------------------------------------

\* The members of S from the highest score down, equal ones in list order.
Ranked(S, score) ==
  CHOOSE s \in [1 .. Cardinality(S) -> S] :
    \A j, k \in 1 .. Cardinality(S) :
      j < k => \/ score[s[j]] > score[s[k]]
               \/ score[s[j]] = score[s[k]] /\ s[j] < s[k]

\* The candidates of one cycle: every saved network the scan saw whose password
\* was not refused, best first, then one of those it did not see (a hidden one
\* may be in range), a different one each time.
wifi_pick_order(c, status, rssi, rr) ==
  LET count  == Len(c.profiles)
      usable == {i \in 1 .. count : status[i] # "BADPASS"}
      seen   == {i \in usable : rssi[i] # 0}
      score  == [i \in seen |->
                   rssi[i] + IF i = c.active THEN WIFI_PICK_ACTIVE_BONUS_DB ELSE 0]
      \* the turns of the rotation, as offsets from rr, that find such a profile
      turns  == {k \in 0 .. count - 1 : ((rr + k) % count) + 1 \in usable \ seen}
  IN Ranked(seen, score) \o
     (IF turns = {} THEN <<>>
      ELSE <<((rr + CHOOSE k \in turns : \A l \in turns : k <= l) % count) + 1>>)
=============================================================================
