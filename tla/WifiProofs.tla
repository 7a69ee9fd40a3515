----------------------------- MODULE WifiProofs -----------------------------
(***************************************************************************)
(* Proofs about WifiConn and the list operations of Profiles it is built   *)
(* from, for any set of networks and names, any number of slots from three *)
(* up, any size of the scan table and any number of passes and retries.    *)
(*                                                                         *)
(* A step of the manager is a chain of calls, so there is a lemma for each *)
(* call, about any state it may be given, and the proof of a step puts     *)
(* together those of the calls it makes.  The ranking of the candidates is *)
(* a CHOOSE: that there is something to choose rests on the place of a     *)
(* member being the number of those ahead of it.                           *)
(***************************************************************************)
EXTENDS WifiConn, Integers, FunctionTheorems, FiniteSetTheorems, TLAPS

-----------------------------------------------------------------------------
(* The invariant.                                                          *)

\* The states of the manager.
States == {"IDLE", "SCAN", "TRY", "WAIT", "UP"}
\* The menus of the console.
Modes == {"MAIN", "SCAN", "CONTSCAN"}
\* The radio and what it is joining.
Phases == {"off", "joining", "link", "badauth", "fail"}
Radios == [phase : Phases, ssid : Ssid \cup {""}, pass : Password]
\* What the scanner keeps of a network, and its table.
Heard == [ssid : DOMAIN Networks, rssi : Nat]
Results == {r \in Seq(Heard) : Len(r) <= WIFI_SCAN_MAX}
\* The passes a console scan has left.
Rounds == 0 .. SCAN_PASSES

\* All of it.
Dev ==
  [cfg : Config, flash : Config, creds_unsaved : BOOLEAN, unstored : BOOLEAN,
   state : States, order : Seq(Nat), trying : Nat \ {0}, rr_unseen : Nat,
   fast_tries : Nat, passes : Nat, scan_ever : BOOLEAN, requested : BOOLEAN,
   status : [Index -> Status], scanning : BOOLEAN, hearing : BOOLEAN,
   results : Results, g_mode : Modes, scan_rounds : Rounds, radio : Radios, events : Nat]

\* The profiles of a list, as a set.
Members(c) == {c.profiles[i] : i \in DOMAIN c.profiles}

\* The candidates still to be tried are profiles of the list.
Ordered(x) == x.order \in Seq(DOMAIN x.cfg.profiles)

\* An attempt is on the first of them.
Attempt(x) == x.state = "TRY" => x.order # <<>> /\ x.trying = x.order[1] /\ Ordered(x)

\* Only the first profile may be marked, and only while the link is up.
Marked(x) ==
  \A i \in Index : x.status[i] = "CONNECTED" => i = 1 /\ x.state = "UP" /\ x.cfg.profiles # <<>>

\* Nothing runs that is not in flash, unless the device knows better.
Covered(x) == ~x.creds_unsaved /\ ~x.unstored => Members(x.cfg) \subseteq Members(x.flash)

\* The invariant of the device's state,
Sound(x) == x \in Dev /\ Attempt(x) /\ Marked(x) /\ Covered(x)

\* A user chooses from a list only while the console has the scanner and no
\* pass is heard.
Chosen ==
  shown # <<>> =>
    /\ d.g_mode = "SCAN" /\ d.scan_rounds = 0 /\ ~d.hearing
    /\ shown = [n \in DOMAIN d.results |-> d.results[n].ssid]

\* The inductive invariant.
WifiInv == Sound(d) /\ Chosen

-----------------------------------------------------------------------------
(* The list.                                                               *)

\* What a configuration is made of.
LEMMA Listed ==
  ASSUME NEW c \in Config
  PROVE  /\ c.profiles \in Seq(Profile) /\ Len(c.profiles) \in Nat
         /\ Len(c.profiles) <= CONFIG_PROFILE_MAX
         /\ DOMAIN c.profiles = 1 .. Len(c.profiles)
         /\ c.active \in 0 .. Len(c.profiles) /\ c.active \in Nat
         /\ c = [profiles |-> c.profiles, active |-> c.active]
<1>1. PICK n \in 0 .. CONFIG_PROFILE_MAX : c.profiles \in [1 .. n -> Profile]
  BY DEF Config
<1>2. n \in Nat /\ c.active \in Nat
  BY ProfileBounds DEF Config
<1>3. c.profiles \in Seq(Profile) /\ Len(c.profiles) = n
  BY <1>1, <1>2
<1> QED BY <1>1, <1>2, <1>3, ProfileBounds DEF Config

\* A short enough list and an index into it make a configuration.
LEMMA Lists ==
  ASSUME NEW p \in Seq(Profile), Len(p) <= CONFIG_PROFILE_MAX, NEW a \in 0 .. Len(p)
  PROVE  [profiles |-> p, active |-> a] \in Config
<1>1. Len(p) \in 0 .. CONFIG_PROFILE_MAX /\ p \in [1 .. Len(p) -> Profile]
  BY ProfileBounds
<1>2. p \in UNION {[1 .. n -> Profile] : n \in 0 .. CONFIG_PROFILE_MAX}
  BY <1>1
<1>3. a \in 0 .. CONFIG_PROFILE_MAX
  BY ProfileBounds
<1> QED BY <1>2, <1>3 DEF Config

\* config_del_profile: one entry fewer, none that was not there, and the first
\* stays unless it is the one deleted.
LEMMA Deleted ==
  ASSUME NEW c \in Config, NEW i \in DOMAIN c.profiles
  PROVE  /\ config_del_profile(c, i) \in Config
         /\ Len(config_del_profile(c, i).profiles) = Len(c.profiles) - 1
         /\ Members(config_del_profile(c, i)) \subseteq Members(c)
         /\ i > 1 => config_del_profile(c, i).profiles[1] = c.profiles[1]
<1> DEFINE n == Len(c.profiles)
           left == [k \in 1 .. n - 1 |-> c.profiles[IF k < i THEN k ELSE k + 1]]
           a == IF left = <<>> THEN 0
                ELSE IF c.active = i THEN 1
                ELSE IF c.active > i THEN c.active - 1 ELSE c.active
<1>1. /\ c.profiles \in Seq(Profile) /\ n \in Nat /\ n <= CONFIG_PROFILE_MAX
      /\ DOMAIN c.profiles = 1 .. n /\ i \in 1 .. n /\ c.active \in 0 .. n
  BY Listed
<1>2. n - 1 \in Nat /\ \A k \in 1 .. n - 1 : left[k] \in Profile
  BY <1>1
<1>3. left \in Seq(Profile) /\ Len(left) = n - 1
  <2> HIDE DEF n
  <2>1. left \in [1 .. n - 1 -> Profile]
    BY <1>2
  <2> QED BY <1>2, <2>1
<1>4. config_del_profile(c, i) = [profiles |-> left, active |-> a]
  BY DEF config_del_profile
<1>5. a \in 0 .. n - 1
  <2>1. left = <<>> => n - 1 = 0
    BY <1>3
  <2>2. left # <<>> => n - 1 >= 1
    BY <1>3
  <2> HIDE DEF left
  <2> QED BY <1>1, <2>1, <2>2
<1>6. config_del_profile(c, i) \in Config
  <2> HIDE DEF left, a, n
  <2>1. Len(left) <= CONFIG_PROFILE_MAX /\ a \in 0 .. Len(left)
    BY <1>1, <1>3, <1>5, ProfileBounds
  <2> QED BY <1>3, <1>4, <2>1, Lists
<1>7. Members(config_del_profile(c, i)) \subseteq Members(c)
  <2>1. ASSUME NEW k \in 1 .. n - 1 PROVE \E j \in DOMAIN c.profiles : left[k] = c.profiles[j]
    <3>1. (IF k < i THEN k ELSE k + 1) \in 1 .. n
      BY <1>1
    <3> WITNESS (IF k < i THEN k ELSE k + 1) \in DOMAIN c.profiles
    <3> QED BY <1>1, <3>1
  <2>2. DOMAIN left = 1 .. n - 1
    OBVIOUS
  <2> HIDE DEF left, a
  <2>3. config_del_profile(c, i).profiles = left
    BY <1>4
  <2> QED BY <2>1, <2>2, <2>3 DEF Members
<1>8. i > 1 => left[1] = c.profiles[1]
  BY <1>1
<1> HIDE DEF left, a
<1> QED BY <1>3, <1>4, <1>6, <1>7, <1>8

\* config_add_profile: the list never gets shorter, and the first entry stays:
\* with three slots or more an eviction never reaches it.
LEMMA Added ==
  ASSUME NEW c \in Config, NEW s \in Ssid
  PROVE  /\ config_add_profile(c, s) \in Config
         /\ Len(config_add_profile(c, s).profiles) >= Len(c.profiles)
         /\ Len(config_add_profile(c, s).profiles) >= 1
         /\ c.profiles # <<>> => config_add_profile(c, s).profiles[1] = c.profiles[1]
<1> DEFINE n == Len(c.profiles)
           kept == IF n >= CONFIG_PROFILE_MAX THEN config_del_profile(c, Victim(c)) ELSE c
           new == [ssid |-> s, pass |-> NoPass]
           p == Append(kept.profiles, new)
<1>1. config_add_profile(c, s) = [kept EXCEPT !.profiles = p]
  BY DEF config_add_profile
<1>2. n \in Nat /\ n <= CONFIG_PROFILE_MAX /\ DOMAIN c.profiles = 1 .. n /\ c.profiles \in Seq(Profile)
  BY Listed
<1>3. new \in Profile
  BY ProfileBounds DEF Profile
<1>4. kept \in Config /\ Len(kept.profiles) < CONFIG_PROFILE_MAX /\ Len(kept.profiles) >= n - 1
      /\ (n < CONFIG_PROFILE_MAX => Len(kept.profiles) = n)
      /\ (n >= CONFIG_PROFILE_MAX => Len(kept.profiles) = CONFIG_PROFILE_MAX - 1)
      /\ (n >= 1 => kept.profiles[1] = c.profiles[1] /\ Len(kept.profiles) >= 1)
  <2>1. CASE n >= CONFIG_PROFILE_MAX
    <3>1. Victim(c) \in 1 .. n /\ Victim(c) > 1
      BY <1>2, <2>1, ProfileBounds DEF Victim
    <3>2. /\ config_del_profile(c, Victim(c)) \in Config
          /\ Len(config_del_profile(c, Victim(c)).profiles) = n - 1
          /\ config_del_profile(c, Victim(c)).profiles[1] = c.profiles[1]
      BY <1>2, <3>1, Deleted
    <3> QED BY <1>2, <2>1, <3>2, ProfileBounds
  <2>2. CASE ~(n >= CONFIG_PROFILE_MAX)
    BY <1>2, <2>2, ProfileBounds
  <2> QED BY <2>1, <2>2
<1> HIDE DEF kept
<1>5. kept.profiles \in Seq(Profile) /\ kept.active \in 0 .. Len(kept.profiles)
      /\ kept = [profiles |-> kept.profiles, active |-> kept.active]
      /\ Len(kept.profiles) \in Nat
  BY <1>4, Listed
<1>6. p \in Seq(Profile) /\ Len(p) = Len(kept.profiles) + 1
      /\ \A k \in 1 .. Len(kept.profiles) : p[k] = kept.profiles[k]
  BY <1>3, <1>5
<1> HIDE DEF p, new
<1>7. [kept EXCEPT !.profiles = p] = [profiles |-> p, active |-> kept.active]
  BY <1>5
<1>8. [profiles |-> p, active |-> kept.active] \in Config
  <2>1. Len(p) <= CONFIG_PROFILE_MAX /\ kept.active \in 0 .. Len(p)
    BY <1>4, <1>5, <1>6, ProfileBounds
  <2> QED BY <1>6, <2>1, Lists
<1>9. Len(p) >= n /\ Len(p) >= 1 /\ (n >= 1 => p[1] = c.profiles[1])
  BY <1>2, <1>4, <1>5, <1>6
<1>10. c.profiles # <<>> => n >= 1
  BY <1>2
<1> QED BY <1>1, <1>7, <1>8, <1>9, <1>10

\* config_touch_profile: the same entries in another order.
LEMMA Touched ==
  ASSUME NEW c \in Config, NEW i \in DOMAIN c.profiles
  PROVE  /\ config_touch_profile(c, i) \in Config
         /\ Len(config_touch_profile(c, i).profiles) = Len(c.profiles)
         /\ Members(config_touch_profile(c, i)) \subseteq Members(c)
<1> DEFINE n == Len(c.profiles)
           p == Fronted(c.profiles, i)
           a == IF c.active = i THEN 1
                ELSE IF c.active # 0 /\ c.active < i THEN c.active + 1 ELSE c.active
<1>1. /\ c.profiles \in Seq(Profile) /\ n \in Nat /\ n <= CONFIG_PROFILE_MAX
      /\ DOMAIN c.profiles = 1 .. n /\ i \in 1 .. n /\ c.active \in 0 .. n
  BY Listed
<1>2. p = [k \in 1 .. n |-> IF k = 1 THEN c.profiles[i] ELSE IF k <= i THEN c.profiles[k - 1] ELSE c.profiles[k]]
  BY <1>1 DEF Fronted
<1>3. \A k \in 1 .. n : \E j \in 1 .. n : p[k] = c.profiles[j]
  BY <1>1, <1>2
<1>4. p \in [1 .. n -> Profile]
  BY <1>1, <1>2
<1> HIDE DEF p
<1>5. p \in Seq(Profile) /\ Len(p) = n /\ DOMAIN p = 1 .. n
  BY <1>1, <1>4
<1>6. a \in 0 .. n
  BY <1>1
<1>7. config_touch_profile(c, i) = [profiles |-> p, active |-> a]
  BY DEF config_touch_profile, p
<1> HIDE DEF a
<1>8. [profiles |-> p, active |-> a] \in Config
  BY <1>1, <1>5, <1>6, Lists
<1>9. Members([profiles |-> p, active |-> a]) \subseteq Members(c)
  <2>1. \A k \in DOMAIN p : \E j \in DOMAIN c.profiles : p[k] = c.profiles[j]
    BY <1>1, <1>3, <1>5
  <2> QED BY <2>1 DEF Members
<1> QED BY <1>5, <1>7, <1>8, <1>9
-----------------------------------------------------------------------------
(* The order of the candidates.                                            *)

\* R is a strict total order on S.
Orders(R, S) ==
  /\ \A a \in S : <<a, a>> \notin R
  /\ \A a, b \in S : a # b => <<a, b>> \in R \/ <<b, a>> \in R
  /\ \A a, b, c \in S : <<a, b>> \in R /\ <<b, c>> \in R => <<a, c>> \in R

\* A finite set with a strict total order can be listed in that order: the place
\* of a member is the number of members below it, plus one.
LEMMA Sorted ==
  ASSUME NEW S, IsFiniteSet(S), NEW R, Orders(R, S)
  PROVE  /\ Cardinality(S) \in Nat
         /\ \E s \in [1 .. Cardinality(S) -> S] :
              /\ \A j, k \in 1 .. Cardinality(S) : j < k => <<s[j], s[k]>> \in R
              /\ \A a \in S : \E k \in 1 .. Cardinality(S) : s[k] = a
<1> DEFINE n == Cardinality(S)
           below(a) == {b \in S : <<b, a>> \in R}
           rank == [a \in S |-> Cardinality(below(a)) + 1]
<1>1. n \in Nat
  BY FS_CardinalityType
<1>2. ASSUME NEW a \in S
      PROVE  IsFiniteSet(below(a)) /\ Cardinality(below(a)) \in 0 .. n - 1
  <2>1. IsFiniteSet(S \ {a}) /\ Cardinality(S \ {a}) = n - 1
    BY FS_RemoveElement
  <2>2. below(a) \in SUBSET (S \ {a})
    BY DEF Orders
  <2> HIDE DEF below
  <2>3. IsFiniteSet(below(a)) /\ Cardinality(below(a)) <= n - 1
    BY <2>1, <2>2, FS_Subset
  <2>4. Cardinality(below(a)) \in Nat
    BY <2>3, FS_CardinalityType
  <2> QED BY <1>1, <2>3, <2>4
<1>3. ASSUME NEW a \in S, NEW b \in S, <<a, b>> \in R
      PROVE  Cardinality(below(a)) < Cardinality(below(b))
  <2>1. below(a) \in SUBSET below(b) /\ a \in below(b) /\ a \notin below(a)
    BY <1>3 DEF Orders
  <2>2. IsFiniteSet(below(b)) /\ Cardinality(below(a)) \in Nat /\ Cardinality(below(b)) \in Nat
    BY <1>1, <1>2
  <2> HIDE DEF below
  <2>3. Cardinality(below(a)) <= Cardinality(below(b)) /\ Cardinality(below(a)) # Cardinality(below(b))
    BY <2>1, <2>2, FS_Subset
  <2> QED BY <2>2, <2>3
<1> HIDE DEF below
<1>4. rank \in [S -> 1 .. n]
  BY <1>1, <1>2
<1>5. \A a, b \in S : <<a, b>> \in R => rank[a] < rank[b]
  BY <1>1, <1>2, <1>3
<1> HIDE DEF rank
<1>6. \A a, b \in S : rank[a] = rank[b] => a = b
  <2>1. \A a \in S : rank[a] \in Nat
    BY <1>1, <1>4
  <2> SUFFICES ASSUME NEW a \in S, NEW b \in S, rank[a] = rank[b], a # b PROVE FALSE
    OBVIOUS
  <2>2. <<a, b>> \in R \/ <<b, a>> \in R
    BY DEF Orders
  <2>3. rank[a] < rank[b] \/ rank[b] < rank[a]
    BY <1>5, <2>2
  <2> QED BY <2>1, <2>3
<1>7. rank \in Surjection(S, 1 .. n)
  <2>1. rank \in Injection(S, 1 .. n)
    BY <1>4, <1>6 DEF Injection, IsInjective
  <2>2. IsFiniteSet(1 .. n) /\ Cardinality(1 .. n) = n
    BY <1>1, FS_Interval
  <2> QED BY <2>1, <2>2, FS_Injection
<1>8. \A k \in 1 .. n : \E a \in S : rank[a] = k
  BY <1>7 DEF Surjection
<1> DEFINE s == [k \in 1 .. n |-> CHOOSE a \in S : rank[a] = k]
<1>9. \A k \in 1 .. n : s[k] \in S /\ rank[s[k]] = k
  BY <1>8
<1>10. s \in [1 .. n -> S]
  BY <1>9
<1> HIDE DEF s
<1>11. ASSUME NEW j \in 1 .. n, NEW k \in 1 .. n, j < k
       PROVE  <<s[j], s[k]>> \in R
  <2>1. s[j] # s[k]
    BY <1>9, <1>11, <1>1
  <2>2. ASSUME <<s[k], s[j]>> \in R PROVE FALSE
    <3>1. rank[s[k]] < rank[s[j]]
      BY <1>5, <1>9, <2>2
    <3>2. k < j
      BY <1>9, <3>1
    <3> QED BY <1>1, <1>11, <3>2
  <2> QED BY <1>9, <2>1, <2>2 DEF Orders
<1> HIDE DEF n
<1>12. \A a \in S : rank[a] \in 1 .. n /\ s[rank[a]] = a
  BY <1>4, <1>6, <1>9 DEF n
<1>13. \E t \in [1 .. n -> S] : /\ \A j, k \in 1 .. n : j < k => <<t[j], t[k]>> \in R
                                /\ \A a \in S : \E k \in 1 .. n : t[k] = a
  BY <1>10, <1>11, <1>12
<1> QED BY <1>1, <1>13 DEF n

\* A finite set of numbers has a least member.
LEMMA Least ==
  ASSUME NEW S, S \subseteq Nat, IsFiniteSet(S), S # {}
  PROVE  \E m \in S : \A k \in S : m <= k
<1> DEFINE R == {p \in Nat \X Nat : p[1] < p[2]}
<1>1. \A a, b \in S : <<a, b>> \in R <=> a < b
  OBVIOUS
<1> HIDE DEF R
<1>2. Orders(R, S)
  BY <1>1 DEF Orders
<1> DEFINE n == Cardinality(S)
<1>3. n \in Nat /\ n # 0
  BY FS_CardinalityType, FS_EmptySet
<1>4. \E s \in [1 .. n -> S] : (\A j, k \in 1 .. n : j < k => <<s[j], s[k]>> \in R)
                                  /\ (\A a \in S : \E k \in 1 .. n : s[k] = a)
  BY <1>2, Sorted
<1> HIDE DEF n
<1>5. PICK s \in [1 .. n -> S] : (\A j, k \in 1 .. n : j < k => <<s[j], s[k]>> \in R)
                                  /\ (\A a \in S : \E k \in 1 .. n : s[k] = a)
  BY <1>4
<1>6. 1 \in 1 .. n /\ s[1] \in S
  BY <1>3
<1>7. ASSUME NEW a \in S PROVE s[1] <= a
  <2>1. PICK k \in 1 .. n : s[k] = a
    BY <1>5
  <2>2. CASE k = 1
    BY <1>6, <2>1, <2>2
  <2>3. CASE 1 < k
    <3>1. <<s[1], a>> \in R
      BY <1>5, <1>6, <2>1, <2>3
    <3>2. s[1] < a
      BY <1>1, <1>6, <3>1, Zenon
    <3>3. s[1] \in Nat /\ a \in Nat
      BY <1>6
    <3> QED BY <3>2, <3>3
  <2> QED BY <1>3, <2>2, <2>3
<1> QED BY <1>6, <1>7

\* config_find_profile: an index of the list, or 0.
LEMMA Found ==
  ASSUME NEW c \in Config, NEW s
  PROVE  /\ config_find_profile(c, s) \in 0 .. Len(c.profiles)
         /\ config_find_profile(c, s) \in Nat
<1> DEFINE n == Len(c.profiles)
           named == {i \in 1 .. n : c.profiles[i].ssid = s}
<1>1. n \in Nat
  BY Listed
<1>2. named \subseteq Nat /\ IsFiniteSet(named)
  <2>1. IsFiniteSet(1 .. n) /\ named \in SUBSET (1 .. n)
    BY <1>1, FS_Interval
  <2>2. IsFiniteSet(named)
    BY <2>1, FS_Subset
  <2> QED BY <1>1, <2>2
<1>3. named # {} => \E i \in named : \A j \in named : i <= j
  <2> HIDE DEF named
  <2> QED BY <1>2, Least
<1>4. named # {} => (CHOOSE i \in named : \A j \in named : i <= j) \in named
  <2> HIDE DEF named
  <2> QED BY <1>3
<1>5. config_find_profile(c, s) = IF named = {} THEN 0 ELSE CHOOSE i \in named : \A j \in named : i <= j
  BY DEF config_find_profile
<1>6. config_find_profile(c, s) \in named \cup {0}
  <2> HIDE DEF named
  <2> QED BY <1>4, <1>5
<1> QED BY <1>1, <1>6

\* The ranking exists: its members are members of what is ranked.
LEMMA RankedIn ==
  ASSUME NEW S, S \subseteq Nat, IsFiniteSet(S), NEW score \in [S -> Nat]
  PROVE  Ranked(S, score) \in Seq(S)
<1> DEFINE n == Cardinality(S)
           R == {p \in S \X S : score[p[1]] > score[p[2]] \/ (score[p[1]] = score[p[2]] /\ p[1] < p[2])}
           Q(s) == \A j, k \in 1 .. n :
                     j < k => \/ score[s[j]] > score[s[k]]
                              \/ score[s[j]] = score[s[k]] /\ s[j] < s[k]
<1>1. \A a, b \in S : <<a, b>> \in R <=> score[a] > score[b] \/ (score[a] = score[b] /\ a < b)
  OBVIOUS
<1>2. \A a \in S : a \in Nat /\ score[a] \in Nat
  OBVIOUS
<1> HIDE DEF R
<1>3. Orders(R, S)
  BY <1>1, <1>2 DEF Orders
<1>4. n \in Nat /\ \E s \in [1 .. n -> S] : \A j, k \in 1 .. n : j < k => <<s[j], s[k]>> \in R
  BY <1>3, Sorted
<1> HIDE DEF n
<1>5. \E s \in [1 .. n -> S] : Q(s)
  <2>1. PICK s \in [1 .. n -> S] : \A j, k \in 1 .. n : j < k => <<s[j], s[k]>> \in R
    BY <1>4
  <2>2. Q(s)
    BY <1>1, <2>1
  <2> QED BY <2>2
<1>6. Ranked(S, score) = CHOOSE s \in [1 .. n -> S] : Q(s)
  BY DEF Ranked, n
<1> HIDE DEF Q
<1>7. Ranked(S, score) \in [1 .. n -> S]
  BY <1>5, <1>6
<1> QED BY <1>4, <1>7

\* A sequence over S is one over what includes S.
LEMMA Wider ==
  ASSUME NEW S, NEW T, S \in SUBSET T, NEW q \in Seq(S)
  PROVE  q \in Seq(T)
<1>1. PICK m \in Nat : q \in [1 .. m -> S]
  OBVIOUS
<1>2. q \in [1 .. m -> T]
  BY <1>1
<1> QED BY <1>2

\* wifi_pick_order: whatever was heard and refused, the candidates are profiles
\* of the list.
LEMMA Picked ==
  ASSUME NEW c \in Config, NEW status, NEW rssi \in [Index -> Nat], NEW rr \in Nat
  PROVE  wifi_pick_order(c, status, rssi, rr) \in Seq(DOMAIN c.profiles)
<1> DEFINE count == Len(c.profiles)
           usable == {i \in 1 .. count : status[i] # "BADPASS"}
           seen == {i \in usable : rssi[i] # 0}
           score == [i \in seen |-> rssi[i] + IF i = c.active THEN WIFI_PICK_ACTIVE_BONUS_DB ELSE 0]
           turns == {k \in 0 .. count - 1 : ((rr + k) % count) + 1 \in usable \ seen}
           least == CHOOSE k \in turns : \A l \in turns : k <= l
           ranked == Ranked(seen, score)
           blind == IF turns = {} THEN <<>> ELSE <<((rr + least) % count) + 1>>
<1>0. wifi_pick_order(c, status, rssi, rr) = ranked \o blind
  BY DEF wifi_pick_order
<1>1. count \in Nat /\ count <= CONFIG_PROFILE_MAX /\ DOMAIN c.profiles = 1 .. count
      /\ 1 .. count \subseteq Index
  BY Listed, ProfileBounds DEF Index
<1> HIDE DEF count
<1>2. seen \in SUBSET (1 .. count)
  <2>1. seen \in SUBSET usable /\ usable \in SUBSET (1 .. count)
    BY Zenon
  <2> HIDE DEF seen, usable
  <2> QED BY <2>1, Zenon
<1>3. IsFiniteSet(1 .. count) /\ IsFiniteSet(0 .. count - 1)
  BY <1>1, FS_Interval
<1>4. \A i \in seen : rssi[i] \in Nat
  BY <1>1
<1>5. score \in [seen -> Nat]
  <2> HIDE DEF seen
  <2> QED BY <1>4, ProfileBounds
<1>6. ranked \in Seq(1 .. count)
  <2> HIDE DEF seen, score
  <2>1. seen \subseteq Nat /\ IsFiniteSet(seen)
    <3>1. IsFiniteSet(seen)
      BY <1>2, <1>3, FS_Subset
    <3> QED BY <1>1, <1>2, <3>1
  <2>2. ranked \in Seq(seen)
    BY <1>5, <2>1, RankedIn
  <2> HIDE DEF ranked
  <2> QED BY <1>2, <2>2, Wider
<1>7. blind \in Seq(1 .. count)
  <2>1. CASE turns = {}
    BY <2>1
  <2>2. CASE turns # {}
    <3>1. turns \in SUBSET (0 .. count - 1)
      OBVIOUS
    <3> HIDE DEF turns
    <3>2. turns \subseteq Nat /\ IsFiniteSet(turns)
      <4>1. IsFiniteSet(turns)
        BY <1>3, <3>1, FS_Subset
      <4> QED BY <1>1, <3>1, <4>1
    <3>3. \E k \in turns : \A l \in turns : k <= l
      BY <2>2, <3>2, Least
    <3>4. least \in turns
      BY <3>3
    <3>5. least \in Nat /\ count \in Nat \ {0}
      <4>1. least \in 0 .. count - 1
        BY <3>1, <3>4
      <4> HIDE DEF least
      <4> QED BY <1>1, <4>1
    <3> HIDE DEF least
    <3>6. ((rr + least) % count) + 1 \in 1 .. count
      <4>1. rr + least \in Nat
        BY <3>5
      <4>2. (rr + least) % count \in 0 .. count - 1
        BY <3>5, <4>1
      <4> QED BY <3>5, <4>2
    <3>7. blind = <<((rr + least) % count) + 1>>
      BY <2>2
    <3> HIDE DEF blind
    <3> QED BY <3>6, <3>7
  <2> QED BY <2>1, <2>2
<1> HIDE DEF ranked, blind
<1> QED BY <1>0, <1>1, <1>6, <1>7
-----------------------------------------------------------------------------
(* Steps that touch nothing of the list, the marks and the attempt.        *)

\* The fields of the device's state.
LEMMA Parts ==
  ASSUME NEW x \in Dev
  PROVE  /\ x.cfg \in Config /\ x.flash \in Config
         /\ x.creds_unsaved \in BOOLEAN /\ x.unstored \in BOOLEAN
         /\ x.state \in States /\ x.order \in Seq(Nat) /\ x.trying \in Nat \ {0}
         /\ x.rr_unseen \in Nat /\ x.fast_tries \in Nat /\ x.passes \in Nat
         /\ x.scan_ever \in BOOLEAN /\ x.requested \in BOOLEAN
         /\ x.status \in [Index -> Status] /\ x.scanning \in BOOLEAN /\ x.hearing \in BOOLEAN
         /\ x.results \in Results /\ x.g_mode \in Modes /\ x.scan_rounds \in Rounds
         /\ x.radio \in Radios /\ x.events \in Nat
BY Zenon DEF Dev

\* A radio that is off is one.
LEMMA OffIn == Off \in Radios
BY ProfileBounds DEF Off, Radios, Phases

\* What the manager and the console rest on is the same in x and y.
Same(x, y) ==
  /\ y \in Dev /\ y.cfg = x.cfg /\ y.flash = x.flash
  /\ y.creds_unsaved = x.creds_unsaved /\ y.unstored = x.unstored
  /\ y.state = x.state /\ y.order = x.order /\ y.trying = x.trying /\ y.status = x.status

\* What the invariant speaks of is the same, so it still holds.
LEMMA SameSound ==
  ASSUME NEW x, NEW y, Sound(x), Same(x, y)
  PROVE  Sound(y)
BY DEF Same, Sound, Attempt, Ordered, Marked, Covered

\* One such step after another.
LEMMA SameTrans ==
  ASSUME NEW x, NEW y, NEW z, Same(x, y), Same(y, z)
  PROVE  Same(x, z)
BY DEF Same

\* A refusal is counted and nothing else.
LEMMA CountedSame ==
  ASSUME NEW x \in Dev, NEW y \in Counted(x)
  PROVE  /\ Same(x, y) /\ y = [x EXCEPT !.events = @ + 1]
<1>1. x.events + 1 \in Nat
  BY Parts
<1>2. y = [x EXCEPT !.events = x.events + 1]
  BY DEF Counted
<1>3. y \in Dev
  BY <1>1, <1>2, Zenon DEF Dev
<1> QED BY <1>2, <1>3 DEF Same, Dev

\* Starting a scan empties the results and may drop a join; nothing else.
LEMMA ClearedSame ==
  ASSUME NEW x \in Dev
  PROVE  Same(x, Cleared(x))
<1> DEFINE r == IF x.radio.phase = "link" THEN x.radio ELSE Off
           y == [x EXCEPT !.results = <<>>, !.radio = r]
<1>1. r \in Radios
  BY Parts, OffIn
<1>2. <<>> \in Results
  BY WifiBounds DEF Results
<1>3. Cleared(x) = y
  BY DEF Cleared
<1> HIDE DEF r
<1>4. y \in Dev
  BY <1>1, <1>2, Zenon DEF Dev
<1>5. Same(x, y)
  BY <1>4 DEF Same, Dev
<1> QED BY <1>3, <1>5

\* A pass that begins.
LEMMA RunningSame ==
  ASSUME NEW x \in Dev
  PROVE  Same(x, Running(x)) /\ Same(x, wifi_scan_again(x))
<1>1. Running(x) \in Dev
  BY Zenon DEF Dev, Running
<1>2. Same(x, Running(x))
  BY <1>1 DEF Same, Dev, Running
<1> QED BY <1>2 DEF wifi_scan_again

\* wifi_scan_start leaves the list, the marks and the attempt alone,
LEMMA StartSame ==
  ASSUME NEW x \in Dev
  PROVE  Same(x, wifi_scan_start(x))
<1>1. Same(x, x)
  BY DEF Same
<1>2. Same(x, Cleared(x)) /\ Cleared(x) \in Dev
  BY ClearedSame DEF Same
<1>3. Same(Cleared(x), Running(Cleared(x)))
  BY <1>2, RunningSame
<1>4. Same(x, Running(Cleared(x)))
  BY <1>2, <1>3, SameTrans
<1> QED BY <1>1, <1>4 DEF wifi_scan_start

\* and so does a scan the radio refuses,
LEMMA RefusedSame ==
  ASSUME NEW x \in Dev, NEW y \in ScanRefused(x) \cup AgainRefused(x)
  PROVE  Same(x, y)
<1>1. CASE y \in ScanRefused(x)
  <2>1. y \in Counted(Cleared(x))
    BY <1>1 DEF ScanRefused
  <2>2. Same(x, Cleared(x)) /\ Cleared(x) \in Dev
    BY ClearedSame DEF Same
  <2>3. Same(Cleared(x), y)
    BY <2>1, <2>2, CountedSame
  <2> QED BY <2>2, <2>3, SameTrans
<1>2. CASE y \in AgainRefused(x)
  <2>1. y \in Counted(x)
    BY <1>2 DEF AgainRefused
  <2> QED BY <2>1, CountedSame
<1> QED BY <1>1, <1>2

\* and polling or stopping one.
LEMMA PollSame ==
  ASSUME NEW x \in Dev
  PROVE  /\ Same(x, wifi_scan_poll(x)) /\ Same(x, wifi_scan_stop(x))
         /\ wifi_scan_poll(x) = [x EXCEPT !.scanning = wifi_scan_poll(x).scanning]
         /\ wifi_scan_stop(x).results = x.results /\ wifi_scan_stop(x).hearing = x.hearing
<1> DEFINE b == x.scanning /\ x.hearing
           y == [x EXCEPT !.scanning = b]
<1>1. b \in BOOLEAN
  OBVIOUS
<1>2. wifi_scan_poll(x) = y
  BY DEF wifi_scan_poll
<1> HIDE DEF b
<1>3. y \in Dev /\ wifi_scan_stop(x) \in Dev
  BY <1>1, Zenon DEF Dev, wifi_scan_stop
<1>4. Same(x, y) /\ Same(x, wifi_scan_stop(x))
  BY <1>3 DEF Same, Dev, wifi_scan_stop
<1>5. y.scanning = b
  BY DEF Dev
<1>6. wifi_scan_stop(x).results = x.results /\ wifi_scan_stop(x).hearing = x.hearing
  BY DEF Dev, wifi_scan_stop
<1> QED BY <1>2, <1>4, <1>5, <1>6
-----------------------------------------------------------------------------
(* The manager.                                                            *)

\* No profile is marked as connected.
NoMarks(x) == \A i \in Index : x.status[i] # "CONNECTED"

\* What every way of starting over leaves: an attempt, or none, on the list as
\* it was.
Retried(x, y) ==
  /\ y \in Dev /\ y.cfg = x.cfg /\ y.flash = x.flash /\ y.status = x.status
  /\ y.creds_unsaved = x.creds_unsaved /\ y.unstored = x.unstored
  /\ y.state # "UP" /\ Attempt(y)

\* Starting over without a mark keeps the invariant.
LEMMA RetriedSound ==
  ASSUME NEW x, NEW y, Retried(x, y), NoMarks(x), Covered(x)
  PROVE  Sound(y) /\ NoMarks(y)
BY DEF Retried, Sound, Marked, NoMarks, Covered

\* The rest of a sequence from one of its places on.
LEMMA SuffixOf ==
  ASSUME NEW T, NEW q \in Seq(T), NEW i \in 1 .. Len(q)
  PROVE  /\ SubSeq(q, i, Len(q)) \in Seq(T) /\ SubSeq(q, i, Len(q)) # <<>>
         /\ SubSeq(q, i, Len(q))[1] = q[i] /\ q[i] \in T
<1>1. SubSeq(q, i, Len(q)) \in Seq(T) /\ Len(SubSeq(q, i, Len(q))) = Len(q) - i + 1
  OBVIOUS
<1>2. SubSeq(q, i, Len(q))[1] = q[i]
  OBVIOUS
<1>3. Len(SubSeq(q, i, Len(q))) # 0
  BY <1>1
<1> QED BY <1>1, <1>2, <1>3

\* try_from: however many candidates the radio refuses, what is tried is the
\* first of those left, and all of those are profiles.
LEMMA TryFrom ==
  ASSUME NEW x \in Dev, Ordered(x), NEW y \in try_from(x)
  PROVE  Retried(x, y)
<1> DEFINE n == Len(x.order)
<1>1. PICK i \in 1 .. n + 1 : y = [From(x, i) EXCEPT !.events = @ + i - 1]
  BY DEF try_from
<1>2. n \in Nat /\ x.events \in Nat /\ i \in Nat /\ x.events + i - 1 \in Nat
  BY <1>1, Parts
<1>3. CASE i > n
  <2> DEFINE r == IF i = 1 THEN x.radio ELSE Off
             z == [x EXCEPT !.state = "WAIT", !.order = <<>>, !.radio = r, !.events = x.events + i - 1]
  <2>1. y = z
    <3>1. From(x, i) = [x EXCEPT !.state = "WAIT", !.order = <<>>, !.radio = r]
      BY <1>3 DEF From
    <3> HIDE DEF r
    <3> QED BY <1>1, <3>1 DEF Dev
  <2>2. r \in Radios /\ "WAIT" \in States /\ <<>> \in Seq(Nat)
    BY Parts, OffIn DEF States
  <2> HIDE DEF r
  <2>3. z \in Dev
    BY <1>2, <2>2, Zenon DEF Dev
  <2>4. z.state = "WAIT" /\ z.cfg = x.cfg /\ z.flash = x.flash /\ z.status = x.status
        /\ z.creds_unsaved = x.creds_unsaved /\ z.unstored = x.unstored
    BY DEF Dev
  <2> HIDE DEF z
  <2> QED BY <2>1, <2>3, <2>4 DEF Retried, Attempt
<1>4. CASE i <= n
  <2> DEFINE o == SubSeq(x.order, i, n)
             t == x.order[i]
             p == x.cfg.profiles[t]
             r == [phase |-> "joining", ssid |-> p.ssid, pass |-> p.pass]
             z == [x EXCEPT !.state = "TRY", !.trying = t, !.order = o, !.radio = r,
                            !.events = x.events + i - 1]
  <2>1. y = z
    <3>1. From(x, i) = [x EXCEPT !.state = "TRY", !.trying = t, !.order = o, !.radio = r]
      BY <1>2, <1>4 DEF From
    <3> HIDE DEF r, t, o
    <3> QED BY <1>1, <3>1 DEF Dev
  <2>2. o \in Seq(DOMAIN x.cfg.profiles) /\ o # <<>> /\ o[1] = t /\ t \in DOMAIN x.cfg.profiles
    <3>1. x.order \in Seq(DOMAIN x.cfg.profiles)
      BY DEF Ordered
    <3>2. i \in 1 .. Len(x.order)
      BY <1>1, <1>2, <1>4
    <3> DEFINE q == x.order
               T == DOMAIN x.cfg.profiles
    <3> HIDE DEF q, T
    <3>3. q \in Seq(T) /\ i \in 1 .. Len(q)
      BY <3>1, <3>2 DEF q, T
    <3>4. SubSeq(q, i, Len(q)) \in Seq(T) /\ SubSeq(q, i, Len(q)) # <<>>
          /\ SubSeq(q, i, Len(q))[1] = q[i] /\ q[i] \in T
      BY <3>3, SuffixOf
    <3> QED BY <3>4 DEF q, T
  <2>3. DOMAIN x.cfg.profiles = 1 .. Len(x.cfg.profiles) /\ Len(x.cfg.profiles) \in Nat
        /\ x.cfg.profiles \in Seq(Profile)
    BY Parts, Listed
  <2>4. t \in Nat \ {0} /\ p \in Profile
    <3> HIDE DEF t
    <3> QED BY <2>2, <2>3
  <2>5. o \in Seq(Nat)
    <3>1. DOMAIN x.cfg.profiles \in SUBSET Nat
      BY <2>3
    <3> HIDE DEF o
    <3> QED BY <2>2, <3>1, Wider
  <2>6. r \in Radios
    <3> HIDE DEF p
    <3> QED BY <2>4 DEF Radios, Profile, Phases
  <2>7. "TRY" \in States
    BY DEF States
  <2> HIDE DEF o, t, r
  <2>8. z \in Dev
    BY <1>2, <2>4, <2>5, <2>6, <2>7, Zenon DEF Dev
  <2>9. z.state = "TRY" /\ z.cfg = x.cfg /\ z.flash = x.flash /\ z.status = x.status
        /\ z.creds_unsaved = x.creds_unsaved /\ z.unstored = x.unstored
        /\ z.order = o /\ z.trying = t
    BY DEF Dev
  <2> HIDE DEF z
  <2> QED BY <2>1, <2>2, <2>8, <2>9 DEF Retried, Attempt, Ordered
<1> QED BY <1>2, <1>3, <1>4

\* A sequence of one.
LEMMA OneOf ==
  ASSUME NEW T, NEW e \in T
  PROVE  <<e>> \in Seq(T)
OBVIOUS

\* Trying the active profile and nothing else.
LEMMA PinRetries ==
  ASSUME NEW x \in Dev, HasActive(x.cfg), NEW y \in Pin(x)
  PROVE  Retried(x, y)
<1> DEFINE o == <<x.cfg.active>>
           z == [x EXCEPT !.order = o]
<1>1. x.cfg.active \in DOMAIN x.cfg.profiles /\ x.cfg.active \in Nat
  BY Parts, Listed DEF HasActive
<1>2. o \in Seq(DOMAIN x.cfg.profiles) /\ o \in Seq(Nat)
  BY <1>1, OneOf
<1>3. y \in try_from(z)
  BY DEF Pin, Then
<1> HIDE DEF o
<1>4. z \in Dev
  BY <1>2, Zenon DEF Dev
<1>5. z.cfg = x.cfg /\ z.flash = x.flash /\ z.status = x.status /\ z.order = o
      /\ z.creds_unsaved = x.creds_unsaved /\ z.unstored = x.unstored
  BY DEF Dev
<1> HIDE DEF z
<1>6. Retried(z, y)
  BY <1>2, <1>3, <1>4, <1>5, TryFrom DEF Ordered
<1> QED BY <1>5, <1>6 DEF Retried

\* snapshot_rssi: a strength for every slot.
LEMMA SnapshotIn ==
  ASSUME NEW x \in Dev
  PROVE  snapshot_rssi(x) \in [Index -> Nat]
<1> DEFINE at(i) == {k \in DOMAIN x.results : config_find_profile(x.cfg, x.results[k].ssid) = i}
<1>1. \A k \in DOMAIN x.results : x.results[k].rssi \in Nat
  <2>1. x.results \in Seq(Heard)
    BY Parts DEF Results
  <2>2. \A k \in DOMAIN x.results : x.results[k] \in Heard
    BY <2>1
  <2> QED BY <2>2 DEF Heard
<1>2. ASSUME NEW i \in Index, at(i) # {}
      PROVE  x.results[CHOOSE k \in at(i) : TRUE].rssi \in Nat
  <2>1. (CHOOSE k \in at(i) : TRUE) \in at(i)
    <3> HIDE DEF at
    <3> QED BY <1>2
  <2>2. at(i) \subseteq DOMAIN x.results
    OBVIOUS
  <2> HIDE DEF at
  <2> QED BY <1>1, <2>1, <2>2
<1>3. snapshot_rssi(x) = [i \in Index |-> IF at(i) = {} THEN 0 ELSE x.results[CHOOSE k \in at(i) : TRUE].rssi]
  BY DEF snapshot_rssi
<1> HIDE DEF at
<1> QED BY <1>2, <1>3

\* build_and_try starts over with the candidates of this cycle.
LEMMA BuildRetries ==
  ASSUME NEW x \in Dev, NEW y \in build_and_try(x)
  PROVE  Retried(x, y)
<1> DEFINE o == Candidates(x)
           rr == (x.rr_unseen + 1) % RrWrap
           z == [x EXCEPT !.order = o, !.rr_unseen = rr]
<1>1. o \in Seq(DOMAIN x.cfg.profiles)
  BY Parts, SnapshotIn, Picked DEF Candidates
<1>2. o \in Seq(Nat)
  <2>1. DOMAIN x.cfg.profiles \in SUBSET Nat
    BY Parts, Listed
  <2> HIDE DEF o
  <2> QED BY <1>1, <2>1, Wider
<1>3. rr \in Nat
  <2>1. RrWrap \in Nat \ {0} /\ x.rr_unseen + 1 \in Nat
    BY Parts, WifiBounds
  <2> QED BY <2>1
<1>4. y \in try_from(z)
  BY DEF build_and_try, Then
<1> HIDE DEF o, rr
<1>5. z \in Dev
  BY <1>2, <1>3, Zenon DEF Dev
<1>6. z.cfg = x.cfg /\ z.flash = x.flash /\ z.status = x.status /\ z.order = o
      /\ z.creds_unsaved = x.creds_unsaved /\ z.unstored = x.unstored
  BY DEF Dev
<1> HIDE DEF z
<1>7. Retried(z, y)
  BY <1>1, <1>4, <1>5, <1>6, TryFrom DEF Ordered
<1> QED BY <1>6, <1>7 DEF Retried

\* start_cycle starts over, at once or after a scan, or gives up for now.
LEMMA CycleRetries ==
  ASSUME NEW x \in Dev, NEW fresh \in BOOLEAN, NEW y \in start_cycle(x, fresh)
  PROVE  Retried(x, y)
<1> DEFINE z == [x EXCEPT !.state = "SCAN"]
<1>1. "SCAN" \in States /\ "IDLE" \in States /\ "WAIT" \in States /\ MGR_SCAN_PASSES \in Nat
  BY WifiBounds DEF States
<1>2. z \in Dev
  BY <1>1, Zenon DEF Dev
<1>3. z.cfg = x.cfg /\ z.flash = x.flash /\ z.status = x.status /\ z.state = "SCAN"
      /\ z.creds_unsaved = x.creds_unsaved /\ z.unstored = x.unstored
  BY DEF Dev
<1>4. CASE x.cfg.profiles = <<>>
  <2>1. y = [x EXCEPT !.state = "IDLE"]
    BY <1>4 DEF start_cycle
  <2>2. y \in Dev
    BY <1>1, <2>1, Zenon DEF Dev
  <2> QED BY <2>1, <2>2 DEF Retried, Attempt, Dev
<1>5. CASE x.cfg.profiles # <<>> /\ x.scan_ever /\ fresh
  <2>1. y \in build_and_try(z)
    BY <1>5 DEF start_cycle, Then
  <2> HIDE DEF z
  <2>2. Retried(z, y)
    BY <1>2, <2>1, BuildRetries
  <2> QED BY <1>3, <2>2 DEF Retried
<1>6. CASE x.cfg.profiles # <<>> /\ ~(x.scan_ever /\ fresh)
  <2>1. \/ y = [wifi_scan_start(z) EXCEPT !.passes = MGR_SCAN_PASSES]
        \/ \E w \in ScanRefused(z) : y = [w EXCEPT !.state = "WAIT"]
    BY <1>6 DEF start_cycle
  <2> HIDE DEF z
  <2>2. CASE y = [wifi_scan_start(z) EXCEPT !.passes = MGR_SCAN_PASSES]
    <3> DEFINE w == wifi_scan_start(z)
    <3>1. Same(z, w)
      BY <1>2, StartSame
    <3> HIDE DEF w
    <3>2. w \in Dev
      BY <3>1 DEF Same
    <3>3. y = [w EXCEPT !.passes = MGR_SCAN_PASSES]
      BY <2>2 DEF w
    <3>4. y \in Dev
      BY <1>1, <3>2, <3>3, Zenon DEF Dev
    <3>5. y.cfg = w.cfg /\ y.flash = w.flash /\ y.status = w.status /\ y.state = w.state
          /\ y.creds_unsaved = w.creds_unsaved /\ y.unstored = w.unstored
      BY <3>2, <3>3 DEF Dev
    <3> QED BY <1>3, <3>1, <3>4, <3>5 DEF Same, Retried, Attempt
  <2>3. CASE \E w \in ScanRefused(z) : y = [w EXCEPT !.state = "WAIT"]
    <3>1. PICK w \in ScanRefused(z) : y = [w EXCEPT !.state = "WAIT"]
      BY <2>3
    <3>2. Same(z, w)
      BY <1>2, RefusedSame
    <3>3. w \in Dev
      BY <3>2 DEF Same
    <3>4. y \in Dev
      BY <1>1, <3>1, <3>3, Zenon DEF Dev
    <3>5. y.cfg = w.cfg /\ y.flash = w.flash /\ y.status = w.status /\ y.state = "WAIT"
          /\ y.creds_unsaved = w.creds_unsaved /\ y.unstored = w.unstored
      BY <3>1, <3>3 DEF Dev
    <3> QED BY <1>3, <3>2, <3>4, <3>5 DEF Same, Retried, Attempt
  <2> QED BY <2>1, <2>2, <2>3
<1> QED BY <1>4, <1>5, <1>6

\* wifi_conn_apply: whatever was done to the list, an attempt is made on what it
\* is now, without marks.
LEMMA ApplySound ==
  ASSUME NEW x \in Dev, Covered(x), NEW y \in wifi_conn_apply(x)
  PROVE  Sound(y) /\ NoMarks(y)
<1> DEFINE st == [i \in Index |-> "UNTRIED"]
           z == [x EXCEPT !.status = st, !.radio = Off]
<1>1. st \in [Index -> Status] /\ \A i \in Index : st[i] # "CONNECTED"
  BY DEF Status
<1>2. "WAIT" \in States /\ <<>> \in Seq(Nat)
  BY DEF States
<1>3. IF HasActive(x.cfg) THEN y \in Pin(z) ELSE y = [z EXCEPT !.state = "WAIT", !.order = <<>>]
  BY DEF wifi_conn_apply, Then
<1> HIDE DEF st
<1>4. z \in Dev
  BY <1>1, OffIn, Zenon DEF Dev
<1>5. z.cfg = x.cfg /\ z.flash = x.flash /\ z.status = st
      /\ z.creds_unsaved = x.creds_unsaved /\ z.unstored = x.unstored
  BY DEF Dev
<1> HIDE DEF z
<1>6. NoMarks(z) /\ Covered(z)
  BY <1>1, <1>5 DEF NoMarks, Covered
<1>7. CASE HasActive(x.cfg)
  <2>1. HasActive(z.cfg) /\ y \in Pin(z)
    BY <1>3, <1>5, <1>7
  <2>2. Retried(z, y)
    BY <1>4, <2>1, PinRetries
  <2> QED BY <1>6, <2>2, RetriedSound
<1>8. CASE ~HasActive(x.cfg)
  <2>1. y = [z EXCEPT !.state = "WAIT", !.order = <<>>]
    BY <1>3, <1>8
  <2>2. y \in Dev
    BY <1>2, <1>4, <2>1, Zenon DEF Dev
  <2>3. Retried(z, y)
    BY <1>4, <2>1, <2>2 DEF Retried, Attempt, Dev
  <2> QED BY <1>6, <2>3, RetriedSound
<1> QED BY <1>7, <1>8

\* A configuration that has been stored is covered by what is stored.
LEMMA StoredSound ==
  ASSUME NEW x, Sound(x), NEW y, y = [Stores(x) EXCEPT !.creds_unsaved = FALSE]
  PROVE  Sound(y) /\ y.cfg = x.cfg
<1> DEFINE z == [x EXCEPT !.flash = x.cfg, !.unstored = FALSE]
<1>0. x \in Dev /\ x.cfg \in Config
  BY Parts DEF Sound
<1>1. z \in Dev
  BY <1>0, Zenon DEF Dev
<1>2. z.cfg = x.cfg /\ z.flash = x.cfg /\ z.state = x.state /\ z.order = x.order
      /\ z.trying = x.trying /\ z.status = x.status
  BY <1>0 DEF Dev
<1>3. y = [z EXCEPT !.creds_unsaved = FALSE]
  BY DEF Stores
<1> HIDE DEF z
<1>4. y \in Dev
  BY <1>1, <1>3, Zenon DEF Dev
<1>5. y.cfg = z.cfg /\ y.flash = z.flash /\ y.state = z.state /\ y.order = z.order
      /\ y.trying = z.trying /\ y.status = z.status
  BY <1>1, <1>3 DEF Dev
<1> QED BY <1>2, <1>4, <1>5 DEF Sound, Attempt, Ordered, Marked, Covered

\* AutoSave: saved or not, nothing proved is taken for stored that is not.
LEMMA AutoSaveSound ==
  ASSUME NEW x, Sound(x), NEW y \in AutoSave(x)
  PROVE  Sound(y)
<1>0. x \in Dev
  BY DEF Sound
<1>1. CASE ~x.creds_unsaved
  BY <1>1 DEF AutoSave
<1>2. CASE x.creds_unsaved
  <2>1. \/ y = [Stores(x) EXCEPT !.creds_unsaved = FALSE]
        \/ \E w \in StoreFails(x) : y = [w EXCEPT !.creds_unsaved = FALSE]
    BY <1>2 DEF AutoSave
  <2>2. CASE y = [Stores(x) EXCEPT !.creds_unsaved = FALSE]
    BY <2>2, StoredSound
  <2>3. CASE \E w \in StoreFails(x) : y = [w EXCEPT !.creds_unsaved = FALSE]
    <3>1. PICK w \in Counted(x) : y = [[w EXCEPT !.unstored = TRUE] EXCEPT !.creds_unsaved = FALSE]
      BY <2>3 DEF StoreFails
    <3> DEFINE z == [w EXCEPT !.unstored = TRUE]
    <3>2. Same(x, w) /\ w \in Dev
      BY <1>0, CountedSame DEF Same
    <3>3. z \in Dev
      BY <3>2, Zenon DEF Dev
    <3>4. z.cfg = w.cfg /\ z.flash = w.flash /\ z.state = w.state /\ z.order = w.order
          /\ z.trying = w.trying /\ z.status = w.status /\ z.unstored = TRUE
      BY <3>2 DEF Dev
    <3>5. y = [z EXCEPT !.creds_unsaved = FALSE]
      BY <3>1
    <3> HIDE DEF z
    <3>6. y \in Dev
      BY <3>3, <3>5, Zenon DEF Dev
    <3>7. y.cfg = z.cfg /\ y.flash = z.flash /\ y.state = z.state /\ y.order = z.order
          /\ y.trying = z.trying /\ y.status = z.status /\ y.unstored = z.unstored
      BY <3>3, <3>5 DEF Dev
    <3> QED BY <3>2, <3>4, <3>6, <3>7 DEF Same, Sound, Attempt, Ordered, Marked, Covered
  <2> QED BY <2>1, <2>2, <2>3
<1> QED BY <1>1, <1>2

\* Another entry becomes active.
LEMMA Activated ==
  ASSUME NEW c \in Config, NEW i \in 0 .. Len(c.profiles)
  PROVE  /\ [c EXCEPT !.active = i] \in Config
         /\ [c EXCEPT !.active = i].profiles = c.profiles
         /\ [c EXCEPT !.active = i].active = i
<1>1. c.profiles \in Seq(Profile) /\ Len(c.profiles) <= CONFIG_PROFILE_MAX
      /\ c = [profiles |-> c.profiles, active |-> c.active]
  BY Listed
<1>2. [c EXCEPT !.active = i] = [profiles |-> c.profiles, active |-> i]
  BY <1>1
<1> QED BY <1>1, <1>2, Lists

\* The marks after a join.
LEMMA MarkedFirst ==
  ASSUME NEW st \in [Index -> Status], NEW i \in Index
  PROVE  LET new == [Fronted(Unmarked(st), i) EXCEPT ![1] = "CONNECTED"]
         IN new \in [Index -> Status] /\ \A k \in Index : new[k] = "CONNECTED" => k = 1
<1> DEFINE u == Unmarked(st)
           f == Fronted(u, i)
           new == [f EXCEPT ![1] = "CONNECTED"]
<1>1. u \in [Index -> Status] /\ \A k \in Index : u[k] # "CONNECTED"
  BY DEF Unmarked, Status
<1> HIDE DEF u
<1>2. \A k \in Index : k # 1 => k - 1 \in Index
  BY ProfileBounds DEF Index
<1>3. f = [k \in Index |-> IF k = 1 THEN u[i] ELSE IF k <= i THEN u[k - 1] ELSE u[k]]
  BY <1>1 DEF Fronted
<1>4. f \in [Index -> Status] /\ \A k \in Index : f[k] # "CONNECTED"
  BY <1>1, <1>2, <1>3
<1> HIDE DEF f
<1>5. new \in [Index -> Status] /\ \A k \in Index : new[k] = "CONNECTED" => k = 1
  BY <1>4 DEF Status
<1> QED BY <1>5 DEF f, u

\* joined: the profile tried moves to the front and is the one marked, and what
\* it proved is stored or known not to be.
LEMMA JoinedSound ==
  ASSUME NEW x, Sound(x), x.state # "UP", NEW y \in joined(x)
  PROVE  Sound(y)
<1> DEFINE up == [x EXCEPT !.state = "UP", !.fast_tries = FAST_RETRIES, !.order = <<>>]
           i == x.trying
           n == Len(x.cfg.profiles)
<1>0. x \in Dev /\ NoMarks(x) /\ Covered(x)
  BY DEF Sound, Marked, NoMarks
<1>1. "UP" \in States /\ FAST_RETRIES \in Nat /\ <<>> \in Seq(Nat)
  BY WifiBounds DEF States
<1>2. up \in Dev
  BY <1>0, <1>1, Zenon DEF Dev
<1>3. up.cfg = x.cfg /\ up.flash = x.flash /\ up.status = x.status /\ up.state = "UP"
      /\ up.creds_unsaved = x.creds_unsaved /\ up.unstored = x.unstored
  BY <1>0 DEF Dev
<1>4. i \in Nat \ {0} /\ n \in Nat /\ x.cfg \in Config /\ n <= CONFIG_PROFILE_MAX
      /\ DOMAIN x.cfg.profiles = 1 .. n
  BY <1>0, Parts, Listed
<1>5. CASE i > n
  <2>1. y = up
    BY <1>5 DEF joined
  <2> HIDE DEF up
  <2> QED BY <1>0, <1>2, <1>3, <2>1 DEF Sound, Attempt, Marked, NoMarks, Covered
<1>6. CASE ~(i > n)
  <2> DEFINE c == [x.cfg EXCEPT !.active = i]
             t == config_touch_profile(c, i)
             st == [Fronted(Unmarked(x.status), i) EXCEPT ![1] = "CONNECTED"]
             z == [up EXCEPT !.cfg = t, !.status = st, !.trying = 1]
  <2>1. y \in AutoSave([up EXCEPT !.cfg = config_touch_profile([@ EXCEPT !.active = i], i),
                                  !.status = [Fronted(Unmarked(@), i) EXCEPT ![1] = "CONNECTED"],
                                  !.trying = 1])
    BY <1>6 DEF joined, Then
  <2>2. y \in AutoSave(z)
    <3> HIDE DEF up
    <3> QED BY <1>3, <2>1
  <2>3. i \in 1 .. n /\ i \in 0 .. n /\ i \in Index
    BY <1>4, <1>6, ProfileBounds DEF Index
  <2>4. c \in Config /\ c.profiles = x.cfg.profiles
    <3> HIDE DEF i
    <3> QED BY <1>4, <2>3, Activated
  <2>5. t \in Config /\ Len(t.profiles) = n /\ Members(t) \subseteq Members(x.cfg)
    <3> HIDE DEF c
    <3>1. Members(c) = Members(x.cfg)
      BY <2>4 DEF Members
    <3> QED BY <1>4, <2>3, <2>4, <3>1, Touched
  <2>6. st \in [Index -> Status] /\ \A k \in Index : st[k] = "CONNECTED" => k = 1
    <3>1. x.status \in [Index -> Status]
      BY <1>0, Parts
    <3> QED BY <2>3, <3>1, MarkedFirst
  <2> HIDE DEF c, t, st
  <2>7. z \in Dev
    <3>1. 1 \in Nat \ {0}
      OBVIOUS
    <3> HIDE DEF up
    <3> QED BY <1>2, <2>5, <2>6, <3>1, Zenon DEF Dev
  <2>8. z.cfg = t /\ z.status = st /\ z.flash = x.flash /\ z.state = "UP"
        /\ z.creds_unsaved = x.creds_unsaved /\ z.unstored = x.unstored
    <3> HIDE DEF up
    <3> QED BY <1>2, <1>3 DEF Dev
  <2> HIDE DEF z
  <2>9. t.profiles # <<>>
    BY <2>3, <2>5, <1>4
  <2>10. Sound(z)
    BY <1>0, <2>5, <2>6, <2>7, <2>8, <2>9 DEF Sound, Attempt, Marked, Covered
  <2> QED BY <2>2, <2>10, AutoSaveSound
<1> QED BY <1>5, <1>6

\* Scan work does not disturb a link that is up.
Steady(x, y) == x.state = "UP" => y.state = "UP" /\ y.cfg = x.cfg /\ y.status = x.status

\* The end of a scan of the manager's own.
LEMMA PassOverSound ==
  ASSUME NEW x, Sound(x), NEW y \in PassOver(x)
  PROVE  Sound(y) /\ Steady(x, y)
<1> DEFINE z == [x EXCEPT !.passes = 0, !.scan_ever = TRUE]
<1>0. x \in Dev
  BY DEF Sound
<1>1. Same(x, z)
  <2>1. 0 \in Nat
    OBVIOUS
  <2>2. z \in Dev
    BY <1>0, <2>1, Zenon DEF Dev
  <2> QED BY <1>0, <2>2 DEF Same, Dev
<1>2. IF x.state = "SCAN" THEN y \in build_and_try(z) ELSE y = z
  BY DEF PassOver, Then
<1> HIDE DEF z
<1>3. Sound(z)
  BY <1>1, SameSound
<1>4. CASE x.state = "SCAN"
  <2>1. Retried(z, y)
    BY <1>1, <1>2, <1>4, BuildRetries DEF Same
  <2>2. NoMarks(z) /\ Covered(z)
    BY <1>1, <1>3, <1>4 DEF Same, Sound, Marked, NoMarks
  <2>3. Sound(y)
    BY <2>1, <2>2, RetriedSound
  <2> QED BY <1>4, <2>3 DEF Steady
<1>5. CASE x.state # "SCAN"
  BY <1>1, <1>2, <1>3, <1>5 DEF Steady, Same
<1> QED BY <1>4, <1>5

\* The scan work of a tick, with every refusal in it.
LEMMA DriveScanSound ==
  ASSUME NEW x, Sound(x), NEW y \in DriveScan(x)
  PROVE  Sound(y) /\ Steady(x, y)
<1>0. x \in Dev /\ x.passes \in Nat
  BY Parts DEF Sound
<1>1. CASE x.passes > 0
  <2> DEFINE z == wifi_scan_poll(x)
  <2>1. Same(x, z)
    BY <1>0, PollSame
  <2>2. \/ y = z
        \/ y \in PassOver(z)
        \/ x.passes # 1 /\ y = [wifi_scan_again(z) EXCEPT !.passes = @ - 1]
        \/ \E w \in AgainRefused(z) : y \in PassOver(w)
    BY <1>1 DEF DriveScan, Then
  <2>3. z.passes = x.passes
    BY <1>0 DEF wifi_scan_poll, Dev
  <2> HIDE DEF z
  <2>4. z \in Dev /\ Sound(z)
    BY <2>1, SameSound DEF Same
  <2>5. CASE y = z
    BY <2>1, <2>4, <2>5 DEF Steady, Same
  <2>6. CASE y \in PassOver(z)
    BY <2>1, <2>4, <2>6, PassOverSound DEF Steady, Same
  <2>7. CASE x.passes # 1 /\ y = [wifi_scan_again(z) EXCEPT !.passes = @ - 1]
    <3> DEFINE w == wifi_scan_again(z)
    <3>1. Same(z, w) /\ w \in Dev
      BY <2>4, RunningSame DEF Same
    <3>2. w.passes = x.passes
      BY <2>3, <2>4 DEF wifi_scan_again, Running, Dev
    <3> HIDE DEF w
    <3>3. w.passes - 1 \in Nat
      BY <1>0, <1>1, <3>2
    <3>4. y = [w EXCEPT !.passes = w.passes - 1]
      BY <2>7 DEF w
    <3>5. y \in Dev
      BY <3>1, <3>3, <3>4, Zenon DEF Dev
    <3>6. Same(w, y)
      BY <3>1, <3>4, <3>5 DEF Same, Dev
    <3>7. Same(z, y) /\ Same(x, y)
      BY <2>1, <3>1, <3>6, SameTrans
    <3> QED BY <3>7, SameSound DEF Steady, Same
  <2>8. CASE \E w \in AgainRefused(z) : y \in PassOver(w)
    <3>1. PICK w \in AgainRefused(z) : y \in PassOver(w)
      BY <2>8
    <3>2. Same(z, w) /\ Same(x, w)
      BY <2>1, <2>4, RefusedSame, SameTrans
    <3>3. Sound(w)
      BY <2>4, <3>2, SameSound
    <3> QED BY <3>1, <3>2, <3>3, PassOverSound DEF Steady, Same
  <2> QED BY <2>2, <2>5, <2>6, <2>7, <2>8
<1>2. CASE ~(x.passes > 0) /\ x.requested /\ x.state # "TRY"
  <2> DEFINE z == [x EXCEPT !.requested = FALSE]
  <2>1. Same(x, z)
    <3>1. z \in Dev
      BY <1>0, Zenon DEF Dev
    <3> QED BY <1>0, <3>1 DEF Same, Dev
  <2>2. \/ y = [wifi_scan_start(z) EXCEPT !.passes = MGR_SCAN_PASSES,
                                          !.state = IF @ = "WAIT" THEN "SCAN" ELSE @]
        \/ y \in ScanRefused(z)
    BY <1>2 DEF DriveScan
  <2> HIDE DEF z
  <2>3. z \in Dev
    BY <2>1 DEF Same
  <2>4. CASE y \in ScanRefused(z)
    <3>1. Same(z, y)
      BY <2>3, <2>4, RefusedSame
    <3>2. Same(x, y)
      BY <2>1, <3>1, SameTrans
    <3> QED BY <3>2, SameSound DEF Steady, Same
  <2>5. CASE y = [wifi_scan_start(z) EXCEPT !.passes = MGR_SCAN_PASSES,
                                            !.state = IF @ = "WAIT" THEN "SCAN" ELSE @]
    <3> DEFINE w == wifi_scan_start(z)
               st == IF w.state = "WAIT" THEN "SCAN" ELSE w.state
    <3>1. Same(z, w)
      BY <2>3, StartSame
    <3> HIDE DEF w
    <3>2. Same(x, w) /\ w \in Dev
      BY <2>1, <3>1, SameTrans DEF Same
    <3>3. y = [w EXCEPT !.passes = MGR_SCAN_PASSES, !.state = st]
      BY <2>5 DEF w
    <3>4. st \in States /\ MGR_SCAN_PASSES \in Nat
      BY <3>2, Parts, WifiBounds DEF States
    <3>5. st # "TRY" /\ (st = "UP" <=> x.state = "UP")
      BY <1>2, <3>2 DEF Same
    <3> HIDE DEF st
    <3>6. y \in Dev
      BY <3>2, <3>3, <3>4, Zenon DEF Dev
    <3>7. y.cfg = w.cfg /\ y.flash = w.flash /\ y.status = w.status /\ y.state = st
          /\ y.creds_unsaved = w.creds_unsaved /\ y.unstored = w.unstored
      BY <3>2, <3>3 DEF Dev
    <3> QED BY <3>2, <3>5, <3>6, <3>7 DEF Same, Sound, Attempt, Marked, Covered, Steady
  <2> QED BY <2>2, <2>4, <2>5
<1>3. CASE ~(x.passes > 0) /\ ~(x.requested /\ x.state # "TRY")
  <2>1. y = x
    BY <1>3 DEF DriveScan
  <2> QED BY <2>1 DEF Steady
<1> QED BY <1>1, <1>2, <1>3

\* A failed attempt turns to the rest of the candidates.
LEMMA FailedSound ==
  ASSUME NEW x, Sound(x), x.state = "TRY", NEW mark \in Status \ {"CONNECTED"},
         NEW y \in Failed(x, mark)
  PROVE  Sound(y) /\ NoMarks(y)
<1> DEFINE st == [x.status EXCEPT ![x.trying] = mark]
           o == Tail(x.order)
           z == [x EXCEPT !.status = st, !.order = o]
<1>0. x \in Dev /\ NoMarks(x) /\ Covered(x) /\ x.order \in Seq(DOMAIN x.cfg.profiles) /\ x.order # <<>>
  BY DEF Sound, Marked, NoMarks, Attempt, Ordered
<1>1. st \in [Index -> Status] /\ \A i \in Index : st[i] # "CONNECTED"
  BY <1>0, Parts DEF NoMarks
<1>2. o \in Seq(DOMAIN x.cfg.profiles)
  <2> DEFINE T == DOMAIN x.cfg.profiles
  <2> HIDE DEF T
  <2>1. x.order \in Seq(T)
    BY <1>0 DEF T
  <2>2. Tail(x.order) \in Seq(T)
    BY <1>0, <2>1
  <2> QED BY <2>2 DEF T
<1>3. o \in Seq(Nat)
  <2>1. DOMAIN x.cfg.profiles \in SUBSET Nat
    BY <1>0, Parts, Listed
  <2> HIDE DEF o
  <2> QED BY <1>2, <2>1, Wider
<1>4. y \in try_from([x EXCEPT !.status[x.trying] = mark, !.order = Tail(@)])
  BY DEF Failed, Then
<1>5. y \in try_from(z)
  BY <1>4
<1> HIDE DEF st, o
<1>6. z \in Dev
  BY <1>0, <1>1, <1>3, Zenon DEF Dev
<1>7. z.cfg = x.cfg /\ z.flash = x.flash /\ z.status = st /\ z.order = o
      /\ z.creds_unsaved = x.creds_unsaved /\ z.unstored = x.unstored
  BY <1>0 DEF Dev
<1> HIDE DEF z
<1>8. Retried(z, y)
  BY <1>2, <1>5, <1>6, <1>7, TryFrom DEF Ordered
<1>9. NoMarks(z) /\ Covered(z)
  BY <1>0, <1>1, <1>7 DEF NoMarks, Covered
<1> QED BY <1>8, <1>9, RetriedSound

\* What the property of the marks rests on, from x to y.
Stays(x, y) == NoMarks(x) \/ NoMarks(y) \/ y.cfg.profiles[1] = x.cfg.profiles[1]

\* The state machine: a link that is up keeps its state or loses its mark.
LEMMA SwitchSound ==
  ASSUME NEW x, Sound(x), NEW link \in BOOLEAN, NEW due \in BOOLEAN, NEW fresh \in BOOLEAN,
         NEW y \in Switch(x, link, due, fresh)
  PROVE  Sound(y) /\ (x.state = "UP" => y = x \/ NoMarks(y))
<1>0. x \in Dev /\ Covered(x) /\ x.state \in States
  BY Parts DEF Sound
<1>1. CASE x.state = "UP"
  <2> DEFINE st == Unmarked(x.status)
             z == [x EXCEPT !.status = st]
             u == [z EXCEPT !.fast_tries = @ - 1]
  <2>1. CASE link
    <3>1. y = x
      BY <1>1, <2>1 DEF Switch
    <3> QED BY <3>1
  <2>2. CASE ~link
    <3>1. IF x.fast_tries > 0 /\ HasActive(x.cfg) THEN y \in Pin(u) ELSE y \in start_cycle(z, fresh)
      BY <1>1, <2>2 DEF Switch, Then
    <3>2. st \in [Index -> Status] /\ \A i \in Index : st[i] # "CONNECTED"
      BY <1>0, Parts DEF Unmarked, Status
    <3> HIDE DEF st
    <3>3. z \in Dev
      BY <1>0, <3>2, Zenon DEF Dev
    <3>4. z.cfg = x.cfg /\ z.flash = x.flash /\ z.status = st /\ z.fast_tries = x.fast_tries
          /\ z.creds_unsaved = x.creds_unsaved /\ z.unstored = x.unstored
      BY <1>0 DEF Dev
    <3> HIDE DEF z
    <3>5. NoMarks(z) /\ Covered(z)
      BY <1>0, <3>2, <3>4 DEF NoMarks, Covered
    <3>6. CASE x.fast_tries > 0 /\ HasActive(x.cfg)
      <4>1. y \in Pin(u)
        BY <3>1, <3>6
      <4>2. z.fast_tries - 1 \in Nat
        BY <1>0, <3>4, <3>6, Parts
      <4>3. u \in Dev
        BY <3>3, <4>2, Zenon DEF Dev
      <4>4. u.cfg = z.cfg /\ u.flash = z.flash /\ u.status = z.status
            /\ u.creds_unsaved = z.creds_unsaved /\ u.unstored = z.unstored
        BY <3>3 DEF Dev
      <4> HIDE DEF u
      <4>5. Retried(u, y)
        BY <3>4, <3>6, <4>1, <4>3, <4>4, PinRetries
      <4>6. NoMarks(u) /\ Covered(u)
        BY <3>5, <4>4 DEF NoMarks, Covered
      <4> QED BY <4>5, <4>6, RetriedSound
    <3>7. CASE ~(x.fast_tries > 0 /\ HasActive(x.cfg))
      <4>1. y \in start_cycle(z, fresh)
        BY <3>1, <3>7
      <4>2. Retried(z, y)
        BY <3>3, <4>1, CycleRetries
      <4> QED BY <3>5, <4>2, RetriedSound
    <3> QED BY <3>6, <3>7
  <2> QED BY <2>1, <2>2
<1>2. CASE x.state # "UP"
  <2>0. NoMarks(x)
    BY <1>2 DEF Sound, Marked, NoMarks
  <2>1. \/ y = x
        \/ y \in joined(x)
        \/ x.state = "TRY" /\ y \in Failed(x, "BADPASS") \cup Failed(x, "UNTRIED")
        \/ y \in start_cycle(x, fresh)
    BY <1>0, <1>2 DEF Switch, States
  <2>2. CASE y \in joined(x)
    BY <1>2, <2>2, JoinedSound
  <2>3. CASE x.state = "TRY" /\ y \in Failed(x, "BADPASS") \cup Failed(x, "UNTRIED")
    <3>1. "BADPASS" \in Status \ {"CONNECTED"} /\ "UNTRIED" \in Status \ {"CONNECTED"}
      BY DEF Status
    <3> QED BY <1>2, <2>3, <3>1, FailedSound
  <2>4. CASE y \in start_cycle(x, fresh)
    <3>1. Retried(x, y)
      BY <1>0, <2>4, CycleRetries
    <3> QED BY <1>0, <1>2, <2>0, <3>1, RetriedSound
  <2> QED BY <1>2, <2>1, <2>2, <2>3, <2>4
<1> QED BY <1>1, <1>2

\* wifi_conn_task: a tick keeps the invariant and the marks where they are, and
\* while the console has the scanner the results stay as they are.
LEMMA TaskSound ==
  ASSUME NEW x, Sound(x), NEW decayed, NEW due \in BOOLEAN, NEW fresh \in BOOLEAN,
         NEW y \in wifi_conn_task(x, decayed, due, fresh)
  PROVE  /\ Sound(y) /\ Stays(x, y)
         /\ config_proto_owns_scan(x) =>
              /\ y.g_mode = x.g_mode /\ y.scan_rounds = x.scan_rounds
              /\ y.hearing = x.hearing /\ y.results = x.results
<1> DEFINE st == [i \in Index |->
                    IF i \in decayed \cap 1 .. Len(x.cfg.profiles) /\ x.status[i] = "BADPASS"
                    THEN "UNTRIED" ELSE x.status[i]]
           z == [x EXCEPT !.status = st]
           link == x.radio.phase = "link"
<1>0. x \in Dev
  BY DEF Sound
<1>1. \/ config_proto_owns_scan(x) /\ y = z
      \/ ~config_proto_owns_scan(x)
         /\ \E w \in DriveScan(z) : y \in Switch(w, link, due /\ w.state = x.state, fresh)
  BY DEF wifi_conn_task, Then
<1>2. st \in [Index -> Status] /\ \A i \in Index : st[i] = "CONNECTED" <=> x.status[i] = "CONNECTED"
  BY <1>0, Parts DEF Status
<1> HIDE DEF st
<1>3. z \in Dev
  BY <1>0, <1>2, Zenon DEF Dev
<1>4. z.cfg = x.cfg /\ z.flash = x.flash /\ z.status = st /\ z.state = x.state
      /\ z.creds_unsaved = x.creds_unsaved /\ z.unstored = x.unstored
      /\ z.order = x.order /\ z.trying = x.trying /\ z.g_mode = x.g_mode
      /\ z.scan_rounds = x.scan_rounds /\ z.hearing = x.hearing /\ z.results = x.results
  BY <1>0 DEF Dev
<1> HIDE DEF z
<1>5. Sound(z) /\ (NoMarks(z) <=> NoMarks(x))
  BY <1>2, <1>3, <1>4 DEF Sound, Attempt, Ordered, Marked, Covered, NoMarks
<1>6. CASE config_proto_owns_scan(x) /\ y = z
  BY <1>4, <1>5, <1>6 DEF Stays
<1>7. CASE ~config_proto_owns_scan(x)
           /\ \E w \in DriveScan(z) : y \in Switch(w, link, due /\ w.state = x.state, fresh)
  <2>1. PICK w \in DriveScan(z) : y \in Switch(w, link, due /\ w.state = x.state, fresh)
    BY <1>7
  <2>2. Sound(w) /\ Steady(z, w)
    BY <1>5, DriveScanSound
  <2> DEFINE now == due /\ w.state = x.state
  <2>3. now \in BOOLEAN /\ link \in BOOLEAN /\ y \in Switch(w, link, now, fresh)
    BY <2>1
  <2> HIDE DEF now, link
  <2>4. Sound(y) /\ (w.state = "UP" => y = w \/ NoMarks(y))
    BY <2>2, <2>3, SwitchSound
  <2>5. Stays(x, y)
    <3>1. CASE x.state = "UP"
      BY <1>4, <2>2, <2>4, <3>1 DEF Steady, Stays
    <3>2. CASE x.state # "UP"
      BY <3>2 DEF Sound, Marked, NoMarks, Stays
    <3> QED BY <3>1, <3>2
  <2> QED BY <1>7, <2>4, <2>5
<1> QED BY <1>1, <1>6, <1>7

-----------------------------------------------------------------------------
(* The console.                                                            *)

\* A step that changes nothing of the list moves no mark.
LEMMA SameStays ==
  ASSUME NEW x, NEW y, Sound(x), Same(x, y)
  PROVE  Sound(y) /\ Stays(x, y)
BY SameSound DEF Same, Stays

\* Every command that starts over takes the marks away.
LEMMA ApplyStays ==
  ASSUME NEW x, NEW z \in Dev, Covered(z), NEW y \in wifi_conn_apply(z)
  PROVE  Sound(y) /\ Stays(x, y)
BY ApplySound DEF Stays

\* set ssid and set pass on an entry leave a list.
LEMMA Rewritten ==
  ASSUME NEW c \in Config, NEW i \in DOMAIN c.profiles, NEW s \in Ssid, NEW p \in Password
  PROVE  /\ [c EXCEPT !.profiles[i].ssid = s] \in Config
         /\ [c EXCEPT !.profiles[i].pass = p] \in Config
<1> DEFINE n == Len(c.profiles)
           f == [c.profiles EXCEPT ![i].ssid = s]
           g == [c.profiles EXCEPT ![i].pass = p]
<1>1. /\ c.profiles \in Seq(Profile) /\ n \in Nat /\ n <= CONFIG_PROFILE_MAX
      /\ DOMAIN c.profiles = 1 .. n /\ c.active \in 0 .. n
      /\ c = [profiles |-> c.profiles, active |-> c.active]
  BY Listed
<1>2. \A e \in Profile : [e EXCEPT !.ssid = s] \in Profile /\ [e EXCEPT !.pass = p] \in Profile
  BY DEF Profile
<1>3. c.profiles \in [1 .. n -> Profile] /\ c.profiles[i] \in Profile
  BY <1>1
<1>4. f \in [1 .. n -> Profile] /\ g \in [1 .. n -> Profile]
  BY <1>2, <1>3
<1>5. /\ [c EXCEPT !.profiles[i].ssid = s] = [profiles |-> f, active |-> c.active]
      /\ [c EXCEPT !.profiles[i].pass = p] = [profiles |-> g, active |-> c.active]
  <2>1. /\ [c EXCEPT !.profiles[i].ssid = s] = [c EXCEPT !.profiles = f]
        /\ [c EXCEPT !.profiles[i].pass = p] = [c EXCEPT !.profiles = g]
    OBVIOUS
  <2> HIDE DEF f, g
  <2>2. /\ [c EXCEPT !.profiles = f] = [profiles |-> f, active |-> c.active]
        /\ [c EXCEPT !.profiles = g] = [profiles |-> g, active |-> c.active]
    BY <1>1
  <2> QED BY <2>1, <2>2
<1> HIDE DEF f, g, n
<1>6. f \in Seq(Profile) /\ g \in Seq(Profile) /\ Len(f) = n /\ Len(g) = n
  <2>1. f \in Seq(Profile) /\ Len(f) = n
    BY <1>1, <1>4
  <2>2. g \in Seq(Profile) /\ Len(g) = n
    BY <1>1, <1>4
  <2> QED BY <2>1, <2>2
<1>7. [profiles |-> f, active |-> c.active] \in Config /\ [profiles |-> g, active |-> c.active] \in Config
  BY <1>1, <1>6, Lists
<1> QED BY <1>5, <1>7

\* A command that edits the list.
LEMMA Edited ==
  ASSUME NEW x \in Dev, NEW c \in Config, NEW b \in BOOLEAN
  PROVE  LET z == [x EXCEPT !.cfg = c, !.creds_unsaved = b]
         IN  /\ z \in Dev /\ z.cfg = c /\ z.flash = x.flash /\ z.creds_unsaved = b
             /\ z.unstored = x.unstored /\ z.state = x.state /\ z.order = x.order
             /\ z.trying = x.trying /\ z.status = x.status
<1> DEFINE z == [x EXCEPT !.cfg = c, !.creds_unsaved = b]
<1>1. z \in Dev
  BY Zenon DEF Dev
<1>2. z.cfg = c /\ z.flash = x.flash /\ z.creds_unsaved = b
      /\ z.unstored = x.unstored /\ z.state = x.state /\ z.order = x.order
      /\ z.trying = x.trying /\ z.status = x.status
  BY DEF Dev
<1> QED BY <1>1, <1>2

\* join_ssid: joined at once or staged; a staged profile is last in the list, so
\* the attempt under way and the mark keep their profiles.
LEMMA JoinSsidSound ==
  ASSUME NEW x, Sound(x), NEW s \in Ssid, NEW open \in BOOLEAN, NEW y \in join_ssid(x, s, open)
  PROVE  Sound(y) /\ Stays(x, y)
<1> DEFINE p == config_find_profile(x.cfg, s)
           c == IF p = 0 THEN config_add_profile(x.cfg, s) ELSE x.cfg
           i == IF p = 0 THEN Len(c.profiles) ELSE p
           e == [c EXCEPT !.active = i]
           b == x.creds_unsaved \/ p = 0
           z == [x EXCEPT !.cfg = e, !.creds_unsaved = b]
<1>0. x \in Dev /\ x.cfg \in Config /\ b \in BOOLEAN /\ Covered(x)
  BY Parts DEF Sound
<1>1. y \in wifi_conn_apply(z) \/ y = z
  BY DEF join_ssid
<1>2. p \in 0 .. Len(x.cfg.profiles) /\ Len(x.cfg.profiles) \in Nat
      /\ DOMAIN x.cfg.profiles = 1 .. Len(x.cfg.profiles)
  BY <1>0, Found, Listed
<1> HIDE DEF p
<1>3. /\ c \in Config /\ Len(c.profiles) >= Len(x.cfg.profiles)
      /\ x.cfg.profiles # <<>> => c.profiles # <<>> /\ c.profiles[1] = x.cfg.profiles[1]
      /\ p # 0 => c = x.cfg
  <2>1. CASE p = 0
    <3>1. /\ c = config_add_profile(x.cfg, s) /\ c \in Config
          /\ Len(c.profiles) >= Len(x.cfg.profiles) /\ Len(c.profiles) >= 1
          /\ x.cfg.profiles # <<>> => c.profiles[1] = x.cfg.profiles[1]
      BY <1>0, <2>1, Added
    <3> HIDE DEF c
    <3>2. c.profiles # <<>>
      BY <3>1
    <3> QED BY <2>1, <3>1, <3>2
  <2>2. CASE p # 0
    BY <1>0, <1>2, <2>2
  <2> QED BY <2>1, <2>2
<1> HIDE DEF c
<1>4. Len(c.profiles) \in Nat /\ DOMAIN c.profiles = 1 .. Len(c.profiles)
  BY <1>3, Listed
<1>5. i \in 0 .. Len(c.profiles)
  BY <1>2, <1>3, <1>4
<1> HIDE DEF i
<1>6. e \in Config /\ e.profiles = c.profiles
  BY <1>3, <1>5, Activated
<1> HIDE DEF e, b
<1>7. /\ z \in Dev /\ z.cfg = e /\ z.flash = x.flash /\ z.creds_unsaved = b
      /\ z.unstored = x.unstored /\ z.state = x.state /\ z.order = x.order
      /\ z.trying = x.trying /\ z.status = x.status
  <2>1. z \in Dev
    BY <1>0, <1>6, Zenon DEF Dev
  <2>2. /\ z.cfg = e /\ z.flash = x.flash /\ z.creds_unsaved = b
        /\ z.unstored = x.unstored /\ z.state = x.state /\ z.order = x.order
        /\ z.trying = x.trying /\ z.status = x.status
    BY <1>0 DEF Dev
  <2> QED BY <2>1, <2>2
<1> HIDE DEF z
<1>8. Covered(z)
  <2>1. CASE p = 0
    BY <1>7, <2>1 DEF Covered, b
  <2>2. CASE p # 0
    <3>1. Members(e) = Members(x.cfg)
      BY <1>3, <1>6, <2>2 DEF Members
    <3>2. ~z.creds_unsaved => ~x.creds_unsaved
      BY <1>7 DEF b
    <3> QED BY <1>0, <1>7, <3>1, <3>2 DEF Covered
  <2> QED BY <2>1, <2>2
<1>9. CASE y \in wifi_conn_apply(z)
  BY <1>7, <1>8, <1>9, ApplyStays
<1>10. CASE y = z
  <2>1. Attempt(z)
    <3>1. ASSUME Ordered(x) PROVE Ordered(z)
      <4>1. DOMAIN x.cfg.profiles \in SUBSET DOMAIN c.profiles
        BY <1>2, <1>3, <1>4
      <4>2. x.order \in Seq(DOMAIN x.cfg.profiles)
        BY <3>1 DEF Ordered
      <4> DEFINE q == x.order
                 S == DOMAIN x.cfg.profiles
                 T == DOMAIN c.profiles
      <4> HIDE DEF q, S, T
      <4>3. q \in Seq(T)
        BY <4>1, <4>2, Wider DEF q, S, T
      <4> QED BY <1>6, <1>7, <4>3 DEF Ordered, q, T
    <3> QED BY <1>7, <3>1 DEF Sound, Attempt
  <2>2. Marked(z) /\ Stays(x, z)
    BY <1>3, <1>6, <1>7 DEF Sound, Marked, Stays, NoMarks
  <2> QED BY <1>7, <1>8, <1>10, <2>1, <2>2 DEF Sound
<1> QED BY <1>1, <1>9, <1>10

\* set ssid, which renames the active profile or makes a new one.
LEMMA SetSsidSound ==
  ASSUME NEW x, Sound(x), NEW s \in Ssid, NEW y \in SetSsid(x, s)
  PROVE  Sound(y) /\ Stays(x, y)
<1> DEFINE a == config_add_profile(x.cfg, s)
           c == IF HasActive(x.cfg) THEN [x.cfg EXCEPT !.profiles[x.cfg.active].ssid = s]
                ELSE [a EXCEPT !.active = Len(a.profiles)]
           z == [x EXCEPT !.cfg = c, !.creds_unsaved = TRUE]
<1>0. x \in Dev /\ x.cfg \in Config
  BY Parts DEF Sound
<1>1. c \in Config
  <2>1. CASE HasActive(x.cfg)
    <3>1. x.cfg.active \in DOMAIN x.cfg.profiles
      BY <1>0, <2>1, Listed DEF HasActive
    <3>2. NoPass \in Password
      BY ProfileBounds
    <3>3. [x.cfg EXCEPT !.profiles[x.cfg.active].ssid = s] \in Config
      BY <1>0, <3>1, <3>2, Rewritten
    <3> QED BY <2>1, <3>3
  <2>2. CASE ~HasActive(x.cfg)
    <3>1. a \in Config
      BY <1>0, Added
    <3> HIDE DEF a
    <3>2. Len(a.profiles) \in 0 .. Len(a.profiles)
      BY <3>1, Listed
    <3>3. [a EXCEPT !.active = Len(a.profiles)] \in Config
      BY <3>1, <3>2, Activated
    <3> QED BY <2>2, <3>3
  <2> QED BY <2>1, <2>2
<1>2. y \in wifi_conn_apply(z)
  BY DEF SetSsid
<1> HIDE DEF c
<1>3. z \in Dev /\ z.creds_unsaved = TRUE
  BY <1>0, <1>1, Edited
<1> HIDE DEF z
<1> QED BY <1>2, <1>3, ApplyStays DEF Covered

\* set pass, which does nothing without an active profile.
LEMMA SetPassSound ==
  ASSUME NEW x, Sound(x), NEW p \in Password, NEW y \in SetPass(x, p)
  PROVE  Sound(y) /\ Stays(x, y)
<1> DEFINE c == [x.cfg EXCEPT !.profiles[x.cfg.active].pass = p]
           z == [x EXCEPT !.cfg = c, !.creds_unsaved = TRUE]
<1>0. x \in Dev /\ x.cfg \in Config
  BY Parts DEF Sound
<1>1. CASE ~HasActive(x.cfg)
  <2>1. y = x
    BY <1>1 DEF SetPass
  <2> QED BY <2>1 DEF Stays
<1>2. CASE HasActive(x.cfg)
  <2>1. c \in Config
    <3>1. x.cfg.active \in DOMAIN x.cfg.profiles
      BY <1>0, <1>2, Listed DEF HasActive
    <3>2. PICK s \in Ssid : TRUE
      <4>1. x.cfg.profiles[x.cfg.active] \in Profile
        BY <1>0, <3>1, Listed
      <4> QED BY <4>1 DEF Profile
    <3> QED BY <1>0, <3>1, <3>2, Rewritten
  <2>2. y \in wifi_conn_apply([x EXCEPT !.cfg.profiles[x.cfg.active].pass = p,
                                        !.creds_unsaved = TRUE])
    BY <1>2 DEF SetPass
  <2>3. y \in wifi_conn_apply(z)
    BY <2>2
  <2> HIDE DEF c
  <2>4. z \in Dev /\ z.creds_unsaved = TRUE
    BY <1>0, <2>1, Edited
  <2> HIDE DEF z
  <2> QED BY <2>3, <2>4, ApplyStays DEF Covered
<1> QED BY <1>1, <1>2

\* use and del: what is left of the list was there before.
LEMMA UseDelSound ==
  ASSUME NEW x, Sound(x), NEW i \in 1 .. Len(x.cfg.profiles), NEW y \in Use(x, i) \cup Del(x, i)
  PROVE  Sound(y) /\ Stays(x, y)
<1>0. x \in Dev /\ x.cfg \in Config /\ Covered(x) /\ x.creds_unsaved \in BOOLEAN
  BY Parts DEF Sound
<1>1. i \in DOMAIN x.cfg.profiles /\ i \in 0 .. Len(x.cfg.profiles)
  BY <1>0, Listed
<1>2. ASSUME NEW c \in Config, Members(c) \subseteq Members(x.cfg),
             y \in wifi_conn_apply([x EXCEPT !.cfg = c])
      PROVE  Sound(y) /\ Stays(x, y)
  <2> DEFINE z == [x EXCEPT !.cfg = c]
  <2>1. z \in Dev
    BY <1>0, Zenon DEF Dev
  <2>2. z.cfg = c /\ z.flash = x.flash /\ z.creds_unsaved = x.creds_unsaved /\ z.unstored = x.unstored
    BY <1>0 DEF Dev
  <2>3. y \in wifi_conn_apply(z)
    BY <1>2
  <2> HIDE DEF z
  <2>4. Covered(z)
    BY <1>0, <1>2, <2>2 DEF Covered
  <2> QED BY <2>1, <2>3, <2>4, ApplyStays
<1>3. CASE y \in Use(x, i)
  <2> DEFINE c == [x.cfg EXCEPT !.active = i]
  <2>1. c \in Config /\ c.profiles = x.cfg.profiles
    BY <1>0, <1>1, Activated
  <2>2. y \in wifi_conn_apply([x EXCEPT !.cfg = c])
    BY <1>3 DEF Use
  <2> HIDE DEF c
  <2> QED BY <1>2, <2>1, <2>2 DEF Members
<1>4. CASE y \in Del(x, i)
  <2> DEFINE c == config_del_profile(x.cfg, i)
  <2>1. c \in Config /\ Members(c) \subseteq Members(x.cfg)
    BY <1>0, <1>1, Deleted
  <2>2. y \in wifi_conn_apply([x EXCEPT !.cfg = c])
    BY <1>4 DEF Del
  <2> HIDE DEF c
  <2> QED BY <1>2, <2>1, <2>2
<1> QED BY <1>3, <1>4

\* save, whether flash takes it or not.
LEMMA SaveSound ==
  ASSUME NEW x, Sound(x), NEW y \in Save(x)
  PROVE  Sound(y) /\ Stays(x, y)
<1>0. x \in Dev
  BY DEF Sound
<1>1. CASE y = [Stores(x) EXCEPT !.creds_unsaved = FALSE]
  BY <1>1, StoredSound DEF Stays
<1>2. CASE y \in Counted(x)
  BY <1>0, <1>2, CountedSame, SameStays
<1> QED BY <1>1, <1>2 DEF Save

\* restore: the running list is the stored one.
LEMMA RestoreSound ==
  ASSUME NEW x, Sound(x), NEW y \in Restore(x)
  PROVE  Sound(y) /\ Stays(x, y)
<1> DEFINE z == [x EXCEPT !.cfg = x.flash, !.creds_unsaved = FALSE, !.unstored = FALSE]
<1>0. x \in Dev /\ x.flash \in Config
  BY Parts DEF Sound
<1>1. z \in Dev
  BY <1>0, Zenon DEF Dev
<1>2. z.cfg = x.flash /\ z.flash = x.flash
  BY <1>0 DEF Dev
<1>3. y \in wifi_conn_apply(z)
  BY DEF Restore
<1> HIDE DEF z
<1>4. Covered(z)
  BY <1>2 DEF Covered
<1> QED BY <1>1, <1>3, <1>4, ApplyStays

\* Where the console is matters to the list it shows only.
LEMMA ModeSame ==
  ASSUME NEW x \in Dev, NEW g \in Modes, NEW r \in Rounds
  PROVE  /\ Same(x, [x EXCEPT !.g_mode = g]) /\ Same(x, [x EXCEPT !.scan_rounds = r])
         /\ Same(x, [x EXCEPT !.g_mode = g, !.scan_rounds = r])
         /\ Same(x, [x EXCEPT !.scan_rounds = r, !.g_mode = g])
<1> DEFINE u == [x EXCEPT !.g_mode = g]
           v == [x EXCEPT !.scan_rounds = r]
           w == [x EXCEPT !.g_mode = g, !.scan_rounds = r]
           t == [x EXCEPT !.scan_rounds = r, !.g_mode = g]
<1>1. u \in Dev /\ v \in Dev
  BY Zenon DEF Dev
<1>2. w \in Dev /\ t \in Dev
  BY Zenon DEF Dev
<1>3. Same(x, u) /\ Same(x, v)
  BY <1>1 DEF Same, Dev
<1>4. Same(x, w) /\ Same(x, t)
  BY <1>2 DEF Same, Dev
<1> QED BY <1>3, <1>4

\* The menus, and the ends of the range of the passes left.
LEMMA InRanges ==
  /\ "MAIN" \in Modes /\ "SCAN" \in Modes /\ "CONTSCAN" \in Modes
  /\ 0 \in Rounds /\ SCAN_PASSES \in Rounds
<1>1. SCAN_PASSES \in Nat
  BY WifiBounds
<1> QED BY <1>1 DEF Modes, Rounds

\* A console scan, one after the other or live, refused or not.
LEMMA ScanStarts ==
  ASSUME NEW x, Sound(x), NEW y \in start_scan(x) \cup Live(x)
  PROVE  Sound(y) /\ Stays(x, y)
<1>0. x \in Dev
  BY DEF Sound
<1>1. CASE y \in start_scan(x)
  <2> DEFINE w == wifi_scan_start(x)
  <2>1. y = [w EXCEPT !.g_mode = "SCAN", !.scan_rounds = SCAN_PASSES] \/ y \in ScanRefused(x)
    BY <1>1 DEF start_scan
  <2>2. Same(x, w)
    BY <1>0, StartSame
  <2> HIDE DEF w
  <2>3. w \in Dev
    BY <2>2 DEF Same
  <2>4. Same(w, [w EXCEPT !.g_mode = "SCAN", !.scan_rounds = SCAN_PASSES])
    BY <2>3, InRanges, ModeSame
  <2>5. Same(x, y)
    BY <1>0, <2>1, <2>2, <2>4, SameTrans, RefusedSame
  <2> QED BY <2>5, SameStays
<1>2. CASE y \in Live(x)
  <2> DEFINE z == [x EXCEPT !.radio = Off]
             w == wifi_scan_start(z)
  <2>1. y = [w EXCEPT !.g_mode = "CONTSCAN"] \/ y \in ScanRefused(z)
    BY <1>2 DEF Live
  <2>2. z \in Dev
    BY <1>0, OffIn, Zenon DEF Dev
  <2>3. Same(x, z)
    BY <1>0, <2>2 DEF Same, Dev
  <2> HIDE DEF z
  <2>4. Same(z, w)
    BY <2>2, StartSame
  <2> HIDE DEF w
  <2>5. w \in Dev
    BY <2>4 DEF Same
  <2>6. Same(w, [w EXCEPT !.g_mode = "CONTSCAN"])
    BY <2>5, InRanges, ModeSame
  <2>7. Same(z, y)
    BY <2>1, <2>2, <2>4, <2>6, SameTrans, RefusedSame
  <2>8. Same(x, y)
    BY <2>3, <2>7, SameTrans
  <2> QED BY <2>8, SameStays
<1> QED BY <1>1, <1>2

\* A line of the main menu.
LEMMA MainSound ==
  ASSUME NEW x, Sound(x), NEW y \in handle_main(x)
  PROVE  Sound(y) /\ Stays(x, y)
<1>0. x \in Dev /\ Covered(x)
  BY DEF Sound
<1>1. Named \subseteq Ssid /\ Typed \subseteq Password
  BY WifiBounds
<1>2. \/ \E s \in Named : y \in SetSsid(x, s)
      \/ \E p \in Typed : y \in SetPass(x, p)
      \/ \E s \in Named : y \in join_ssid(x, s, SeenOpen(x, s))
      \/ \E i \in 1 .. Len(x.cfg.profiles) : y \in Use(x, i) \cup Del(x, i)
      \/ y \in wifi_conn_apply(x) \/ y \in start_scan(x) \/ y \in Save(x) \/ y \in Restore(x)
  <2> DEFINE A == UNION {SetSsid(x, s) : s \in Named}
             B == UNION {SetPass(x, p) : p \in Typed}
             C == UNION {join_ssid(x, s, SeenOpen(x, s)) : s \in Named}
             D == UNION {Use(x, i) \cup Del(x, i) : i \in 1 .. Len(x.cfg.profiles)}
  <2>1. handle_main(x) = A \cup B \cup C \cup D \cup wifi_conn_apply(x) \cup start_scan(x)
                           \cup Save(x) \cup Restore(x)
    BY Zenon DEF handle_main
  <2>2. (y \in A => \E s \in Named : y \in SetSsid(x, s))
        /\ (y \in B => \E p \in Typed : y \in SetPass(x, p))
    OBVIOUS
  <2>3. y \in C => \E s \in Named : y \in join_ssid(x, s, SeenOpen(x, s))
    OBVIOUS
  <2>4. y \in D => \E i \in 1 .. Len(x.cfg.profiles) : y \in Use(x, i) \cup Del(x, i)
    OBVIOUS
  <2> HIDE DEF A, B, C, D
  <2> QED BY <2>1, <2>2, <2>3, <2>4
<1>3. CASE \E s \in Named : y \in SetSsid(x, s)
  BY <1>1, <1>3, SetSsidSound
<1>4. CASE \E p \in Typed : y \in SetPass(x, p)
  BY <1>1, <1>4, SetPassSound
<1>5. CASE \E s \in Named : y \in join_ssid(x, s, SeenOpen(x, s))
  <2>1. PICK s \in Named : y \in join_ssid(x, s, SeenOpen(x, s))
    BY <1>5
  <2>2. SeenOpen(x, s) \in BOOLEAN
    BY DEF SeenOpen
  <2> QED BY <1>1, <2>1, <2>2, JoinSsidSound
<1>6. CASE \E i \in 1 .. Len(x.cfg.profiles) : y \in Use(x, i) \cup Del(x, i)
  BY <1>6, UseDelSound
<1>7. CASE y \in wifi_conn_apply(x)
  BY <1>0, <1>7, ApplyStays
<1>8. CASE y \in start_scan(x)
  BY <1>8, ScanStarts
<1>9. CASE y \in Save(x) \/ y \in Restore(x)
  BY <1>9, SaveSound, RestoreSound
<1> QED BY <1>2, <1>3, <1>4, <1>5, <1>6, <1>7, <1>8, <1>9

\* A line of the scan menu: the nth result names a network that was heard.
LEMMA MenuSound ==
  ASSUME NEW x, Sound(x), NEW y \in handle_scan(x)
  PROVE  Sound(y) /\ Stays(x, y)
<1>1. \/ y \in start_scan(x) \cup Live(x)
      \/ \E n \in DOMAIN x.results : y \in JoinNth(x, n)
  BY DEF handle_scan
<1>2. CASE y \in start_scan(x) \cup Live(x)
  BY <1>2, ScanStarts
<1>3. CASE \E n \in DOMAIN x.results : y \in JoinNth(x, n)
  <2>1. PICK n \in DOMAIN x.results : y \in JoinNth(x, n)
    BY <1>3
  <2> DEFINE s == x.results[n].ssid
             open == Networks[s].pass = NoPass
             z == [x EXCEPT !.g_mode = "MAIN"]
  <2>2. x \in Dev /\ x.results \in Seq(Heard)
    BY Parts DEF Sound, Results
  <2>3. s \in Ssid
    <3>1. x.results[n] \in Heard
      BY <2>1, <2>2
    <3> QED BY <3>1, WifiBounds DEF Heard
  <2>4. y \in join_ssid(z, s, open)
    BY <2>1 DEF JoinNth
  <2>5. Same(x, z)
    BY <2>2, InRanges, ModeSame
  <2>6. open \in BOOLEAN
    OBVIOUS
  <2> HIDE DEF z, s, open
  <2>7. Sound(z)
    BY <2>5, SameSound
  <2>8. Sound(y) /\ Stays(z, y)
    BY <2>3, <2>4, <2>6, <2>7, JoinSsidSound
  <2> QED BY <2>5, <2>8 DEF Same, Stays, NoMarks
<1> QED BY <1>1, <1>2, <1>3

\* config_proto_reset touches the scanner and the console only,
LEMMA ResetSame ==
  ASSUME NEW x \in Dev
  PROVE  Same(x, config_proto_reset(x))
<1> DEFINE z == IF x.scan_rounds > 0 \/ x.g_mode = "CONTSCAN" THEN wifi_scan_stop(x) ELSE x
<1>1. Same(x, z)
  BY PollSame DEF Same
<1>2. config_proto_reset(x) = [z EXCEPT !.g_mode = "MAIN", !.scan_rounds = 0]
  BY DEF config_proto_reset
<1> HIDE DEF z
<1>3. z \in Dev
  BY <1>1 DEF Same
<1>4. Same(z, [z EXCEPT !.g_mode = "MAIN", !.scan_rounds = 0])
  BY <1>3, InRanges, ModeSame
<1> QED BY <1>1, <1>2, <1>4, SameTrans

\* and config_proto_poll too; the passes left are never fewer than none.
LEMMA ProtoPollSame ==
  ASSUME NEW x \in Dev, x.scan_rounds > 0 \/ x.g_mode = "CONTSCAN", NEW y \in config_proto_poll(x)
  PROVE  Same(x, y)
<1> DEFINE w == wifi_scan_poll(x)
           r == IF x.scanning /\ ~w.scanning THEN w.scan_rounds - 1 ELSE w.scan_rounds
           z == [w EXCEPT !.scan_rounds = r]
<1>1. Same(x, w) /\ w.scan_rounds = x.scan_rounds
  BY PollSame DEF wifi_scan_poll, Dev
<1>2. \/ x.g_mode = "CONTSCAN" /\ (y = w \/ y = wifi_scan_start(w) \/ y \in ScanRefused(w))
      \/ x.g_mode # "CONTSCAN" /\ (y = z \/ y = wifi_scan_again(z) \/ y \in AgainRefused(z))
  BY DEF config_proto_poll
<1> HIDE DEF w
<1>3. w \in Dev /\ x.scan_rounds \in Rounds
  BY <1>1, Parts DEF Same
<1>4. CASE x.g_mode = "CONTSCAN"
  <2>1. y = w \/ Same(w, y)
    BY <1>2, <1>3, <1>4, StartSame, RefusedSame
  <2> QED BY <1>1, <2>1, SameTrans
<1>5. CASE x.g_mode # "CONTSCAN"
  <2>1. r \in Rounds
    <3>1. SCAN_PASSES \in Nat /\ x.scan_rounds > 0
      BY <1>5, WifiBounds
    <3> QED BY <1>1, <1>3, <3>1 DEF Rounds
  <2>2. y = z \/ y = wifi_scan_again(z) \/ y \in AgainRefused(z)
    BY <1>2, <1>5
  <2> HIDE DEF r
  <2>3. Same(w, z)
    BY <1>3, <2>1, InRanges, ModeSame
  <2> HIDE DEF z
  <2>4. z \in Dev /\ Same(x, z)
    BY <1>1, <2>3, SameTrans DEF Same
  <2>5. y = z \/ Same(z, y)
    BY <2>2, <2>4, RunningSame, RefusedSame
  <2> QED BY <2>4, <2>5, SameTrans
<1> QED BY <1>4, <1>5

-----------------------------------------------------------------------------
(* The radio, and the step.                                                *)

\* What a list on the screen shows has not changed.
Screen(x, y) ==
  /\ y.g_mode = x.g_mode /\ y.scan_rounds = x.scan_rounds
  /\ y.hearing = x.hearing /\ y.results = x.results

\* What the radio does leaves list and screen alone,
LEMMA RadioSame ==
  ASSUME NEW x \in Dev, NEW r \in Radios
  PROVE  Same(x, [x EXCEPT !.radio = r]) /\ Screen(x, [x EXCEPT !.radio = r])
<1> DEFINE y == [x EXCEPT !.radio = r]
<1>1. y \in Dev
  BY Zenon DEF Dev
<1>2. Same(x, y) /\ Screen(x, y)
  BY <1>1 DEF Same, Screen, Dev
<1> QED BY <1>2

\* and so does an event that is counted.
LEMMA CountedScreen ==
  ASSUME NEW x \in Dev, NEW y \in Counted(x)
  PROVE  Same(x, y) /\ Screen(x, y)
<1>1. Same(x, y) /\ y = [x EXCEPT !.events = @ + 1]
  BY CountedSame
<1>2. Screen(x, y)
  BY <1>1 DEF Screen, Dev
<1> QED BY <1>1, <1>2

\* However full the table is, a beacon leaves a table.
LEMMA HeardIn ==
  ASSUME NEW res \in Results, NEW e \in Heard
  PROVE  scan_cb(res, e) \in Results
<1> DEFINE n == Len(res)
           same == {i \in DOMAIN res : res[i].ssid = e.ssid}
           weak == CHOOSE i \in DOMAIN res : \A j \in DOMAIN res :
                     res[i].rssi < res[j].rssi \/ (res[i].rssi = res[j].rssi /\ i <= j)
           f == [i \in DOMAIN res |-> IF i \in same /\ e.rssi > res[i].rssi THEN e ELSE res[i]]
           g == [res EXCEPT ![weak] = e]
<1>1. res \in Seq(Heard) /\ n \in Nat /\ n <= WIFI_SCAN_MAX /\ DOMAIN res = 1 .. n
      /\ res \in [1 .. n -> Heard] /\ WIFI_SCAN_MAX \in Nat
  BY WifiBounds DEF Results
<1>2. \/ scan_cb(res, e) = f
      \/ n < WIFI_SCAN_MAX /\ scan_cb(res, e) = Append(res, e)
      \/ scan_cb(res, e) = g
      \/ scan_cb(res, e) = res
  <2> DEFINE r == scan_cb(res, e)
  <2>1. r = IF same # {} THEN f
            ELSE IF n < WIFI_SCAN_MAX THEN Append(res, e)
            ELSE IF e.rssi > res[weak].rssi THEN g ELSE res
    BY DEF scan_cb
  <2> HIDE DEF r, same, f, g, weak, n
  <2> QED BY <2>1 DEF r
<1> HIDE DEF n, same
<1>3. f \in [1 .. n -> Heard]
  BY <1>1
<1> HIDE DEF f, weak
<1>4. g \in [1 .. n -> Heard]
  BY <1>1
<1> HIDE DEF g
<1>5. f \in Results
  BY <1>1, <1>3 DEF Results
<1>6. g \in Results
  BY <1>1, <1>4 DEF Results
<1>7. n < WIFI_SCAN_MAX => Append(res, e) \in Results
  <2>1. Append(res, e) \in Seq(Heard) /\ Len(Append(res, e)) = n + 1
    BY <1>1 DEF n
  <2> QED BY <1>1, <2>1 DEF Results
<1> QED BY <1>2, <1>5, <1>6, <1>7

\* wifi_conn_init, from any configuration that flash may hold.
LEMMA BootedSound ==
  ASSUME NEW f \in Config, NEW y \in Booted(f)
  PROVE  Sound(y)
<1> DEFINE x == [cfg |-> f, flash |-> f, creds_unsaved |-> FALSE, unstored |-> FALSE,
                 state |-> "WAIT", order |-> <<>>, trying |-> 1, rr_unseen |-> 0,
                 fast_tries |-> 0, passes |-> 0, scan_ever |-> FALSE, requested |-> FALSE,
                 status |-> [i \in Index |-> "UNTRIED"],
                 scanning |-> FALSE, hearing |-> FALSE, results |-> <<>>,
                 g_mode |-> "MAIN", scan_rounds |-> 0, radio |-> Off, events |-> 0]
           z == [x EXCEPT !.state = "IDLE"]
<1>1. "WAIT" \in States /\ "IDLE" \in States /\ <<>> \in Seq(Nat) /\ 1 \in Nat \ {0} /\ 0 \in Nat
      /\ [i \in Index |-> "UNTRIED"] \in [Index -> Status] /\ <<>> \in Results
  BY WifiBounds DEF States, Status, Results
<1>2. x \in Dev
  BY <1>1, InRanges, OffIn, Zenon DEF Dev
<1>3. x.cfg = f /\ x.flash = f /\ x.state = "WAIT" /\ x.status = [i \in Index |-> "UNTRIED"]
  OBVIOUS
<1>4. y = x \/ y = z \/ (HasActive(f) /\ y \in Pin(x))
  BY DEF Booted
<1> HIDE DEF x
<1>5. NoMarks(x) /\ Covered(x)
  BY <1>3 DEF NoMarks, Covered
<1>6. Retried(x, x)
  BY <1>2, <1>3 DEF Retried, Attempt
<1>7. Retried(x, z)
  <2>1. z \in Dev
    BY <1>1, <1>2, Zenon DEF Dev
  <2> QED BY <1>2, <2>1 DEF Retried, Attempt, Dev
<1> HIDE DEF z
<1>8. HasActive(f) /\ y \in Pin(x) => Retried(x, y)
  BY <1>2, <1>3, PinRetries
<1> QED BY <1>4, <1>5, <1>6, <1>7, <1>8, RetriedSound

\* A list as it is printed is one to choose from.
LEMMA ListChosen ==
  ASSUME shown' = ListOf(d')
  PROVE  Chosen'
BY DEF ListOf, Chosen

\* Every step keeps the invariant and the marks where they are.
LEMMA StepSound ==
  ASSUME WifiInv, Next
  PROVE  WifiInv' /\ Stays(d, d')
<1>0. Sound(d) /\ d \in Dev /\ Chosen
  BY DEF WifiInv, Sound
<1>s. ASSUME Same(d, d') PROVE Sound(d') /\ Stays(d, d')
  BY <1>0, <1>s, SameStays
<1>c. ASSUME Screen(d, d'), shown' = shown PROVE Chosen'
  BY <1>0, <1>c DEF Screen, Chosen
<1>r. ASSUME NEW r \in Radios PROVE Same(d, [d EXCEPT !.radio = r]) /\ Screen(d, [d EXCEPT !.radio = r])
  BY <1>0, RadioSame
<1>p. ASSUME NEW ph \in Phases
      PROVE  /\ [d.radio EXCEPT !.phase = ph] \in Radios
             /\ [d EXCEPT !.radio.phase = ph] = [d EXCEPT !.radio = [d.radio EXCEPT !.phase = ph]]
  <2>1. d.radio \in Radios
    BY <1>0, Parts
  <2> QED BY <2>1 DEF Radios
<1>q. ASSUME NEW z, Same(d, z), Screen(d, z), d' \in Counted(z), shown' = shown
      PROVE  WifiInv' /\ Stays(d, d')
  <2>1. z \in Dev
    BY <1>q DEF Same
  <2>2. Same(z, d') /\ Screen(z, d')
    BY <1>q, <2>1, CountedScreen
  <2>3. Same(d, d') /\ Screen(d, d')
    BY <1>q, <2>2, SameTrans DEF Screen
  <2> QED BY <1>s, <1>c, <1>q, <2>3 DEF WifiInv
<1>1. ASSUME NEW decayed \in SUBSET Refused, NEW due \in BOOLEAN, NEW fresh \in BOOLEAN,
             Tick(decayed, due, fresh)
      PROVE  WifiInv' /\ Stays(d, d')
  <2>1. Sound(d') /\ Stays(d, d') /\ (config_proto_owns_scan(d) => Screen(d, d'))
    BY <1>0, <1>1, TaskSound DEF Tick, Screen
  <2>2. shown' = shown
    BY <1>1 DEF Tick
  <2>3. Chosen'
    <3>1. CASE config_proto_owns_scan(d)
      BY <1>c, <2>1, <2>2, <3>1
    <3>2. CASE ~config_proto_owns_scan(d)
      BY <1>0, <2>2, <3>2 DEF config_proto_owns_scan, Chosen
    <3> QED BY <3>1, <3>2
  <2> QED BY <2>1, <2>3 DEF WifiInv
<1>2. CASE wifi_conn_request_scan
  <2> DEFINE z == [d EXCEPT !.requested = TRUE]
  <2>1. z \in Dev
    BY <1>0, Zenon DEF Dev
  <2>2. Same(d, z) /\ Screen(d, z)
    BY <1>0, <2>1 DEF Same, Screen, Dev
  <2>3. d' \in Counted(z) /\ shown' = shown
    BY <1>2 DEF wifi_conn_request_scan
  <2> HIDE DEF z
  <2> QED BY <1>q, <2>2, <2>3
<1>3. CASE config_proto_handle_line
  <2>1. PICK x \in Counted(d) : d' \in IF x.g_mode = "SCAN" THEN handle_scan(x) ELSE handle_main(x)
    BY <1>3 DEF config_proto_handle_line
  <2>2. Same(d, x)
    BY <1>0, CountedSame
  <2>3. Sound(x)
    BY <1>0, <2>2, SameSound
  <2>4. Sound(d') /\ Stays(x, d')
    BY <2>1, <2>3, MenuSound, MainSound
  <2>5. Stays(d, d')
    BY <2>2, <2>4 DEF Same, Stays, NoMarks
  <2>6. Chosen'
    BY <1>3 DEF config_proto_handle_line, Chosen
  <2> QED BY <2>4, <2>5, <2>6 DEF WifiInv
<1>4. CASE Back
  <2>1. CASE d' = [d EXCEPT !.g_mode = "MAIN"] /\ shown' = <<>>
    <3>1. Same(d, [d EXCEPT !.g_mode = "MAIN"])
      BY <1>0, InRanges, ModeSame
    <3>2. Same(d, d')
      BY <2>1, <3>1
    <3>3. Chosen'
      BY <2>1 DEF Chosen
    <3> QED BY <1>s, <3>2, <3>3 DEF WifiInv
  <2>2. CASE d' = d /\ shown' = ListOf(d)
    <3>1. shown' = ListOf(d')
      BY <2>2
    <3>2. Same(d, d')
      BY <1>0, <2>2 DEF Same
    <3> QED BY <1>s, <3>1, <3>2, ListChosen DEF WifiInv
  <2> QED BY <1>4, <2>1, <2>2 DEF Back
<1>5. CASE Terminal
  <2>1. Same(d, d')
    BY <1>0, <1>5, ResetSame DEF Terminal
  <2>2. Chosen'
    BY <1>5 DEF Terminal, Chosen
  <2> QED BY <1>s, <2>1, <2>2 DEF WifiInv
<1>6. CASE Poll
  <2>1. Same(d, d')
    BY <1>0, <1>6, ProtoPollSame DEF Poll
  <2>2. shown' = ListOf(d')
    BY <1>6 DEF Poll
  <2> QED BY <1>s, <2>1, <2>2, ListChosen DEF WifiInv
<1>7. CASE config_proto_contscan_stop
  <2> DEFINE w == wifi_scan_stop(d)
  <2>1. Same(d, w)
    BY <1>0, PollSame
  <2>2. d' = [w EXCEPT !.scan_rounds = 0, !.g_mode = "SCAN"] /\ shown' = ListOf(d')
    BY <1>7 DEF config_proto_contscan_stop
  <2> HIDE DEF w
  <2>3. Same(w, d')
    <3>1. w \in Dev
      BY <2>1 DEF Same
    <3>2. Same(w, [w EXCEPT !.scan_rounds = 0, !.g_mode = "SCAN"])
      BY <3>1, InRanges, ModeSame
    <3> QED BY <2>2, <3>2
  <2>4. Same(d, d')
    BY <2>1, <2>3, SameTrans
  <2> QED BY <1>s, <2>2, <2>4, ListChosen DEF WifiInv
<1>8. CASE RadioJoins \/ RadioFails
  <2>1. PICK ph \in Phases : d' = [d EXCEPT !.radio.phase = ph] /\ shown' = shown
    BY <1>8 DEF RadioJoins, RadioFails, RadioIs, Phases
  <2>2. Same(d, d') /\ Screen(d, d')
    BY <1>r, <1>p, <2>1
  <2> QED BY <1>s, <1>c, <2>1, <2>2 DEF WifiInv
<1>9. CASE RadioFaults
  <2>1. shown' = shown
    BY <1>9 DEF RadioFaults
  <2>2. \/ \E ph \in Phases : d' \in Counted([d EXCEPT !.radio.phase = ph])
        \/ d' \in Counted([d EXCEPT !.radio = Off])
    BY <1>9 DEF RadioFaults, Phases
  <2>3. CASE \E ph \in Phases : d' \in Counted([d EXCEPT !.radio.phase = ph])
    <3>1. PICK ph \in Phases : d' \in Counted([d EXCEPT !.radio.phase = ph])
      BY <2>3
    <3> DEFINE z == [d EXCEPT !.radio.phase = ph]
    <3>2. Same(d, z) /\ Screen(d, z)
      BY <1>r, <1>p
    <3>3. d' \in Counted(z)
      BY <3>1
    <3> HIDE DEF z
    <3> QED BY <1>q, <2>1, <3>2, <3>3
  <2>4. CASE d' \in Counted([d EXCEPT !.radio = Off])
    <3> DEFINE z == [d EXCEPT !.radio = Off]
    <3>1. Same(d, z) /\ Screen(d, z)
      BY <1>r, OffIn
    <3>2. d' \in Counted(z)
      BY <2>4
    <3> HIDE DEF z
    <3> QED BY <1>q, <2>1, <3>1, <3>2
  <2> QED BY <2>2, <2>3, <2>4
<1>10. ASSUME NEW s \in DOMAIN Networks, Hears(s)
       PROVE  WifiInv' /\ Stays(d, d')
  <2>1. PICK r \in Networks[s].rssi :
          d' = [d EXCEPT !.results = scan_cb(d.results, [ssid |-> s, rssi |-> r])]
    BY <1>10 DEF Hears
  <2> DEFINE res == scan_cb(d.results, [ssid |-> s, rssi |-> r])
  <2>2. res \in Results
    <3>1. r \in Nat
      BY WifiBounds
    <3>2. [ssid |-> s, rssi |-> r] \in Heard
      BY <3>1 DEF Heard
    <3> QED BY <1>0, <3>2, Parts, HeardIn
  <2>3. d' = [d EXCEPT !.results = res]
    BY <2>1
  <2> HIDE DEF res
  <2>4. d' \in Dev
    BY <1>0, <2>2, <2>3, Zenon DEF Dev
  <2>5. Same(d, d')
    BY <1>0, <2>3, <2>4 DEF Same, Dev
  <2>6. Chosen'
    BY <1>0, <1>10 DEF Hears, Chosen
  <2> QED BY <1>s, <2>5, <2>6 DEF WifiInv
<1>11. CASE PassEnds
  <2>1. d' = [d EXCEPT !.hearing = FALSE]
    BY <1>11 DEF PassEnds
  <2>2. d' \in Dev
    BY <1>0, <2>1, Zenon DEF Dev
  <2>3. Same(d, d')
    BY <1>0, <2>1, <2>2 DEF Same, Dev
  <2>4. Chosen'
    BY <1>0, <1>11 DEF PassEnds, Chosen
  <2> QED BY <1>s, <2>3, <2>4 DEF WifiInv
<1> QED
  BY <1>1, <1>2, <1>3, <1>4, <1>5, <1>6, <1>7, <1>8, <1>9, <1>10, <1>11 DEF Next

-----------------------------------------------------------------------------
(* The theorems.                                                           *)

\* The invariant holds in every state of the device, whatever networks, lists,
\* passwords and bounds it is given (wifi_conn.c, config_proto.c, config.c).
THEOREM AlwaysSound == Spec => []WifiInv
<1>1. Init => WifiInv
  <2> SUFFICES ASSUME Init PROVE WifiInv
    OBVIOUS
  <2>1. PICK f \in Stored : d \in Booted(f)
    BY DEF Init
  <2>2. f \in Config
    BY WifiBounds
  <2>3. Sound(d)
    BY <2>1, <2>2, BootedSound
  <2>4. Chosen
    BY DEF Init, Chosen
  <2> QED BY <2>3, <2>4 DEF WifiInv
<1>2. WifiInv /\ [Next]_vars => WifiInv'
  <2>1. ASSUME WifiInv, UNCHANGED vars PROVE WifiInv'
    BY <2>1 DEF WifiInv, Chosen, vars
  <2> QED BY <2>1, StepSound
<1> QED BY <1>1, <1>2, PTL DEF Spec

\* Every attempt is on a profile that exists, whatever the console and the portal
\* do to the list meanwhile; the scan table never overflows (wifi_conn.c try_from,
\* build_and_try and joined, wifi_scan.c scan_cb).
THEOREM TypeCorrect == Spec => []TypeOK
<1>1. WifiInv => TypeOK
  <2> SUFFICES ASSUME WifiInv PROVE TypeOK
    OBVIOUS
  <2>1. Sound(d) /\ d \in Dev
    BY DEF WifiInv, Sound
  <2>2. /\ d.cfg \in Config /\ d.state \in States /\ d.status \in [Index -> Status]
        /\ d.results \in Results /\ d.scan_rounds \in Rounds
    BY <2>1, Parts
  <2>3. d.state = "TRY" =>
          /\ d.order # <<>> /\ d.trying = d.order[1]
          /\ \A k \in DOMAIN d.order : d.order[k] \in DOMAIN d.cfg.profiles
    <3> SUFFICES ASSUME d.state = "TRY"
                 PROVE  /\ d.order # <<>> /\ d.trying = d.order[1]
                        /\ \A k \in DOMAIN d.order : d.order[k] \in DOMAIN d.cfg.profiles
      OBVIOUS
    <3> DEFINE q == d.order
               T == DOMAIN d.cfg.profiles
    <3>1. q # <<>> /\ d.trying = q[1] /\ q \in Seq(T)
      BY <2>1 DEF Sound, Attempt, Ordered
    <3> HIDE DEF q, T
    <3>2. \A k \in DOMAIN q : q[k] \in T
      BY <3>1
    <3> QED BY <3>1, <3>2 DEF q, T
  <2>4. Len(d.results) <= WIFI_SCAN_MAX
    BY <2>2 DEF Results
  <2> QED BY <2>2, <2>3, <2>4 DEF TypeOK, States, Rounds
<1> QED BY <1>1, AlwaysSound, PTL

\* Unless credentials still wait to be proved or an automatic save has failed,
\* every profile of the running list is in flash (wifi_conn.c joined and the set,
\* del, save and restore commands of config_proto.c).
THEOREM AlwaysCredsStored == Spec => []CredsStored
<1>1. WifiInv => CredsStored
  <2> SUFFICES ASSUME WifiInv, ~d.creds_unsaved, ~d.unstored, NEW i \in DOMAIN d.cfg.profiles
               PROVE  \E j \in DOMAIN d.flash.profiles : d.flash.profiles[j] = d.cfg.profiles[i]
    BY DEF CredsStored
  <2>1. Members(d.cfg) \subseteq Members(d.flash)
    BY DEF WifiInv, Sound, Covered
  <2>2. d.cfg.profiles[i] \in Members(d.cfg)
    BY DEF Members
  <2>3. d.cfg.profiles[i] \in Members(d.flash)
    BY <2>1, <2>2
  <2> QED BY <2>3 DEF Members
<1> QED BY <1>1, AlwaysSound, PTL

\* The numbered list a console user chooses from keeps its numbers: the manager
\* and the portal stay off the scanner (config_proto_owns_scan).
THEOREM AlwaysListKept == Spec => []ListKept
<1>1. WifiInv => ListKept
  <2> SUFFICES ASSUME WifiInv, NEW n \in DOMAIN shown
               PROVE  n \in DOMAIN d.results /\ d.results[n].ssid = shown[n]
    BY DEF ListKept
  <2>1. shown # <<>>
    <3>1. DOMAIN <<>> = {}
      OBVIOUS
    <3> QED BY <3>1
  <2>2. shown = [k \in DOMAIN d.results |-> d.results[k].ssid]
    BY <2>1 DEF WifiInv, Chosen
  <2> QED BY <2>2
<1> QED BY <1>1, AlwaysSound, PTL

\* The mark of the connected network stays with that network: no edit, eviction
\* or reordering of the list slides another profile under it.
THEOREM MarkStaysPut == Spec => MarkStays
<1> DEFINE A == \A i, j \in Index :
                  d.status[i] = "CONNECTED" /\ d'.status[j] = "CONNECTED" /\ d'.state = d.state
                    => i = j /\ d'.cfg.profiles[j].ssid = d.cfg.profiles[i].ssid
<1>1. WifiInv /\ [Next]_vars => [A]_vars
  <2> SUFFICES ASSUME WifiInv, Next, NEW i \in Index, NEW j \in Index,
                      d.status[i] = "CONNECTED", d'.status[j] = "CONNECTED"
               PROVE  i = j /\ d'.cfg.profiles[j].ssid = d.cfg.profiles[i].ssid
    OBVIOUS
  <2>1. WifiInv' /\ Stays(d, d')
    BY StepSound
  <2>2. i = 1 /\ j = 1
    BY <2>1 DEF WifiInv, Sound, Marked
  <2>3. d'.cfg.profiles[1] = d.cfg.profiles[1]
    BY <2>1 DEF Stays, NoMarks
  <2> QED BY <2>2, <2>3
<1> QED BY <1>1, AlwaysSound, PTL DEF Spec, MarkStays
=============================================================================
