----------------------------- MODULE BootClock -----------------------------
(***************************************************************************)
(* The handshake timestamp without a real clock (wg.c 113-153): a boot     *)
(* counter kept in one flash sector and the uptime make the TAI64N stamp   *)
(* of a WireGuard initiation.  The server refuses a stamp that is not      *)
(* later than the last one it accepted, so stamps must increase across     *)
(* reboots as well as within one boot.                                     *)
(*                                                                         *)
(* A stamp is its seconds and its milliseconds: the constant TAI64 label   *)
(* and the factor from milliseconds to nanoseconds do not change the order *)
(* of two stamps, which the peers compare as big-endian bytes.             *)
(***************************************************************************)
EXTENDS Integers

CONSTANTS
  Wrap,      \* 2^32: wireguard_sys_now is a uint32_t of milliseconds
  Window,    \* 2^25: seconds set apart for one boot
  Period,    \* the milliseconds that may pass between two steps
  Horizon,   \* bound: the longest uptime considered
  MaxBoots,  \* bound: power cycles considered, below 2^32
  LossAt,    \* the phases in which power may be lost
  WriteMayFail, \* whether flash_safe_execute may refuse to run the write
  Erased     \* a sector without the magic word

Phases == {"off", "erase", "program", "run"}

ASSUME ClockBounds ==
  /\ Wrap \in Nat \ {0} /\ Window \in Nat
  /\ (Wrap - 1) \div 1000 < Window
  /\ Period \subseteq Nat \ {0}
  /\ Horizon \in Nat /\ MaxBoots \in Nat
  /\ LossAt \subseteq Phases
  /\ WriteMayFail \in BOOLEAN
  /\ Erased \notin Nat

VARIABLES
  flash,       \* the record in the sector: Erased or a boot count
  boot_count,
  phase,       \* how far wg_time_init got
  uptime,      \* milliseconds since boot, not wrapped
  sent_at,     \* uptime of this boot's last initiation, 0 before the first
  last,        \* history: the last stamp any boot produced
  torn         \* history: a boot ran or died without its count in the sector

clockvars == <<flash, boot_count, phase, uptime, sent_at, last, torn>>

Stamp == [sec: Nat, ms: 0..999]

\* memcmp of two encoded stamps.
Later(s, t) == s.sec > t.sec \/ (s.sec = t.sec /\ s.ms > t.ms)

ClockInit ==
  /\ flash = Erased /\ boot_count = 0
  /\ phase = "off" /\ uptime = 0 /\ sent_at = 0
  /\ last = [sec |-> 0, ms |-> 0] /\ torn = FALSE

\* The mutant counts from the record without adding this boot.
CountAgain(record) == IF record = Erased THEN 1 ELSE record

\* The count of a boot that finds record in the sector.
NextCount(record) == IF record = Erased THEN 1 ELSE record + 1

\* Power comes on and wg_time_init reads the sector.
TimeInitRead ==
  /\ phase = "off"
  /\ NextCount(flash) <= MaxBoots
  /\ boot_count' = NextCount(flash)
  /\ phase' = "erase"
  /\ uptime' = 0 /\ sent_at' = 0
  /\ UNCHANGED <<flash, last, torn>>

FlashErase ==
  /\ phase = "erase"
  /\ flash' = Erased
  /\ phase' = "program"
  /\ UNCHANGED <<boot_count, uptime, sent_at, last, torn>>

FlashProgram ==
  /\ phase = "program"
  /\ flash' = boot_count
  /\ phase' = "run"
  /\ UNCHANGED <<boot_count, uptime, sent_at, last, torn>>

\* The write is refused; the boot goes on with a count the flash does not hold.
WriteFails ==
  /\ phase = "erase" /\ WriteMayFail
  /\ phase' = "run" /\ torn' = TRUE
  /\ UNCHANGED <<flash, boot_count, uptime, sent_at, last>>

\* wireguard_sys_now.
SysNow == uptime % Wrap

wireguard_tai64n_now ==
  [sec |-> boot_count * Window + SysNow \div 1000, ms |-> SysNow % 1000]

\* wireguardif_tmr sends an initiation: never two in one millisecond.
Initiate ==
  /\ phase = "run" /\ uptime > sent_at
  /\ last' = wireguard_tai64n_now
  /\ sent_at' = uptime
  /\ UNCHANGED <<flash, boot_count, phase, uptime, torn>>

Elapse(d) ==
  /\ phase = "run" /\ uptime + d <= Horizon
  /\ uptime' = uptime + d
  /\ UNCHANGED <<flash, boot_count, phase, sent_at, last, torn>>

PowerLoss ==
  /\ phase \in LossAt
  /\ phase' = "off"
  /\ torn' = (torn \/ phase = "program")
  /\ UNCHANGED <<flash, boot_count, uptime, sent_at, last>>

ClockNext ==
  \/ TimeInitRead \/ FlashErase \/ FlashProgram \/ WriteFails
  \/ Initiate \/ (\E d \in Period : Elapse(d)) \/ PowerLoss

ClockSpec == ClockInit /\ [][ClockNext]_clockvars

(***************************************************************************)
(* Properties.                                                             *)
(***************************************************************************)
\* The sector holds a count or nothing, and the clock's variables are numbers.
ClockTypeOK ==
  /\ flash \in Nat \cup {Erased}
  /\ boot_count \in Nat
  /\ phase \in Phases
  /\ uptime \in 0..Horizon /\ sent_at \in 0..Horizon
  /\ last \in Stamp /\ torn \in BOOLEAN

Stamped == sent_at' # sent_at /\ phase' = "run"

\* wg.c 113-117: whenever power goes and comes, and however often, every
\* initiation carries a later stamp than every one before it, of this boot or
\* another, as long as no boot's write of the count was lost or refused.
IntactStampsIncrease == [][Stamped /\ ~torn => Later(last', last)]_clockvars
============================================================================
