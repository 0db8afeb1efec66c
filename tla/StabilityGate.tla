---------------------------- MODULE StabilityGate ----------------------------
(***************************************************************************)
(* The stability gate of the home server: a timer appends a health sample  *)
(* to a CSV file (src/scripts/phase_01/venom_stability_monitor.sh), and    *)
(* the evaluator (evaluate_stability_gate.py) decides from these samples   *)
(* whether the host was stable for a day and for a week.                   *)
(*                                                                         *)
(* Time counts from the official marker.  A sample is what the host was at *)
(* that moment; between the samples nobody looks.  The evaluator only      *)
(* reads, so its verdict is an operator on the state.                      *)
(***************************************************************************)
EXTENDS Naturals, Sequences, FiniteSets

CONSTANTS
    Interval,       \* between two runs of the timer
    MissAfter,      \* a longer gap is a missing sample for the monitor
    MaxGap,         \* MAX_SAMPLE_GAP_SECONDS of the evaluator
    Day, Week,      \* the two windows
    SmartEvery,     \* SMART is read in one of so many samples
    MaxRows,        \* rows kept in the file
    MinSamples,     \* MIN_SAMPLE_COUNT
    MaxDelay,       \* bound of the lateness of the timer
    Horizon,        \* bound of the clock
    MaxTroubles     \* bound of reboots, faults and killed runs

ASSUME GateConstants ==
    /\ {Interval, MissAfter, MaxGap, Day, Week, SmartEvery, MaxRows} \subseteq Nat \ {0}
    /\ {MinSamples, MaxDelay, Horizon, MaxTroubles} \subseteq Nat
    /\ Interval <= MissAfter /\ MissAfter <= MaxGap
    /\ Day < Week
    /\ 3 * Interval <= Day /\ MinSamples * Interval <= Day  \* 900 s and 4 samples in a day
    /\ (SmartEvery - 1) * MissAfter + 2 * MaxGap < Week     \* some hours in a week

VARIABLES
    clock,
    boot,       \* the current boot, 0 at the marker
    host,       \* "fit", "breach", "unseen" (a breach the tools do not report) or "swapping"
    disk,       \* whether SMART would pass
    smartctl,   \* whether the command is on the PATH
    unasked,    \* whether a due reading found no smartctl when the disk had failed
    dossier,    \* whether evidence and marker are complete
    rows,       \* the CSV file
    state,      \* the monitor's state file
    run,        \* the run of the monitor under way: "none", "append", "save"
    due,        \* when the timer fires next
    reality     \* what happened, whether or not a sample saw it

gateVars == <<clock, boot, host, disk, smartctl, unasked, dossier, rows, state, run, due, reality>>

Fresh == [epoch |-> 0, boot |-> 0, number |-> 0, smart |-> "unavailable"]

GateInit ==
    /\ clock = 0
    /\ boot = 0
    /\ host = "fit"
    /\ disk = "passed"
    /\ smartctl = TRUE
    /\ unasked = FALSE
    /\ dossier \in BOOLEAN
    /\ rows = <<>>
    /\ state = Fresh
    /\ run = "none"
    /\ due = 1
    /\ reality = [troubles |-> 0, rebooted |-> 0, failed |-> 0, spell |-> 0, longest |-> 0,
                  late |-> FALSE]

-----------------------------------------------------------------------------
(* venom_stability_monitor.sh *)

Number == state.number + 1
SmartDue_Never(number) == FALSE
SmartDue(number) == number % SmartEvery = 1 % SmartEvery
Gap == IF state.epoch = 0 THEN 0 ELSE clock - state.epoch
SmartNow == IF SmartDue(Number) /\ smartctl THEN disk ELSE state.smart
(* A temperature of "NA" and a use of the disk that is no number pass.      *)
Found == IF host = "unseen" THEN "fit" ELSE host
Rebooted == boot # 0 \/ (state.number > 0 /\ state.boot # boot)

TakeSample ==
    /\ run = "none"
    /\ clock >= due
    /\ rows' = Append(rows, [time |-> clock, boot |-> boot, reboot |-> Rebooted,
                             missing |-> Gap > MissAfter, host |-> Found,
                             smart |-> SmartNow])
    /\ run' = "append"
    /\ due' = clock + Interval
    /\ unasked' = (unasked \/ (SmartDue(Number) /\ ~smartctl /\ disk # "passed"))
    /\ UNCHANGED <<clock, boot, host, disk, smartctl, dossier, state, reality>>

(* Only the newest max_data_rows stay in the file.                          *)
Trim ==
    /\ run = "append"
    /\ rows' = IF Len(rows) > MaxRows
               THEN SubSeq(rows, Len(rows) - MaxRows + 1, Len(rows)) ELSE rows
    /\ run' = "save"
    /\ UNCHANGED <<clock, boot, host, disk, smartctl, unasked, dossier, state, due, reality>>

(* The state file is written aside and renamed.                             *)
Save ==
    /\ run = "save"
    /\ state' = [epoch |-> rows[Len(rows)].time, boot |-> boot, number |-> Number,
                 smart |-> rows[Len(rows)].smart]
    /\ run' = "none"
    /\ UNCHANGED <<clock, boot, host, disk, smartctl, unasked, dossier, rows, due, reality>>

-----------------------------------------------------------------------------
(* The host.  A run takes seconds, so time stands still during it.          *)

Greater(a, b) == IF a > b THEN a ELSE b
Spell == IF host = "breach" THEN reality.spell + 1 ELSE 0

Tick ==
    /\ run = "none"
    /\ clock < Horizon
    /\ clock < due + MaxDelay
    /\ clock' = clock + 1
    /\ reality' = [reality EXCEPT !.spell = Spell, !.longest = Greater(@, Spell),
                     !.late = @ \/ clock + 1 > due]
    /\ UNCHANGED <<boot, host, disk, smartctl, unasked, dossier, rows, state, run, due>>

(* Without a complete dossier the verdict is BLOCKED whatever happens.      *)
Trouble == dossier /\ reality.troubles < MaxTroubles /\ clock < Horizon
Count(field) == [reality EXCEPT !.troubles = @ + 1, ![field] = IF @ = 0 THEN clock ELSE @]

Reboot ==
    /\ Trouble
    /\ clock > 0
    /\ boot' = boot + 1
    /\ run' = "none"
    /\ due' = clock + 1
    /\ reality' = Count("rebooted")
    /\ UNCHANGED <<clock, host, disk, smartctl, unasked, dossier, rows, state>>

(* The run is killed before it saved its state.                             *)
Kill ==
    /\ Trouble
    /\ run # "none"
    /\ run' = "none"
    /\ reality' = [reality EXCEPT !.troubles = @ + 1]
    /\ UNCHANGED <<clock, boot, host, disk, smartctl, unasked, dossier, rows, state, due>>

DiskFails ==
    /\ Trouble
    /\ run = "none"
    /\ clock > 0
    /\ disk = "passed"
    /\ \E how \in {"degraded", "unavailable"} : disk' = how
    /\ reality' = Count("failed")
    /\ UNCHANGED <<clock, boot, host, smartctl, unasked, dossier, rows, state, run, due>>

HostChanges ==
    /\ Trouble
    /\ run = "none"
    /\ \E other \in {"fit", "breach", "unseen", "swapping"} \ {host} : host' = other
    /\ reality' = [reality EXCEPT !.troubles = @ + 1, !.spell = 0]
    /\ UNCHANGED <<clock, boot, disk, smartctl, unasked, dossier, rows, state, run, due>>

(* smartctl is removed or installed.                                        *)
SmartctlChanges ==
    /\ Trouble
    /\ run = "none"
    /\ smartctl' = ~smartctl
    /\ reality' = [reality EXCEPT !.troubles = @ + 1]
    /\ UNCHANGED <<clock, boot, host, disk, unasked, dossier, rows, state, run, due>>

GateNext ==
    \/ TakeSample \/ Trim \/ Save
    \/ Tick
    \/ Reboot \/ Kill \/ DiskFails \/ HostChanges \/ SmartctlChanges

GateSpec == GateInit /\ [][GateNext]_gateVars

-----------------------------------------------------------------------------
(* evaluate_stability_gate.py; the marker is at time 0.                     *)

Swapping(i) == rows[i].host = "swapping"
Unhealthy ==
    \E i \in DOMAIN rows :
        \/ rows[i].boot # 0
        \/ rows[i].reboot
        \/ rows[i].missing
        \/ rows[i].host = "breach"
        \/ rows[i].smart # "passed"
        \/ i > 2 /\ Swapping(i) /\ Swapping(i - 1) /\ Swapping(i - 2)

LeadingGap_Unchecked == FALSE
LeadingGap == rows[1].time > MaxGap
Discontinuous ==
    \/ rows = <<>>
    \/ /\ rows # <<>>
       /\ \/ LeadingGap
          \/ \E i \in DOMAIN rows \ {1} : rows[i].time - rows[i - 1].time > MaxGap
          \/ clock - rows[Len(rows)].time > MaxGap

Ceiling(a, b) == (a + b - 1) \div b
MinimumSamples ==
    LET window == IF clock >= Week THEN Week ELSE Day
        expected == Ceiling(window, Interval) + 1
    IN Greater(MinSamples, Ceiling(3 * expected, 4))

GateVerdict ==
    IF ~dossier \/ rows = <<>> \/ Unhealthy THEN "BLOCKED"
    ELSE IF clock < Day THEN "WAITING_FOR_24H"
    ELSE IF Discontinuous \/ Len(rows) < MinimumSamples THEN "BLOCKED"
    ELSE IF clock < Week THEN "WAITING_FOR_7D"
    ELSE "PASS"
-----------------------------------------------------------------------------
(* PASS says something about the host and not only about the file: a whole  *)
(* week was watched from the marker on, no breach the tools report lasted   *)
(* longer than the evaluator tolerates silence, no reboot came before the   *)
(* newest sample, and a disk that fails is found within one cycle of the    *)
(* SMART reads, also when runs are killed between the file and the state,   *)
(* or rows trimmed.  The last holds only while smartctl is found: without   *)
(* it the monitor repeats the status it read before the disk failed.        *)
PassIsEarned ==
    GateVerdict = "PASS" =>
        LET newest == rows[Len(rows)].time IN
        /\ dossier /\ clock >= Week /\ rows[1].time <= MaxGap
        /\ reality.longest <= MaxGap
        /\ reality.rebooted > 0 => reality.rebooted >= newest
        /\ reality.failed > 0 /\ ~unasked =>
             clock - reality.failed <= (SmartEvery - 1) * MissAfter + MaxGap

(* A host without trouble that is sampled on time is never blocked from its *)
(* first sample on, as long as the file has room for the week.              *)
HealthyHostPasses ==
    /\ dossier
    /\ reality.troubles = 0
    /\ ~reality.late
    /\ run = "none" /\ clock < due
    /\ rows # <<>> /\ Len(rows) < MaxRows
    => GateVerdict = IF clock < Day THEN "WAITING_FOR_24H"
                     ELSE IF clock < Week THEN "WAITING_FOR_7D" ELSE "PASS"
=============================================================================
