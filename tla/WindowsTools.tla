---------------------------- MODULE WindowsTools ----------------------------
(***************************************************************************)
(* The fixed executors of the Windows satellite                            *)
(* (src/src/personal_ai_os/satellites/windows/execution.py and             *)
(* allowlist.py): what a command is checked against, and how a search, an  *)
(* application, a project and the volume are handled while the desktop     *)
(* changes under them.  The workflow executor is in SatelliteLink.         *)
(*                                                                         *)
(* A command is one execution; the desktop (files, processes, volume) is   *)
(* external and moves between any two steps.                               *)
(***************************************************************************)
EXTENDS Naturals, FiniteSets

CONSTANTS
    Commands,       \* records [tool, late, digest, bound, listed, query, most, wanted]
    Installed,      \* capabilities the allowlist and the host provide
    Root,           \* the approved directory of searches
    Dirs, Files,    \* directories below it, files
    Parent,         \* the directory of a file or directory
    Matching,       \* files whose name contains the query
    MaxEntries,     \* max_entries of the search root
    Volumes,        \* volume levels
    MaxChanges      \* bound of the changes of the desktop

Nodes == Dirs \cup Files
NoFile == "no file"

(* The directories form a tree below the root.                              *)
ASSUME DesktopConstants ==
    /\ Root \notin Nodes /\ NoFile \notin Files
    /\ Dirs \cap Files = {} /\ IsFiniteSet(Files)
    /\ Parent \in [Nodes -> Dirs \cup {Root}]
    /\ \A S \in SUBSET Nodes : S # {} => \E n \in S : Parent[n] \notin S
    /\ Matching \subseteq Files
    /\ Volumes \subseteq Nat
    /\ "windows.workflow.start" \notin Installed
    /\ {MaxEntries, MaxChanges} \subseteq Nat
    /\ \A c \in Commands :
          /\ c.tool # "none" /\ {c.most, c.wanted} \subseteq Nat
          /\ {c.late, c.digest, c.bound, c.listed, c.query} \subseteq BOOLEAN

VARIABLES
    command,    \* the command being executed
    step,       \* where its executor is
    walk,       \* the local state of a search
    observation,\* the frame it ends with
    (* the desktop *)
    linked,     \* files and directories replaced by a link that leads away
    gone,       \* files that were removed
    process,    \* the process started for the command
    volume,     \* the level of the default output
    changes,    \* how often the desktop changed during the command
    touched     \* the files and directories that changed or refused to be listed during it

execution == <<command, step, walk, observation>>
desktop == <<linked, gone, process, volume, changes, touched>>
desktopVars == <<execution, desktop>>

NoCommand == [tool |-> "none"]
NoWalk == [todo |-> {}, names |-> {}, file |-> NoFile, scanned |-> 0, found |-> {},
           truncated |-> FALSE]
NoObservation == [status |-> "none", code |-> "none", measured |-> 0]

-----------------------------------------------------------------------------
(* default_registry: the target and the capability of the catalog's tools.  *)
SyntheticTools ==
    {"phase8.status.read", "phase8.reversible.set", "phase8.consequential.echo",
     "phase8.critical.echo", "phase8.offline.read", "phase8.uncertain.outcome",
     "phase8.invalid.output", "phase8.verification.fail", "phase8.slow.cancellable",
     "phase8.forbidden.shell"}
Capability == [tool \in {"windows.status.read", "windows.files.search", "windows.app.open",
                         "windows.project.open", "windows.media.volume.get",
                         "windows.media.volume.set", "windows.workflow.start"} |->
    CASE tool = "windows.status.read" -> "windows.telemetry.read"
      [] tool \in {"windows.media.volume.get", "windows.media.volume.set"} ->
           "windows.media.control"
      [] OTHER -> tool]
Catalog == SyntheticTools \cup DOMAIN Capability

(* execute: the code of the refusal, in the order of the checks.            *)
DigestMatches_Unchecked(c) == TRUE
DigestMatches(c) == c.digest
Refusal(c) ==
    CASE c.late -> "command_deadline_expired"
      [] ~c.late /\ c.tool \notin Catalog -> "windows_executor_failed"
      [] ~c.late /\ c.tool \in SyntheticTools -> "tool_target_invalid"
      [] OTHER ->
           IF ~DigestMatches(c) THEN "argument_digest_mismatch"
           ELSE IF ~c.bound THEN "capability_binding_mismatch"
           ELSE IF Capability[c.tool] \notin Installed THEN "capability_unavailable"
           ELSE IF c.tool = "windows.files.search" /\ ~c.query THEN "search_query_invalid"
           ELSE IF ~c.listed THEN "unknown_id"
           ELSE "none"

(* A node and the directories above it, without the root.                   *)
ClosedUp(S) == \A n \in S : Parent[n] \in S \cup {Root}
Path == [node \in Nodes |->
    {n \in Nodes : \A S \in SUBSET Nodes : node \in S /\ ClosedUp(S) => n \in S}]

(* Path.resolve on a file: whether it leads out of the root.                *)
LeadsAway(node) == Path[node] \cap linked # {}
IsLink_Never(node) == FALSE
IsLink(node) == node \in linked \cup gone

-----------------------------------------------------------------------------
DesktopInit ==
    /\ command = NoCommand
    /\ step = "idle"
    /\ walk = NoWalk
    /\ observation = NoObservation
    /\ linked = {}
    /\ gone = {}
    /\ process = "none"
    /\ volume \in Volumes
    /\ changes = 0
    /\ touched = {}

Report(status, code, measured) ==
    /\ step' = "done"
    /\ observation' = [status |-> status, code |-> code, measured |-> measured]
Failed(code) == Report("failed", code, 0)
Succeeded == Report("succeeded", "none", 0)

FirstStep(tool) ==
    CASE tool = "windows.status.read" -> "reading"
      [] tool = "windows.files.search" -> "walking"
      [] tool \in {"windows.app.open", "windows.project.open"} -> "launching"
      [] tool = "windows.media.volume.get" -> "measuring"
      [] tool = "windows.media.volume.set" -> "setting"

Execute ==
    /\ step = "idle"
    /\ \E c \in Commands :
         /\ command' = c
         /\ touched' = {}
         /\ IF Refusal(c) # "none"
            THEN Failed(Refusal(c)) /\ UNCHANGED walk
            ELSE /\ step' = FirstStep(c.tool)
                 /\ walk' = [NoWalk EXCEPT !.todo = {Root}]
                 /\ UNCHANGED observation
    /\ UNCHANGED <<linked, gone, process, volume, changes>>

(* _status and _gpu_metrics: a missing GPU is reported as such, anything    *)
(* that is not a number or has another shape fails the command.             *)
ReadStatus ==
    /\ step = "reading"
    /\ \E telemetry \in {"finite", "no gpu", "not finite", "bad shape"} :
         CASE telemetry \in {"finite", "no gpu"} -> Succeeded
           [] telemetry = "not finite" -> Failed("telemetry_non_finite")
           [] telemetry = "bad shape" -> Failed("windows_executor_failed")
    /\ UNCHANGED <<command, walk, desktop>>

-----------------------------------------------------------------------------
(* _search *)

Walking == step = "walking" /\ walk.file = NoFile

(* os.walk lists the next directory, through whatever it has become; links  *)
(* among its directories are left out.  A replacement after that is not     *)
(* noticed before its files are resolved (os.path.islink says no to a       *)
(* junction).                                                               *)
Descend ==
    /\ Walking
    /\ walk.names = {}
    /\ \E d \in walk.todo :
         LET below == {n \in Nodes \ gone : Parent[n] = d}
             safe == {n \in below \cap Dirs : ~IsLink(n)}
         IN walk' = [walk EXCEPT !.todo = (@ \ {d}) \cup safe, !.names = below \cap Files]
    /\ UNCHANGED <<command, step, observation, desktop>>

(* os.walk passes over a directory that it cannot list, and says nothing.   *)
(* That directory, the root with all there is, counts as touched.           *)
ListingFails ==
    /\ Walking
    /\ walk.names = {}
    /\ changes < MaxChanges
    /\ changes' = changes + 1
    /\ \E d \in walk.todo :
         /\ walk' = [walk EXCEPT !.todo = @ \ {d}]
         /\ touched' = touched \cup IF d = Root THEN Nodes ELSE {d}
    /\ UNCHANGED <<command, step, observation, linked, gone, process, volume>>

Exhausted == walk.todo = {} /\ walk.names = {}
EndWalk ==
    /\ Walking
    /\ Exhausted
    /\ Succeeded
    /\ UNCHANGED <<command, walk, desktop>>

(* The next name of the directory: over a limit, no match, a link, a match. *)
ScanName ==
    /\ Walking
    /\ \E f \in walk.names, late \in BOOLEAN :
         LET scanned == walk.scanned + 1 IN
         \/ /\ scanned > MaxEntries \/ late
            /\ walk' = [walk EXCEPT !.scanned = scanned, !.truncated = TRUE]
            /\ Succeeded
         \/ /\ ~(scanned > MaxEntries \/ late)
            /\ walk' = [walk EXCEPT !.scanned = scanned, !.names = @ \ {f},
                          !.file = IF f \in Matching /\ ~IsLink(f) THEN f ELSE NoFile]
            /\ UNCHANGED <<step, observation>>
    /\ UNCHANGED <<command, desktop>>

(* path.resolve(strict=True) and is_relative_to                             *)
Contained(f) == ~LeadsAway(f)
ResolveMatch ==
    /\ step = "walking"
    /\ walk.file # NoFile
    /\ \/ walk.file \in gone /\ Failed("windows_executor_failed")
       \/ walk.file \notin gone /\ ~Contained(walk.file) /\ Failed("search_root_escape")
       \/ /\ walk.file \notin gone
          /\ Contained(walk.file)
          /\ step' = "describing"
          /\ UNCHANGED observation
    /\ UNCHANGED <<command, walk, desktop>>

(* stat, and the end when there are max_results.                            *)
DescribeMatch ==
    LET found == walk.found \cup {walk.file} IN
    /\ step = "describing"
    /\ IF walk.file \in gone
       THEN Failed("windows_executor_failed") /\ UNCHANGED walk
       ELSE IF Cardinality(found) >= command.most
       THEN /\ walk' = [walk EXCEPT !.file = NoFile, !.found = found,
                                    !.truncated = walk.scanned < MaxEntries]
            /\ Succeeded
       ELSE /\ walk' = [walk EXCEPT !.file = NoFile, !.found = found]
            /\ step' = "walking"
            /\ UNCHANGED observation
    /\ UNCHANGED <<command, desktop>>

-----------------------------------------------------------------------------
(* _open_app and _open_project *)

Launch ==
    /\ step = "launching"
    /\ \/ Failed("target_unavailable") /\ UNCHANGED process
       \/ Failed("windows_executor_failed") /\ UNCHANGED process
       \/ process' = "running" /\ step' = "observing" /\ UNCHANGED observation
    /\ UNCHANGED <<command, walk, linked, gone, volume, changes, touched>>

(* After 0.15 seconds: what poll says.                                      *)
Crashed == process = "crashed"
Observe ==
    /\ step = "observing"
    /\ IF Crashed THEN Failed("dispatch_failed") ELSE Succeeded
    /\ UNCHANGED <<command, walk, desktop>>

-----------------------------------------------------------------------------
(* _volume_get and _volume_set: the script sets and reads back; it may fail *)
(* or run out of its five seconds between the two.                          *)

Distance(a, b) == IF a > b THEN a - b ELSE b - a

SetVolume ==
    /\ step = "setting"
    /\ \/ volume' = command.wanted /\ step' = "measuring" /\ UNCHANGED observation
       \/ Failed("windows_executor_failed") /\ UNCHANGED volume
    /\ UNCHANGED <<command, walk, linked, gone, process, changes, touched>>

OutOfTolerance ==
    command.tool = "windows.media.volume.set" /\ Distance(volume, command.wanted) > 1
MeasureVolume ==
    /\ step = "measuring"
    /\ \/ Failed("windows_executor_failed")
       \/ OutOfTolerance /\ Failed("volume_readback_mismatch")
       \/ ~OutOfTolerance /\ Report("succeeded", "none", volume)
    /\ UNCHANGED <<command, walk, desktop>>

(* The answer leaves; the next command meets a tidy desktop again.          *)
Deliver ==
    /\ step = "done"
    /\ step' = "idle"
    /\ command' = NoCommand
    /\ walk' = NoWalk
    /\ observation' = NoObservation
    /\ process' = "none"
    /\ linked' = {}
    /\ gone' = {}
    /\ changes' = 0
    /\ touched' = {}
    /\ UNCHANGED volume

-----------------------------------------------------------------------------
(* The desktop: whoever uses it, bounded for each command.                  *)

Change(node) ==
    /\ changes < MaxChanges
    /\ changes' = changes + 1
    /\ touched' = touched \cup {node}

Replace(node) ==
    /\ step # "done"
    /\ node \notin linked \cup gone
    /\ linked' = linked \cup {node}
    /\ Change(node)
    /\ UNCHANGED <<execution, gone, process, volume>>

Restore(node) ==
    /\ step # "done"
    /\ node \in linked
    /\ linked' = linked \ {node}
    /\ Change(node)
    /\ UNCHANGED <<execution, gone, process, volume>>

Vanish(file) ==
    /\ step # "done"
    /\ file \notin linked \cup gone
    /\ gone' = gone \cup {file}
    /\ Change(file)
    /\ UNCHANGED <<execution, linked, process, volume>>

Exit ==
    /\ process = "running"
    /\ \E how \in {"clean", "crashed"} : process' = how
    /\ UNCHANGED <<execution, linked, gone, volume, changes, touched>>

TurnVolume(level) ==
    /\ step \in {"setting", "measuring"}
    /\ changes < MaxChanges
    /\ changes' = changes + 1
    /\ volume' = level
    /\ UNCHANGED <<execution, linked, gone, process, touched>>

DesktopNext ==
    \/ Execute
    \/ ReadStatus
    \/ Descend \/ ListingFails \/ EndWalk \/ ScanName \/ ResolveMatch \/ DescribeMatch
    \/ Launch \/ Observe
    \/ SetVolume \/ MeasureVolume
    \/ Deliver
    \/ \E n \in Nodes : Replace(n) \/ Restore(n)
    \/ \E f \in Files : Vanish(f)
    \/ Exit
    \/ \E level \in Volumes : TurnVolume(level)

DesktopSpec == DesktopInit /\ [][DesktopNext]_desktopVars
-----------------------------------------------------------------------------
(* A successful search names matches only, none that led out of the root    *)
(* all the time, and, when it neither ran into a limit nor says that it was *)
(* cut short, every match that nobody touched.  A search of a tree nobody   *)
(* touched does not fail.                                                   *)
Undisturbed(f) == Path[f] \cap touched = {}
SearchIsSound ==
    step = "done" /\ command.tool = "windows.files.search" =>
        /\ observation.status = "succeeded" =>
             /\ walk.found \subseteq Matching
             /\ \A f \in walk.found : Undisturbed(f) => ~LeadsAway(f)
             /\ ~walk.truncated /\ Cardinality(walk.found) < command.most =>
                  \A f \in Matching :
                    Undisturbed(f) /\ f \notin gone /\ ~LeadsAway(f) => f \in walk.found
        /\ touched = {} => observation.code \notin {"search_root_escape", "windows_executor_failed"}

(* The desktop is changed only for a command that names a known entry, in   *)
(* time and with its own digest; success is reported only for an effect     *)
(* that took place and was seen, failure of the checks for none.            *)
OutcomeIsObserved ==
    LET c == command IN
    /\ process # "none" \/ step = "measuring" =>
         ~c.late /\ c.digest /\ c.bound /\ c.listed /\ Capability[c.tool] \in Installed
    /\ step = "done" /\ observation.status = "succeeded" =>
         /\ c.tool \in {"windows.app.open", "windows.project.open"} => process # "none"
         /\ c.tool = "windows.media.volume.set" =>
              Distance(observation.measured, c.wanted) <= 1
=============================================================================
