----------------------------- MODULE HostProofs -----------------------------
(***************************************************************************)
(* Safety of the two programs that live on a host of their own: the        *)
(* executors of the Windows agent and the stability gate of the server.    *)
(*                                                                         *)
(* The executors, for every file tree, allowlist, set of commands and      *)
(* number of changes of the desktop: a search looks at a directory, at a   *)
(* name and at a path in three steps while the tree changes, and what it   *)
(* relies on is that a path nobody touched is as it was when the command   *)
(* began, and that a match not yet found is below a directory still to be  *)
(* walked.                                                                 *)
(*                                                                         *)
(* The gate, for every choice of its constants: PASS is earned by the      *)
(* host, and a healthy host earns it.  The file and the monitor's state    *)
(* are what a run left of the past, so the invariant says what they still  *)
(* tell of it: which reboot, which breach and which failure of the disk a  *)
(* row must show.                                                          *)
(***************************************************************************)
EXTENDS WindowsTools, StabilityGate, FiniteSetTheorems, TLAPS

Searching == step \in {"walking", "describing"}
Working == step \notin {"idle", "done"}
Launched == {"windows.app.open", "windows.project.open"}

WalkRecord == [todo : SUBSET (Dirs \cup {Root}), names : SUBSET Files,
               file : Files \cup {NoFile}, scanned : Nat, found : SUBSET Files,
               truncated : BOOLEAN]

DesktopTyped ==
    /\ step \in {"idle", "reading", "walking", "describing", "launching", "observing",
                 "setting", "measuring", "done"}
    /\ command \in Commands \cup {NoCommand}
    /\ walk \in WalkRecord
    /\ volume \in Nat
    /\ linked \subseteq Nodes /\ gone \subseteq Files /\ touched \subseteq Nodes

(* Which command is under way: a step belongs to a tool and comes after the *)
(* checks, and a process was started by the command that is under way.      *)
Commanded ==
    /\ step # "idle" => command \in Commands
    /\ step = "idle" => process = "none"
    /\ Working \/ process # "none" => Refusal(command) = "none"
    /\ step = "observing" => process # "none"
    /\ Working =>
         /\ Searching <=> command.tool = "windows.files.search"
         /\ step = "reading" <=> command.tool = "windows.status.read"
         /\ step \in {"launching", "observing"} <=> command.tool \in Launched
         /\ step = "setting" => command.tool = "windows.media.volume.set"

(* A match that was within reach all the time.                              *)
Findable(f) == Undisturbed(f) /\ f \notin gone /\ ~LeadsAway(f)
(* The walk has it or will come to it.                                      *)
Reached(f) ==
    \/ f \in walk.found \cup walk.names \/ f = walk.file
    \/ \E d \in walk.todo : d = Root \/ d \in Path[f]

(* Without a change of the tree the walk meets no link and no missing file. *)
WalkClean ==
    touched = {} =>
        /\ \A d \in walk.todo \ {Root} : Path[d] \cap linked = {}
        /\ \A f \in walk.names : f \notin gone /\ (Path[f] \ {f}) \cap linked = {}
        /\ walk.file # NoFile => walk.file \notin gone /\ ~LeadsAway(walk.file)
FoundSound ==
    /\ walk.found \subseteq Matching
    /\ walk.file # NoFile => walk.file \in Matching
    /\ step = "describing" => walk.file # NoFile
    /\ \A f \in walk.found : Undisturbed(f) => ~LeadsAway(f)
    /\ step = "describing" /\ Undisturbed(walk.file) => ~LeadsAway(walk.file)
WalkSound ==
    /\ FoundSound
    /\ \A f \in Matching : Findable(f) => Reached(f)
    /\ WalkClean

DesktopInv ==
    DesktopTyped /\ Commanded /\ (Searching => WalkSound) /\ SearchIsSound /\ OutcomeIsObserved

-----------------------------------------------------------------------------
(* Paths                                                                    *)

LEMMA PathSelf ==
  ASSUME NEW f \in Nodes
  PROVE  f \in Path[f] /\ Path[f] \subseteq Nodes /\ ClosedUp(Path[f])
<1>1. \A n : n \in Path[f] <=>
        n \in Nodes /\ \A S \in SUBSET Nodes : f \in S /\ ClosedUp(S) => n \in S
  BY DEF Path
<1>2. ASSUME NEW n \in Path[f], Parent[n] # Root PROVE Parent[n] \in Path[f]
  <2>1. n \in Nodes /\ Parent[n] \in Nodes
    BY <1>1, <1>2, DesktopConstants DEF Nodes
  <2>2. ASSUME NEW S \in SUBSET Nodes, f \in S, ClosedUp(S) PROVE Parent[n] \in S
    BY <1>1, <1>2, <2>2 DEF ClosedUp
  <2> QED
    BY <1>1, <2>1, <2>2
<1> QED
  BY <1>1, <1>2 DEF ClosedUp

LEMMA PathLeast ==
  ASSUME NEW f \in Nodes, NEW S \in SUBSET Nodes, f \in S, ClosedUp(S)
  PROVE  Path[f] \subseteq S
  BY DEF Path

(* What is above a node is a directory.                                     *)
LEMMA PathDirs ==
  ASSUME NEW f \in Nodes
  PROVE  Path[f] \subseteq {f} \cup Dirs
<1>1. ClosedUp({f} \cup Dirs)
  BY DesktopConstants DEF ClosedUp, Nodes
<1> QED
  BY <1>1, PathLeast DEF Nodes

(* The path of a node goes on with the one of its directory.                *)
LEMMA PathAbove ==
  ASSUME NEW c \in Nodes
  PROVE  Path[c] \subseteq {c} \cup IF Parent[c] = Root THEN {} ELSE Path[Parent[c]]
<1>1. CASE Parent[c] = Root
  <2>1. ClosedUp({c})
    BY <1>1 DEF ClosedUp
  <2> QED
    BY <1>1, <2>1, PathLeast
<1>2. CASE Parent[c] # Root
  <2>1. Parent[c] \in Nodes
    BY <1>2, DesktopConstants DEF Nodes
  <2>2. /\ Parent[c] \in Path[Parent[c]] /\ Path[Parent[c]] \subseteq Nodes
        /\ ClosedUp(Path[Parent[c]])
    BY <2>1, PathSelf
  <2>3. ClosedUp({c} \cup Path[Parent[c]])
    BY <2>2 DEF ClosedUp
  <2> QED
    BY <1>2, <2>2, <2>3, PathLeast
<1> QED
  BY <1>1, <1>2

(* Below every directory on the path of a node comes the next one.          *)
LEMMA PathChild ==
  ASSUME NEW f \in Nodes, NEW d, d = Root \/ (d \in Path[f] /\ d # f)
  PROVE  \E c \in Path[f] : Parent[c] = d
<1>1. f \in Path[f] /\ Path[f] \subseteq Nodes /\ ClosedUp(Path[f])
  BY PathSelf
<1>2. CASE d = Root
  <2>1. PICK n \in Path[f] : Parent[n] \notin Path[f]
    BY <1>1, DesktopConstants
  <2> QED
    BY <1>1, <1>2, <2>1 DEF ClosedUp
<1>3. ASSUME d \in Path[f], d # f, \A c \in Path[f] : Parent[c] # d PROVE FALSE
  <2>1. ClosedUp(Path[f] \ {d})
    BY <1>1, <1>3 DEF ClosedUp
  <2>2. Path[f] \subseteq Path[f] \ {d}
    BY <1>1, <1>3, <2>1, PathLeast
  <2> QED
    BY <1>3, <2>2
<1> QED
  BY <1>2, <1>3

-----------------------------------------------------------------------------
(* Commands                                                                 *)

LEMMA CheckedCommand ==
  ASSUME NEW c \in Commands, Refusal(c) = "none"
  PROVE  /\ c.tool \in DOMAIN Capability /\ c.tool # "windows.workflow.start"
         /\ ~c.late /\ c.digest /\ c.bound /\ c.listed
         /\ Capability[c.tool] \in Installed
         /\ c.most \in Nat /\ c.wanted \in Nat
<1>1. /\ c.most \in Nat /\ c.wanted \in Nat /\ c.late \in BOOLEAN /\ c.digest \in BOOLEAN
      /\ c.bound \in BOOLEAN /\ c.listed \in BOOLEAN /\ c.query \in BOOLEAN
  BY DesktopConstants
<1>2. ~c.late
  BY <1>1 DEF Refusal
<1>3. c.tool \in Catalog /\ c.tool \notin SyntheticTools
  BY <1>1, <1>2 DEF Refusal
<1>4. c.tool \in DOMAIN Capability
  BY <1>3 DEF Catalog
<1>5. c.digest /\ c.bound /\ c.listed /\ Capability[c.tool] \in Installed
  BY <1>1, <1>2, <1>3 DEF Refusal, DigestMatches
<1>6. c.tool # "windows.workflow.start"
  <2>1. Capability["windows.workflow.start"] = "windows.workflow.start"
    BY DEF Capability
  <2> QED
    BY <1>5, <2>1, DesktopConstants
<1> QED
  BY <1>1, <1>2, <1>4, <1>5, <1>6

LEMMA RefusalCodes ==
  ASSUME NEW c \in Commands, c.tool = "windows.files.search"
  PROVE  Refusal(c) \notin {"search_root_escape", "windows_executor_failed"}
<1>1. c.tool \in Catalog /\ c.tool \notin SyntheticTools /\ c.late \in BOOLEAN
  BY DesktopConstants DEF Catalog, SyntheticTools, Capability
<1> QED
  BY <1>1 DEF Refusal

LEMMA FirstStepOf ==
  ASSUME NEW c \in Commands, Refusal(c) = "none"
  PROVE  /\ FirstStep(c.tool) \in {"reading", "walking", "launching", "measuring", "setting"}
         /\ FirstStep(c.tool) = "reading" <=> c.tool = "windows.status.read"
         /\ FirstStep(c.tool) = "walking" <=> c.tool = "windows.files.search"
         /\ FirstStep(c.tool) = "launching" <=> c.tool \in Launched
         /\ FirstStep(c.tool) = "setting" <=> c.tool = "windows.media.volume.set"
<1>1. c.tool \in {"windows.status.read", "windows.files.search", "windows.app.open",
                  "windows.project.open", "windows.media.volume.get",
                  "windows.media.volume.set"}
  BY CheckedCommand DEF Capability
<1>2. CASE c.tool = "windows.status.read"
  BY <1>2 DEF FirstStep, Launched
<1>3. CASE c.tool = "windows.files.search"
  BY <1>3 DEF FirstStep, Launched
<1>4. CASE c.tool \in Launched
  BY <1>4 DEF FirstStep, Launched
<1>5. CASE c.tool = "windows.media.volume.get"
  BY <1>5 DEF FirstStep, Launched
<1>6. CASE c.tool = "windows.media.volume.set"
  BY <1>6 DEF FirstStep, Launched
<1> QED
  BY <1>1, <1>2, <1>3, <1>4, <1>5, <1>6 DEF Launched

-----------------------------------------------------------------------------
(* Steps of a command                                                       *)

LEMMA ExecuteStep ==
  ASSUME DesktopInv, Execute
  PROVE  DesktopInv'
<1>1. PICK c \in Commands :
        /\ command' = c
        /\ IF Refusal(c) # "none"
           THEN Failed(Refusal(c)) /\ UNCHANGED walk
           ELSE /\ step' = FirstStep(c.tool)
                /\ walk' = [NoWalk EXCEPT !.todo = {Root}]
                /\ UNCHANGED observation
  BY DEF Execute
<1>2. /\ touched' = {} /\ UNCHANGED <<linked, gone, process, volume>> /\ process = "none"
      /\ DesktopTyped
  BY DEF Execute, DesktopInv, Commanded
<1>3. CASE Refusal(c) # "none"
  <2>1. /\ step' = "done" /\ UNCHANGED walk
        /\ observation' = [status |-> "failed", code |-> Refusal(c), measured |-> 0]
    BY <1>1, <1>3 DEF Failed, Report
  <2>2. DesktopTyped' /\ Commanded'
    BY <1>1, <1>2, <2>1 DEF DesktopTyped, Commanded, Working
  <2>3. SearchIsSound'
    BY <1>1, <2>1, RefusalCodes DEF SearchIsSound
  <2>4. OutcomeIsObserved' /\ ~Searching'
    BY <1>2, <2>1 DEF OutcomeIsObserved, Searching
  <2> QED
    BY <2>2, <2>3, <2>4 DEF DesktopInv
<1>4. CASE Refusal(c) = "none"
  <2>1. /\ step' = FirstStep(c.tool)
        /\ walk' = [todo |-> {Root}, names |-> {}, file |-> NoFile, scanned |-> 0,
                    found |-> {}, truncated |-> FALSE]
    BY <1>1, <1>4 DEF NoWalk
  <2>2. /\ step' \in {"reading", "walking", "launching", "measuring", "setting"}
        /\ step' = "reading" <=> c.tool = "windows.status.read"
        /\ step' = "walking" <=> c.tool = "windows.files.search"
        /\ step' = "launching" <=> c.tool \in Launched
        /\ step' = "setting" <=> c.tool = "windows.media.volume.set"
    BY <1>4, <2>1, FirstStepOf
  <2>3. DesktopTyped'
    BY <1>1, <1>2, <2>1, <2>2 DEF DesktopTyped, WalkRecord
  <2>4. Refusal(command)' = "none"
    BY <1>1, <1>4 DEF Refusal, DigestMatches
  <2>5. Commanded'
    BY <1>1, <1>2, <2>2, <2>4 DEF Commanded, Working, Searching
  <2>6. SearchIsSound'
    BY <2>2 DEF SearchIsSound
  <2>7. OutcomeIsObserved'
    BY <1>1, <1>2, <1>4, <2>2, CheckedCommand DEF OutcomeIsObserved
  <2>8. WalkSound'
    <3>1. FoundSound' /\ WalkClean'
      BY <2>1, <2>2 DEF FoundSound, WalkClean
    <3>2. \A f : Reached(f)'
      BY <2>1 DEF Reached
    <3> QED
      BY <3>1, <3>2 DEF WalkSound
  <2> QED
    BY <2>3, <2>5, <2>6, <2>7, <2>8 DEF DesktopInv
<1> QED
  BY <1>3, <1>4

(* Steps of a command that searches nothing.                                *)
LEMMA OtherTools ==
  ASSUME DesktopInv, ReadStatus \/ Launch \/ Observe \/ SetVolume \/ MeasureVolume
  PROVE  DesktopInv'
<1>1. /\ UNCHANGED <<command, walk, linked, gone, touched>>
      /\ step \in {"reading", "launching", "observing", "setting", "measuring"}
  BY DEF ReadStatus, Launch, Observe, SetVolume, MeasureVolume, desktop
<1>2. /\ DesktopTyped /\ Commanded /\ command \in Commands /\ Refusal(command) = "none"
      /\ command.tool # "windows.files.search"
  BY <1>1 DEF DesktopInv, Commanded, Working, Searching
<1>3. /\ ~command.late /\ command.digest /\ command.bound /\ command.listed
      /\ Capability[command.tool] \in Installed
      /\ command.wanted \in Nat /\ volume \in Nat
  BY <1>2, CheckedCommand DEF DesktopTyped, WalkRecord
<1>4. Refusal(command)' = "none"
  BY <1>1, <1>2 DEF Refusal, DigestMatches
<1>5. ASSUME step' \in {"done", "observing", "measuring"}, volume' \in Nat,
             process' # process => process' # "none",
             step' = "observing" => process' # "none" /\ step = "launching",
             step' = "measuring" => step = "setting",
             step' = "done" /\ observation'.status = "succeeded" =>
               /\ command.tool \in Launched => process' # "none"
               /\ command.tool = "windows.media.volume.set" =>
                    Distance(observation'.measured, command.wanted) <= 1
      PROVE  DesktopInv'
  <2>1. DesktopTyped'
    BY <1>1, <1>2, <1>5 DEF DesktopTyped, WalkRecord
  <2>2. Commanded'
    BY <1>1, <1>2, <1>4, <1>5 DEF Commanded, Working, Searching, Launched
  <2>3. SearchIsSound' /\ ~Searching'
    BY <1>1, <1>2, <1>5 DEF SearchIsSound, Searching
  <2>4. OutcomeIsObserved'
    BY <1>1, <1>3, <1>5 DEF OutcomeIsObserved, Launched
  <2> QED
    BY <2>1, <2>2, <2>3, <2>4 DEF DesktopInv
<1>6. CASE ReadStatus
  <2>1. /\ step' = "done" /\ UNCHANGED <<process, volume>>
        /\ command.tool = "windows.status.read"
    BY <1>2, <1>6 DEF ReadStatus, Succeeded, Failed, Report, desktop, Commanded, Working
  <2> QED
    BY <1>3, <1>5, <2>1 DEF Launched
<1>7. CASE Launch
  <2>1. CASE step' = "done"
    BY <1>3, <1>5, <1>7, <2>1 DEF Launch, Failed, Report
  <2>2. CASE step' = "observing"
    BY <1>3, <1>5, <1>7, <2>2 DEF Launch, Failed, Report
  <2> QED
    BY <1>7, <2>1, <2>2 DEF Launch, Failed, Report
<1>8. CASE Observe
  <2>1. /\ step' = "done" /\ UNCHANGED <<process, volume>> /\ process # "none"
        /\ command.tool \in Launched
    BY <1>2, <1>8 DEF Observe, Succeeded, Failed, Report, desktop, Commanded, Working
  <2> QED
    BY <1>3, <1>5, <2>1 DEF Launched
<1>9. CASE SetVolume
  <2>1. CASE step' = "done"
    BY <1>3, <1>5, <1>9, <2>1 DEF SetVolume, Failed, Report
  <2>2. CASE step' = "measuring"
    BY <1>3, <1>5, <1>9, <2>2 DEF SetVolume, Failed, Report
  <2> QED
    BY <1>9, <2>1, <2>2 DEF SetVolume, Failed, Report
<1>10. CASE MeasureVolume
  <2>1. /\ step' = "done" /\ UNCHANGED <<process, volume>> /\ command.tool \notin Launched
    BY <1>2, <1>10 DEF MeasureVolume, Failed, Report, desktop, Commanded, Working
  <2>2. \/ observation'.status = "failed"
        \/ ~OutOfTolerance /\ observation'.measured = volume
    BY <1>10 DEF MeasureVolume, Failed, Report
  <2>3. Distance(volume, command.wanted) \in Int
    BY <1>3 DEF Distance
  <2> QED
    BY <1>3, <1>5, <2>1, <2>2, <2>3 DEF OutOfTolerance
<1> QED
  BY <1>6, <1>7, <1>8, <1>9, <1>10

LEMMA DeliverStep ==
  ASSUME DesktopInv, Deliver
  PROVE  DesktopInv'
<1>1. /\ step' = "idle" /\ command' = NoCommand /\ walk' = NoWalk /\ process' = "none"
      /\ linked' = {} /\ gone' = {} /\ touched' = {} /\ volume' = volume
  BY DEF Deliver
<1>2. DesktopTyped'
  BY <1>1 DEF DesktopInv, DesktopTyped, WalkRecord, NoWalk
<1> QED
  BY <1>1, <1>2 DEF DesktopInv, Commanded, Working, Searching, SearchIsSound, OutcomeIsObserved

-----------------------------------------------------------------------------
(* Steps of the desktop                                                     *)

(* A step that leaves the tree, the walk and its end as they are.           *)
LEMMA BystanderStep ==
  ASSUME DesktopInv, UNCHANGED <<execution, linked, gone, touched>>, volume' \in Nat,
         (process # "none") = (process' # "none")
  PROVE  DesktopInv'
<1>1. UNCHANGED <<command, step, walk, observation, linked, gone, touched>>
  BY DEF execution
<1>2. DesktopTyped' /\ Commanded'
  BY <1>1 DEF DesktopInv, DesktopTyped, Commanded, Working, Searching, Refusal, DigestMatches
<1>3. (Searching => WalkSound)'
  BY <1>1 DEF DesktopInv, Searching, WalkSound, FoundSound, WalkClean, Findable, Reached,
              Undisturbed, LeadsAway
<1>4. SearchIsSound'
  BY <1>1 DEF DesktopInv, SearchIsSound, Undisturbed, LeadsAway
<1>5. OutcomeIsObserved'
  BY <1>1 DEF DesktopInv, OutcomeIsObserved
<1> QED
  BY <1>2, <1>3, <1>4, <1>5 DEF DesktopInv

LEMMA DesktopSteps ==
  ASSUME DesktopInv,
         Exit \/ (\E level \in Volumes : TurnVolume(level)) \/ UNCHANGED desktopVars
  PROVE  DesktopInv'
<1>1. volume \in Nat /\ Volumes \subseteq Nat
  BY DesktopConstants DEF DesktopInv, DesktopTyped, WalkRecord
<1>2. CASE Exit
  BY <1>1, <1>2, BystanderStep DEF Exit
<1>3. CASE \E level \in Volumes : TurnVolume(level)
  BY <1>1, <1>3, BystanderStep DEF TurnVolume
<1>4. CASE UNCHANGED desktopVars
  BY <1>1, <1>4, BystanderStep DEF desktopVars, desktop
<1> QED
  BY <1>2, <1>3, <1>4

(* A path that is undisturbed after a change of the tree was so before, and *)
(* it leads where it led.                                                   *)
LEMMA TreeSteps ==
  ASSUME DesktopInv, NEW n \in Nodes,
         Replace(n) \/ Restore(n) \/ (n \in Files /\ Vanish(n))
  PROVE  DesktopInv'
<1>1. /\ UNCHANGED <<command, step, walk, observation, process, volume>> /\ step # "done"
      /\ touched' = touched \cup {n}
      /\ linked \ {n} = linked' \ {n} /\ linked' \subseteq linked \cup {n}
      /\ gone \subseteq gone' /\ gone' \subseteq gone \cup {n} /\ (gone' # gone => n \in Files)
  BY DEF Replace, Restore, Vanish, Change, execution
<1>2. DesktopTyped' /\ Commanded'
  BY <1>1 DEF DesktopInv, DesktopTyped, Commanded, Working, Searching, Refusal, DigestMatches
<1>3. ASSUME NEW f, Undisturbed(f)'
      PROVE  Undisturbed(f) /\ (LeadsAway(f)' <=> LeadsAway(f))
  <2>1. n \notin Path[f] /\ Undisturbed(f)
    BY <1>1, <1>3 DEF Undisturbed
  <2> QED
    BY <1>1, <2>1 DEF LeadsAway
<1>4. ASSUME Searching PROVE WalkSound'
  <2>1. WalkSound
    BY <1>4 DEF DesktopInv
  <2>2. WalkClean'
    BY <1>1 DEF WalkClean
  <2>3. FoundSound'
    BY <1>1, <1>3, <2>1 DEF WalkSound, FoundSound
  <2>4. ASSUME NEW f \in Matching, Findable(f)' PROVE Reached(f)'
    <3>1. Findable(f)
      BY <1>1, <1>3, <2>4 DEF Findable
    <3> QED
      BY <1>1, <2>1, <3>1 DEF WalkSound, Reached
  <2> QED
    BY <2>2, <2>3, <2>4 DEF WalkSound
<1>5. SearchIsSound' /\ OutcomeIsObserved'
  BY <1>1 DEF DesktopInv, SearchIsSound, OutcomeIsObserved
<1> QED
  BY <1>1, <1>2, <1>4, <1>5 DEF DesktopInv, Searching

-----------------------------------------------------------------------------
(* Steps of a search                                                        *)

LEMMA SearchCommand ==
  ASSUME DesktopInv, Searching
  PROVE  /\ command \in Commands /\ command.tool = "windows.files.search"
         /\ Refusal(command) = "none" /\ command.most \in Nat
         /\ command.tool \notin Launched /\ WalkSound /\ DesktopTyped
<1>1. Working
  BY DEF Searching, Working
<1>2. /\ command \in Commands /\ command.tool = "windows.files.search"
      /\ Refusal(command) = "none" /\ WalkSound /\ DesktopTyped
  BY <1>1 DEF DesktopInv, Commanded, Searching
<1> QED
  BY <1>2, CheckedCommand DEF Launched

(* A step of a search that goes on or ends keeps what is not about the walk. *)
LEMMA SearchGoesOn ==
  ASSUME DesktopInv, Searching, UNCHANGED <<command, desktop>>, DesktopTyped',
         Searching', WalkSound'
  PROVE  DesktopInv'
<1>1. UNCHANGED <<linked, gone, process, volume, changes, touched>>
  BY DEF desktop
<1>2. Commanded'
  BY <1>1, SearchCommand
     DEF Commanded, Working, Searching, Refusal, DigestMatches, Launched
<1>3. SearchIsSound' /\ OutcomeIsObserved'
  BY <1>1, SearchCommand DEF SearchIsSound, OutcomeIsObserved, DesktopInv, Searching
<1> QED
  BY <1>2, <1>3 DEF DesktopInv

LEMMA SearchEnds ==
  ASSUME DesktopInv, Searching, UNCHANGED <<command, desktop>>, DesktopTyped',
         step' = "done", SearchIsSound'
  PROVE  DesktopInv'
<1>1. UNCHANGED <<linked, gone, process, volume, changes, touched>>
  BY DEF desktop
<1>2. Commanded'
  BY <1>1, SearchCommand
     DEF Commanded, Working, Searching, Refusal, DigestMatches, Launched
<1>3. OutcomeIsObserved'
  BY <1>1, SearchCommand, CheckedCommand DEF OutcomeIsObserved, Launched
<1>4. ~Searching'
  BY DEF Searching
<1> QED
  BY <1>2, <1>3, <1>4 DEF DesktopInv

(* Where a walk that ends with these matches stands.                        *)
LEMMA SearchSucceeds ==
  ASSUME UNCHANGED <<command, linked, gone, touched>>, Succeeded, walk'.found \subseteq Matching,
         \A f \in walk'.found : Undisturbed(f) => ~LeadsAway(f),
         ~walk'.truncated /\ Cardinality(walk'.found) < command.most =>
            \A f \in Matching : Findable(f) => f \in walk'.found
  PROVE  SearchIsSound' /\ step' = "done"
  BY DEF Succeeded, Report, SearchIsSound, Undisturbed, LeadsAway, Findable

LEMMA SearchFails ==
  ASSUME UNCHANGED touched, NEW code, Failed(code),
         touched = {} => code \notin {"search_root_escape", "windows_executor_failed"}
  PROVE  SearchIsSound' /\ step' = "done"
  BY DEF Failed, Report, SearchIsSound

LEMMA EndWalkStep ==
  ASSUME DesktopInv, EndWalk
  PROVE  DesktopInv'
<1>1. /\ UNCHANGED <<command, walk, desktop>> /\ Searching /\ Succeeded
      /\ walk.todo = {} /\ walk.names = {} /\ walk.file = NoFile
  BY DEF EndWalk, Walking, Exhausted, Searching
<1>2. UNCHANGED <<linked, gone, process, volume, changes, touched>>
  BY <1>1 DEF desktop
<1>3. WalkSound /\ DesktopTyped
  BY <1>1, SearchCommand
<1>4. \A f \in Matching : Findable(f) => f \in walk.found
  BY <1>1, <1>3, DesktopConstants DEF WalkSound, Reached
<1>5. SearchIsSound' /\ step' = "done"
  BY <1>1, <1>2, <1>3, <1>4, SearchSucceeds DEF WalkSound, FoundSound
<1>6. DesktopTyped'
  BY <1>1, <1>2, <1>3, <1>5 DEF DesktopTyped, WalkRecord
<1> QED
  BY <1>1, <1>5, <1>6, SearchEnds

LEMMA ScanNameStep ==
  ASSUME DesktopInv, ScanName
  PROVE  DesktopInv'
<1>1. /\ UNCHANGED <<command, desktop>> /\ Searching /\ step = "walking" /\ walk.file = NoFile
      /\ UNCHANGED <<linked, gone, process, volume, changes, touched>>
  BY DEF ScanName, Walking, Searching, desktop
<1>2. WalkSound /\ DesktopTyped
  BY <1>1, SearchCommand
<1>3. PICK f \in walk.names, late \in BOOLEAN :
        \/ /\ walk' = [walk EXCEPT !.scanned = walk.scanned + 1, !.truncated = TRUE]
           /\ Succeeded
        \/ /\ walk' = [walk EXCEPT !.scanned = walk.scanned + 1, !.names = @ \ {f},
                         !.file = IF f \in Matching /\ ~IsLink(f) THEN f ELSE NoFile]
           /\ UNCHANGED <<step, observation>>
  BY DEF ScanName
<1>4. f \in Files /\ f \in Nodes /\ walk.scanned + 1 \in Nat
  BY <1>2 DEF DesktopTyped, WalkRecord, Nodes
<1>5. CASE /\ walk' = [walk EXCEPT !.scanned = walk.scanned + 1, !.truncated = TRUE]
           /\ Succeeded
  <2>1. walk'.truncated = TRUE /\ walk'.found = walk.found
    BY <1>2, <1>5 DEF DesktopTyped, WalkRecord
  <2>2. SearchIsSound' /\ step' = "done"
    BY <1>1, <1>2, <1>5, <2>1, SearchSucceeds DEF WalkSound, FoundSound
  <2>3. PICK scanned \in Nat : walk' = [walk EXCEPT !.scanned = scanned, !.truncated = TRUE]
    BY <1>4, <1>5
  <2>4. walk' \in WalkRecord
    BY <1>2, <2>3 DEF DesktopTyped, WalkRecord
  <2>5. DesktopTyped'
    BY <1>1, <1>2, <2>2, <2>4 DEF DesktopTyped, WalkRecord
  <2> QED
    BY <1>1, <2>2, <2>5, SearchEnds
<1>6. CASE /\ walk' = [walk EXCEPT !.scanned = walk.scanned + 1, !.names = @ \ {f},
                         !.file = IF f \in Matching /\ ~IsLink(f) THEN f ELSE NoFile]
           /\ UNCHANGED <<step, observation>>
  <2>1. PICK file \in Files \cup {NoFile} :
          file = IF f \in Matching /\ ~IsLink(f) THEN f ELSE NoFile
    BY <1>4
  <2>2. /\ walk'.found = walk.found /\ walk'.names = walk.names \ {f} /\ walk'.file = file
        /\ walk'.todo = walk.todo
    BY <1>2, <1>6, <2>1 DEF DesktopTyped, WalkRecord
  <2>3. DesktopTyped'
    <3>1. PICK scanned \in Nat :
            walk' = [walk EXCEPT !.scanned = scanned, !.names = @ \ {f}, !.file = file]
      BY <1>4, <1>6, <2>1
    <3>2. walk' \in WalkRecord
      BY <1>2, <3>1 DEF DesktopTyped, WalkRecord
    <3> QED
      BY <1>1, <1>2, <1>6, <3>2 DEF DesktopTyped, WalkRecord
  <2>4. FoundSound'
    BY <1>1, <1>2, <1>6, <2>1, <2>2 DEF WalkSound, FoundSound, Undisturbed, LeadsAway
  <2>5. ASSUME NEW g \in Matching, Findable(g) PROVE Reached(g)'
    <3>1. CASE g = f
      <4>1. ~IsLink(f)
        BY <1>4, <2>5, <3>1, PathSelf DEF Findable, LeadsAway, IsLink
      <4> QED
        BY <2>1, <2>2, <2>5, <3>1, <4>1 DEF Reached
    <3>2. CASE g # f
      BY <1>1, <1>2, <2>2, <2>5, <3>2, DesktopConstants DEF WalkSound, Reached
    <3> QED
      BY <3>1, <3>2
  <2>6. WalkClean'
    <3>1. ASSUME touched = {}, file # NoFile PROVE file \notin gone /\ ~LeadsAway(file)
      BY <1>2, <2>1, <3>1 DEF WalkSound, WalkClean, IsLink, LeadsAway
    <3> QED
      BY <1>1, <1>2, <2>2, <3>1 DEF WalkSound, WalkClean, LeadsAway
  <2>7. WalkSound'
    BY <1>1, <2>4, <2>5, <2>6 DEF WalkSound, Findable, Undisturbed, LeadsAway
  <2> QED
    BY <1>1, <1>6, <2>3, <2>7, SearchGoesOn DEF Searching
<1> QED
  BY <1>3, <1>5, <1>6

LEMMA ResolveMatchStep ==
  ASSUME DesktopInv, ResolveMatch
  PROVE  DesktopInv'
<1>1. /\ UNCHANGED <<command, walk, desktop>> /\ Searching /\ step = "walking"
      /\ walk.file # NoFile
      /\ UNCHANGED <<linked, gone, process, volume, changes, touched>>
  BY DEF ResolveMatch, Searching, desktop
<1>2. WalkSound /\ DesktopTyped
  BY <1>1, SearchCommand
<1>3. ASSUME NEW code \in {"windows_executor_failed", "search_root_escape"}, Failed(code),
             walk.file \in gone \/ LeadsAway(walk.file)
      PROVE  DesktopInv'
  <2>1. touched # {}
    BY <1>1, <1>2, <1>3 DEF WalkSound, WalkClean
  <2>2. SearchIsSound' /\ step' = "done"
    BY <1>1, <1>3, <2>1, SearchFails
  <2>3. DesktopTyped'
    BY <1>1, <1>2, <2>2 DEF DesktopTyped, WalkRecord
  <2> QED
    BY <1>1, <2>2, <2>3, SearchEnds
<1>4. CASE step' = "describing" /\ Contained(walk.file)
  <2>1. DesktopTyped'
    BY <1>1, <1>2, <1>4 DEF DesktopTyped, WalkRecord
  <2>2. WalkSound'
    BY <1>1, <1>2, <1>4
       DEF WalkSound, FoundSound, WalkClean, Findable, Reached, Undisturbed, LeadsAway, Contained
  <2> QED
    BY <1>1, <1>4, <2>1, <2>2, SearchGoesOn DEF Searching
<1> QED
  BY <1>3, <1>4 DEF ResolveMatch, Contained

LEMMA DescribeMatchStep ==
  ASSUME DesktopInv, DescribeMatch
  PROVE  DesktopInv'
<1>1. /\ UNCHANGED <<command, desktop>> /\ Searching /\ step = "describing"
      /\ UNCHANGED <<linked, gone, process, volume, changes, touched>>
  BY DEF DescribeMatch, Searching, desktop
<1>2. WalkSound /\ DesktopTyped /\ command.most \in Nat
  BY <1>1, SearchCommand
<1>3. walk.file # NoFile /\ walk.file \in Matching /\ walk.file \in Files
  BY <1>1, <1>2 DEF WalkSound, FoundSound, DesktopTyped, WalkRecord
<1>4. CASE walk.file \in gone
  <2>1. UNCHANGED walk /\ Failed("windows_executor_failed")
    BY <1>4 DEF DescribeMatch
  <2>2. touched # {}
    BY <1>2, <1>3, <1>4 DEF WalkSound, WalkClean
  <2>3. SearchIsSound' /\ step' = "done"
    BY <1>1, <2>1, <2>2, SearchFails
  <2>4. DesktopTyped'
    BY <1>1, <1>2, <2>1, <2>3 DEF DesktopTyped, WalkRecord
  <2> QED
    BY <1>1, <2>3, <2>4, SearchEnds
<1>5. CASE walk.file \notin gone
  <2>1. PICK found \in SUBSET Files : found = walk.found \cup {walk.file}
    BY <1>2, <1>3 DEF DesktopTyped, WalkRecord
  <2>2. /\ found \subseteq Matching
        /\ \A f \in found : Undisturbed(f) => ~LeadsAway(f)
    BY <1>1, <1>2, <1>3, <2>1 DEF WalkSound, FoundSound
  <2>3. CASE Cardinality(found) >= command.most
    <3>1. /\ Succeeded
          /\ walk' = [walk EXCEPT !.file = NoFile, !.found = found,
                                  !.truncated = walk.scanned < MaxEntries]
      BY <1>5, <2>1, <2>3 DEF DescribeMatch
    <3>2. walk'.found = found
      BY <1>2, <3>1 DEF DesktopTyped, WalkRecord
    <3>3. Cardinality(found) \in Nat
      <4>1. IsFiniteSet(found)
        BY DesktopConstants, FS_Subset
      <4> QED
        BY <4>1, FS_CardinalityType
    <3>4. SearchIsSound' /\ step' = "done"
      BY <1>1, <1>2, <2>2, <2>3, <3>1, <3>2, <3>3, SearchSucceeds
    <3>5. DesktopTyped'
      <4>1. (walk.scanned < MaxEntries) \in BOOLEAN
        OBVIOUS
      <4>2. walk' \in WalkRecord
        BY <1>2, <3>1, <4>1 DEF DesktopTyped, WalkRecord
      <4> QED
        BY <1>1, <1>2, <3>4, <4>2 DEF DesktopTyped, WalkRecord
    <3> QED
      BY <1>1, <3>4, <3>5, SearchEnds
  <2>4. CASE ~(Cardinality(found) >= command.most)
    <3>1. /\ step' = "walking"
          /\ walk' = [walk EXCEPT !.file = NoFile, !.found = found]
      BY <1>5, <2>1, <2>4 DEF DescribeMatch
    <3>2. /\ walk'.found = found /\ walk'.file = NoFile /\ walk'.todo = walk.todo
          /\ walk'.names = walk.names
      BY <1>2, <3>1 DEF DesktopTyped, WalkRecord
    <3>3. DesktopTyped'
      <4>1. walk' \in WalkRecord
        BY <1>2, <3>1 DEF DesktopTyped, WalkRecord
      <4> QED
        BY <1>1, <1>2, <3>1, <4>1 DEF DesktopTyped, WalkRecord
    <3>4. FoundSound' /\ WalkClean'
      BY <1>1, <1>2, <2>2, <3>1, <3>2
         DEF WalkSound, FoundSound, WalkClean, Undisturbed, LeadsAway
    <3>5. \A f \in Matching : Findable(f) => Reached(f)'
      BY <1>2, <2>1, <3>2 DEF WalkSound, Reached
    <3>6. WalkSound'
      BY <1>1, <3>4, <3>5 DEF WalkSound, Findable, Undisturbed, LeadsAway
    <3> QED
      BY <1>1, <3>1, <3>3, <3>6, SearchGoesOn DEF Searching
  <2> QED
    BY <2>3, <2>4
<1> QED
  BY <1>4, <1>5

(* A directory that is walked hands on to the next one on every path that   *)
(* leads through it.                                                        *)
LEMMA DescendStep ==
  ASSUME DesktopInv, Descend
  PROVE  DesktopInv'
<1>1. /\ UNCHANGED <<command, step, observation, desktop>> /\ Searching /\ step = "walking"
      /\ walk.file = NoFile /\ walk.names = {}
      /\ UNCHANGED <<linked, gone, process, volume, changes, touched>>
  BY DEF Descend, Walking, Searching, desktop
<1>2. WalkSound /\ DesktopTyped
  BY <1>1, SearchCommand
<1> DEFINE Below(d) == {n \in Nodes \ gone : Parent[n] = d}
           Safe(d) == {n \in Below(d) \cap Dirs : ~IsLink(n)}
<1>3. PICK d \in walk.todo :
        walk' = [walk EXCEPT !.todo = (@ \ {d}) \cup Safe(d), !.names = Below(d) \cap Files]
  BY DEF Descend
<1>4. /\ d \in Dirs \cup {Root} /\ Safe(d) \subseteq Dirs /\ Dirs \subseteq Nodes
      /\ Files \subseteq Nodes
  BY <1>2 DEF DesktopTyped, WalkRecord, Nodes
<1>5. /\ walk'.todo = (walk.todo \ {d}) \cup Safe(d) /\ walk'.names = Below(d) \cap Files
      /\ walk'.file = NoFile /\ walk'.found = walk.found
  BY <1>1, <1>2, <1>3 DEF DesktopTyped, WalkRecord
<1>6. DesktopTyped'
  <2>1. (walk.todo \ {d}) \cup Safe(d) \subseteq Dirs \cup {Root}
    BY <1>2, <1>4 DEF DesktopTyped, WalkRecord
  <2>2. walk' \in WalkRecord
    <3> HIDE DEF Below, Safe
    <3> QED
      BY <1>2, <1>3, <2>1 DEF DesktopTyped, WalkRecord
  <2> QED
    BY <1>1, <1>2, <2>2 DEF DesktopTyped, WalkRecord
<1>7. FoundSound'
  BY <1>1, <1>2, <1>5 DEF WalkSound, FoundSound, Undisturbed, LeadsAway
<1>8. ASSUME NEW f \in Matching, Findable(f) PROVE Reached(f)'
  <2>1. f \in Files /\ f \in Nodes /\ f \notin Dirs /\ f # Root
    BY <1>4, DesktopConstants DEF Nodes
  <2>2. Reached(f)
    BY <1>2, <1>8 DEF WalkSound
  <2>3. CASE f \in walk.found
    BY <1>5, <2>3 DEF Reached
  <2>4. ASSUME NEW e \in walk.todo, e = Root \/ e \in Path[f], e # d PROVE Reached(f)'
    BY <1>5, <2>4 DEF Reached
  <2>5. CASE d = Root \/ d \in Path[f]
    <3>1. PICK c \in Path[f] : Parent[c] = d
      <4>1. d # f
        BY <1>4, <2>1
      <4> QED
        BY <2>1, <2>5, <4>1, PathChild
    <3>2. c \in Nodes /\ c \in {f} \cup Dirs /\ c \notin linked
      BY <1>8, <2>1, PathSelf, PathDirs DEF Findable, LeadsAway
    <3>3. CASE c = f
      BY <1>5, <1>8, <2>1, <3>1, <3>3 DEF Reached, Findable
    <3>4. CASE c # f
      <4>1. c \in Dirs /\ c \notin gone
        BY <1>2, <3>2, <3>4, DesktopConstants DEF DesktopTyped, WalkRecord
      <4>2. c \in Safe(d)
        BY <3>1, <3>2, <4>1 DEF IsLink
      <4> QED
        BY <1>5, <3>1, <4>2 DEF Reached
    <3> QED
      BY <3>3, <3>4
  <2> QED
    BY <1>1, <2>1, <2>2, <2>3, <2>4, <2>5, DesktopConstants DEF Reached
<1>9. WalkClean'
  <2>1. ASSUME touched = {}, NEW c \in Below(d) PROVE (Path[c] \ {c}) \cap linked = {}
    <3>1. c \in Nodes /\ Parent[c] = d
      BY <2>1
    <3>2. d # Root => Path[d] \cap linked = {}
      BY <1>2, <2>1 DEF WalkSound, WalkClean
    <3> QED
      BY <3>1, <3>2, PathAbove
  <2>2. ASSUME touched = {}, NEW c \in Safe(d) PROVE Path[c] \cap linked = {}
    BY <2>1, <2>2 DEF IsLink
  <2>3. ASSUME touched = {}, NEW c \in walk.todo \ {Root} PROVE Path[c] \cap linked = {}
    BY <1>2, <2>3 DEF WalkSound, WalkClean
  <2> QED
    BY <1>1, <1>5, <2>1, <2>2, <2>3 DEF WalkClean
<1>10. WalkSound'
  BY <1>1, <1>7, <1>8, <1>9 DEF WalkSound, Findable, Undisturbed, LeadsAway
<1> QED
  BY <1>1, <1>6, <1>10, SearchGoesOn DEF Searching

(* A directory that cannot be listed takes what is below it out of reach,   *)
(* and nothing below it counts as undisturbed any more.                     *)
LEMMA ListingFailsStep ==
  ASSUME DesktopInv, ListingFails
  PROVE  DesktopInv'
<1>1. /\ UNCHANGED <<command, step, observation, linked, gone, process, volume>>
      /\ Searching /\ step = "walking" /\ walk.file = NoFile
  BY DEF ListingFails, Walking, Searching
<1>2. WalkSound /\ DesktopTyped
  BY <1>1, SearchCommand
<1>3. PICK d \in walk.todo :
        /\ walk' = [walk EXCEPT !.todo = @ \ {d}]
        /\ touched' = touched \cup IF d = Root THEN Nodes ELSE {d}
  BY DEF ListingFails
<1>4. d \in Dirs \cup {Root} /\ Dirs \subseteq Nodes /\ Files \subseteq Nodes
  BY <1>2 DEF DesktopTyped, WalkRecord, Nodes
<1>5. /\ walk'.todo = walk.todo \ {d} /\ walk'.names = walk.names
      /\ walk'.file = walk.file /\ walk'.found = walk.found
  BY <1>2, <1>3 DEF DesktopTyped, WalkRecord
<1>6. DesktopTyped'
  <2>1. walk' \in WalkRecord
    BY <1>2, <1>3 DEF DesktopTyped, WalkRecord
  <2>2. touched' \subseteq Nodes
    BY <1>2, <1>3, <1>4 DEF DesktopTyped
  <2> QED
    BY <1>1, <1>2, <2>1, <2>2 DEF DesktopTyped
<1>7. touched \subseteq touched' /\ \A f : Undisturbed(f)' => Undisturbed(f)
  BY <1>3 DEF Undisturbed
<1>8. FoundSound'
  BY <1>1, <1>2, <1>5, <1>7 DEF WalkSound, FoundSound, LeadsAway
<1>9. ASSUME NEW f \in Matching, Findable(f)' PROVE Reached(f)'
  <2>1. f \in Path[f] /\ f \in Nodes
    BY <1>4, PathSelf, DesktopConstants
  <2>2. Findable(f)
    BY <1>1, <1>7, <1>9 DEF Findable, LeadsAway
  <2>3. d # Root /\ d \notin Path[f]
    BY <1>3, <1>9, <2>1 DEF Findable, Undisturbed
  <2>4. Reached(f)
    BY <1>2, <2>2 DEF WalkSound
  <2> QED
    BY <1>5, <2>3, <2>4 DEF Reached
<1>10. WalkClean'
  BY <1>1, <1>2, <1>5, <1>7 DEF WalkSound, WalkClean, LeadsAway
<1>11. WalkSound' /\ Searching'
  BY <1>1, <1>8, <1>9, <1>10 DEF WalkSound, Searching
<1>12. Commanded'
  BY <1>1, SearchCommand
     DEF Commanded, Working, Searching, Refusal, DigestMatches, Launched
<1>13. SearchIsSound' /\ OutcomeIsObserved'
  BY <1>1, SearchCommand DEF SearchIsSound, OutcomeIsObserved, DesktopInv, Searching
<1> QED
  BY <1>6, <1>11, <1>12, <1>13 DEF DesktopInv

-----------------------------------------------------------------------------
(* The invariant                                                            *)

LEMMA InitDesktop == DesktopInit => DesktopInv
<1> SUFFICES ASSUME DesktopInit PROVE DesktopInv
  OBVIOUS
<1>1. /\ step = "idle" /\ process = "none" /\ command = NoCommand /\ walk = NoWalk
      /\ linked = {} /\ gone = {} /\ touched = {} /\ volume \in Nat
  BY DesktopConstants DEF DesktopInit
<1>2. DesktopTyped
  BY <1>1 DEF DesktopTyped, WalkRecord, NoWalk
<1> QED
  BY <1>1, <1>2 DEF DesktopInv, Commanded, Working, Searching, SearchIsSound, OutcomeIsObserved

LEMMA NextDesktop == DesktopInv /\ [DesktopNext]_desktopVars => DesktopInv'
<1> SUFFICES ASSUME DesktopInv, [DesktopNext]_desktopVars PROVE DesktopInv'
  OBVIOUS
<1>1. CASE Execute \/ Deliver
  BY <1>1, ExecuteStep, DeliverStep
<1>2. CASE ReadStatus \/ Launch \/ Observe \/ SetVolume \/ MeasureVolume
  BY <1>2, OtherTools
<1>3. CASE Descend \/ ListingFails \/ EndWalk \/ ScanName \/ ResolveMatch \/ DescribeMatch
  BY <1>3, DescendStep, ListingFailsStep, EndWalkStep,
     ScanNameStep, ResolveMatchStep, DescribeMatchStep
<1>4. ASSUME NEW n \in Nodes, Replace(n) \/ Restore(n) PROVE DesktopInv'
  BY <1>4, TreeSteps
<1>5. ASSUME NEW f \in Files, Vanish(f) PROVE DesktopInv'
  BY <1>5, TreeSteps DEF Nodes
<1>6. CASE Exit \/ (\E level \in Volumes : TurnVolume(level)) \/ UNCHANGED desktopVars
  BY <1>6, DesktopSteps
<1> QED
  BY <1>1, <1>2, <1>3, <1>4, <1>5, <1>6 DEF DesktopNext

LEMMA DesktopSafe == DesktopSpec => []DesktopInv
<1> QED
  BY InitDesktop, NextDesktop, PTL DEF DesktopSpec

(* A search that succeeds without having been cut short names every match   *)
(* that was within reach all the time and no match that led out of the      *)
(* root all the time, however the tree changes between its three looks at a *)
(* file, and a search of a tree nobody touched does not fail.               *)
THEOREM SearchesAreSound == DesktopSpec => []SearchIsSound
<1>1. DesktopInv => SearchIsSound
  BY DEF DesktopInv
<1> QED
  BY <1>1, DesktopSafe, PTL

(* The desktop is changed only for a command that passed every check, and   *)
(* success is reported only for an effect that was observed.                *)
THEOREM OutcomesAreObserved == DesktopSpec => []OutcomeIsObserved
<1>1. DesktopInv => OutcomeIsObserved
  BY DEF DesktopInv
<1> QED
  BY <1>1, DesktopSafe, PTL

-----------------------------------------------------------------------------
Rows == [time : Nat \ {0}, boot : Nat, reboot : BOOLEAN, missing : BOOLEAN,
         host : {"fit", "breach", "swapping"}, smart : {"passed", "degraded", "unavailable"}]
States == [epoch : Nat, boot : Nat, number : Nat, smart : {"passed", "degraded", "unavailable"}]
Realities == [troubles : Nat, rebooted : Nat, failed : Nat, spell : Nat, longest : Nat,
              late : BOOLEAN]

GateTyped ==
    /\ clock \in Nat /\ boot \in Nat /\ due \in Nat \ {0}
    /\ host \in {"fit", "breach", "unseen", "swapping"}
    /\ disk \in {"passed", "degraded", "unavailable"}
    /\ smartctl \in BOOLEAN /\ unasked \in BOOLEAN
    /\ dossier \in BOOLEAN
    /\ rows \in Seq(Rows)
    /\ state \in States
    /\ run \in {"none", "append", "save"}
    /\ reality \in Realities

Newest == rows[Len(rows)]

(* The rows are in the order of time, and none is of the future.            *)
InTime ==
    /\ run # "none" => rows # <<>>
    /\ \A i \in DOMAIN rows : rows[i].time <= clock
    /\ \A i, j \in DOMAIN rows : i <= j => rows[i].time <= rows[j].time
    /\ state.epoch <= clock

(* A row later than the first reboot is of another boot.                    *)
RebootSeen ==
    /\ reality.rebooted > 0 => boot # 0
    /\ \A i \in DOMAIN rows :
          reality.rebooted > 0 /\ rows[i].time > reality.rebooted => rows[i].boot # 0

(* No row falls between start and end unless it tells of a breach.          *)
Cut(rs, start, end) ==
    \E k \in 0..Len(rs) :
        /\ \A i \in 1..k : rs[i].time <= start
        /\ \A i \in (k + 1)..Len(rs) : rs[i].host = "breach" \/ rs[i].time >= end

(* The spell under way and the longest one so far are such cuts.            *)
SpellsSeen ==
    /\ reality.spell <= clock
    /\ host # "breach" => reality.spell = 0
    /\ Cut(rows, clock - reality.spell, clock + 1)
    /\ \E start \in Nat :
          start + reality.longest <= clock /\ Cut(rows, start, start + reality.longest)

(* What is at b no later than the failure, or than a sample known to be     *)
(* missing, or than the oldest row, which trimming may have left behind it. *)
Known(rs, failed, b) ==
    \/ b <= failed
    \/ \E i \in DOMAIN rs : rs[i].missing /\ b <= rs[i].time
    \/ rs # <<>> /\ b <= rs[1].time

Within(rs, failed, time, steps) ==
    \E b \in Nat : Known(rs, failed, b) /\ time <= b + steps * MissAfter

(* A sample that still passes after the failure repeats an older reading,   *)
(* so it is no further from the failure than its place in the SMART cycle,  *)
(* one tolerated gap for each step, as long as every due reading since then *)
(* found smartctl.                                                          *)
DiskSeen ==
    /\ disk = "passed" <=> reality.failed = 0
    /\ reality.failed <= clock
    /\ state.smart = "passed" => state.number > 0
    /\ state.number > 0 => state.epoch > 0
    /\ reality.failed > 0 /\ ~unasked =>
         /\ state.smart = "passed" =>
              Within(rows, reality.failed, state.epoch, (state.number - 1) % SmartEvery)
         /\ run # "none" /\ Newest.smart = "passed" =>
              Within(rows, reality.failed, Newest.time, state.number % SmartEvery)
         /\ rows # <<>> /\ Newest.smart = "passed" =>
              Within(rows, reality.failed, Newest.time, SmartEvery - 1)

(* Without trouble and lateness the samples are one interval apart and fit. *)
Smooth == reality.troubles = 0 /\ ~reality.late /\ Len(rows) < MaxRows
Fit(i) ==
    /\ rows[i].time = 1 + (i - 1) * Interval
    /\ rows[i].boot = 0 /\ ~rows[i].reboot /\ ~rows[i].missing
    /\ rows[i].host = "fit" /\ rows[i].smart = "passed"
AllFit ==
    /\ boot = 0 /\ host = "fit" /\ disk = "passed" /\ smartctl
    /\ due = 1 + Len(rows) * Interval /\ clock <= due
    /\ \A i \in DOMAIN rows : Fit(i)
    /\ run = "none" =>
         /\ rows = <<>> => state.number = 0
         /\ rows # <<>> =>
              state.number > 0 /\ state.epoch = Newest.time /\ state.boot = 0
              /\ state.smart = "passed"

GateInv ==
    /\ GateTyped /\ InTime
    /\ RebootSeen /\ SpellsSeen /\ DiskSeen
    /\ Smooth => AllFit

-----------------------------------------------------------------------------
(* Steps of the SMART cycle                                                 *)

LEMMA SmartEveryTyped == SmartEvery \in Nat \ {0} /\ MissAfter \in Nat \ {0}
                         /\ Interval \in Nat \ {0} /\ MaxRows \in Nat \ {0}
                         /\ MaxGap \in Nat \ {0} /\ Day \in Nat \ {0} /\ Week \in Nat \ {0}
                         /\ MinSamples \in Nat
  BY GateConstants

LEMMA Remainder ==
  ASSUME NEW S \in Nat \ {0}, NEW q \in Nat, NEW r \in Nat, r < S
  PROVE  (S * q + r) % S = r
<1> DEFINE n == S * q + r
           k == n \div S
           m == n % S
<1>1. n \in Nat
  OBVIOUS
<1>2. k \in Nat /\ m \in 0..(S - 1) /\ n = S * k + m
  BY <1>1
<1> HIDE DEF k, m
<1>3. k = q
  <2>1. CASE k < q
    <3>1. S * (k + 1) <= S * q
      BY <1>2, <2>1
    <3>2. S * (k + 1) = S * k + S
      BY <1>2
    <3> QED
      BY <1>2, <3>1, <3>2
  <2>2. CASE k > q
    <3>1. S * (q + 1) <= S * k
      BY <1>2, <2>2
    <3>2. S * (q + 1) = S * q + S
      BY <1>2
    <3> QED
      BY <1>2, <3>1, <3>2
  <2> QED
    BY <1>2, <2>1, <2>2
<1>4. m = r
  BY <1>2, <1>3
<1> QED
  BY <1>4 DEF m

LEMMA FirstOfCycle ==
  ASSUME NEW S \in Nat \ {0}, NEW q \in Nat
  PROVE  (S * q + 1) % S = 1 % S
<1>1. CASE S = 1
  BY <1>1
<1>2. CASE S > 1
  <2>1. (S * q + 1) % S = 1
    BY <1>2, Remainder
  <2>2. 1 % S = 1
    BY <1>2
  <2> QED
    BY <2>1, <2>2
<1> QED
  BY <1>1, <1>2

(* A number at which SMART is not read is one step on in its cycle.         *)
LEMMA OneStepOn ==
  ASSUME NEW n \in Nat \ {0}, ~SmartDue(n + 1)
  PROVE  /\ n % SmartEvery = ((n - 1) % SmartEvery) + 1
         /\ n % SmartEvery <= SmartEvery - 1
         /\ n % SmartEvery \in Nat /\ (n - 1) % SmartEvery \in Nat
<1> DEFINE S == SmartEvery
           q == (n - 1) \div S
           p == (n - 1) % S
<1>1. S \in Nat \ {0}
  BY SmartEveryTyped
<1>2. q \in Nat /\ p \in 0..(S - 1) /\ n - 1 = S * q + p
  BY <1>1
<1>3. p + 1 # S
  <2> SUFFICES ASSUME p + 1 = S PROVE FALSE
    OBVIOUS
  <2>1. n = S * q + S
    BY <1>1, <1>2
  <2>2. S * (q + 1) = S * q + S
    BY <1>1, <1>2
  <2>3. n + 1 = S * (q + 1) + 1
    BY <1>1, <1>2, <2>1, <2>2
  <2>4. (S * (q + 1) + 1) % S = 1 % S
    <3>1. q + 1 \in Nat
      BY <1>1, <1>2
    <3> HIDE DEF S, q
    <3> QED
      BY <1>1, <3>1, FirstOfCycle
  <2> QED
    BY <2>3, <2>4 DEF SmartDue
<1>4. n = S * q + (p + 1) /\ p + 1 \in 0..(S - 1)
  BY <1>1, <1>2, <1>3
<1>5. n % S = p + 1
  <2>1. (S * q + (p + 1)) % S = p + 1
    <3>1. q \in Nat /\ p + 1 \in Nat /\ p + 1 < S
      BY <1>1, <1>2, <1>4
    <3> HIDE DEF S, q, p
    <3> QED
      BY <1>1, <3>1, Remainder
  <2> QED
    BY <1>4, <2>1
<1> QED
  BY <1>2, <1>4, <1>5

LEMMA FurtherSteps ==
  ASSUME NEW p \in Nat, NEW q \in Nat, NEW M \in Nat, p <= q
  PROVE  p * M <= q * M /\ p * M \in Nat /\ (p + 1) * M = p * M + M
  OBVIOUS

-----------------------------------------------------------------------------
(* What a longer or a trimmed file still tells                              *)

Dropped(rs, ts, n) ==
    /\ n \in 0..(Len(rs) - 1)
    /\ ts \in Seq(Rows)
    /\ Len(ts) = Len(rs) - n
    /\ \A i \in 1..Len(ts) : ts[i] = rs[i + n]

LEMMA Appended ==
  ASSUME NEW rs \in Seq(Rows), NEW row \in Rows
  PROVE  /\ Append(rs, row) \in Seq(Rows)
         /\ Append(rs, row) # <<>>
         /\ Len(Append(rs, row)) = Len(rs) + 1
         /\ \A i \in 1..Len(rs) : Append(rs, row)[i] = rs[i]
         /\ Append(rs, row)[Len(rs) + 1] = row
  OBVIOUS

LEMMA CutAppend ==
  ASSUME NEW rs \in Seq(Rows), NEW row \in Rows, NEW start \in Nat, NEW end \in Nat,
         Cut(rs, start, end), row.host = "breach" \/ row.time >= end
  PROVE  Cut(Append(rs, row), start, end)
<1> DEFINE ts == Append(rs, row)
<1>1. Len(ts) = Len(rs) + 1 /\ ts[Len(rs) + 1] = row
      /\ \A i \in 1..Len(rs) : ts[i] = rs[i]
  BY Appended
<1> HIDE DEF ts
<1>2. PICK k \in 0..Len(rs) :
        /\ \A i \in 1..k : rs[i].time <= start
        /\ \A i \in (k + 1)..Len(rs) : rs[i].host = "breach" \/ rs[i].time >= end
  BY DEF Cut
<1>3. k \in 0..Len(ts)
  BY <1>1
<1>4. \A i \in 1..k : ts[i].time <= start
  BY <1>1, <1>2
<1>5. \A i \in (k + 1)..Len(ts) : ts[i].host = "breach" \/ ts[i].time >= end
  BY <1>1, <1>2
<1>6. Cut(ts, start, end)
  BY <1>3, <1>4, <1>5 DEF Cut
<1> QED
  BY <1>6 DEF ts

LEMMA CutDropped ==
  ASSUME NEW rs \in Seq(Rows), NEW ts, NEW n, Dropped(rs, ts, n),
         NEW start \in Nat, NEW end \in Nat, Cut(rs, start, end)
  PROVE  Cut(ts, start, end)
<1>1. PICK k \in 0..Len(rs) :
        /\ \A i \in 1..k : rs[i].time <= start
        /\ \A i \in (k + 1)..Len(rs) : rs[i].host = "breach" \/ rs[i].time >= end
  BY DEF Cut
<1>2. n \in Nat /\ Len(rs) \in Nat /\ Len(ts) \in Nat /\ Len(ts) = Len(rs) - n
      /\ \A i \in 1..Len(ts) : ts[i] = rs[i + n]
  BY DEF Dropped
<1>3. CASE k <= n
  <2>1. \A i \in 1..Len(ts) : i + n \in (k + 1)..Len(rs)
    BY <1>2, <1>3
  <2>2. \A i \in (0 + 1)..Len(ts) : ts[i].host = "breach" \/ ts[i].time >= end
    BY <1>1, <1>2, <2>1
  <2>3. 0 \in 0..Len(ts) /\ \A i \in 1..0 : ts[i].time <= start
    BY <1>2
  <2> QED
    BY <2>2, <2>3 DEF Cut
<1>4. CASE k > n
  <2>1. k - n \in 0..Len(ts)
    BY <1>2, <1>4
  <2>2. \A i \in 1..(k - n) : i \in 1..Len(ts) /\ i + n \in 1..k
    BY <1>2, <1>4
  <2>3. \A i \in ((k - n) + 1)..Len(ts) : i \in 1..Len(ts) /\ i + n \in (k + 1)..Len(rs)
    BY <1>2, <1>4
  <2>4. \A i \in 1..(k - n) : ts[i].time <= start
    BY <1>1, <1>2, <2>2
  <2>5. \A i \in ((k - n) + 1)..Len(ts) : ts[i].host = "breach" \/ ts[i].time >= end
    BY <1>1, <1>2, <2>3
  <2> QED
    BY <2>1, <2>4, <2>5 DEF Cut
<1> QED
  BY <1>2, <1>3, <1>4

LEMMA CutLast ==
  ASSUME NEW rs \in Seq(Rows), NEW start \in Nat, NEW end \in Nat,
         \A i \in DOMAIN rs : rs[i].time <= start
  PROVE  Cut(rs, start, end)
<1>1. Len(rs) \in 0..Len(rs) /\ \A i \in 1..Len(rs) : rs[i].time <= start
  OBVIOUS
<1>2. \A i \in (Len(rs) + 1)..Len(rs) : rs[i].host = "breach" \/ rs[i].time >= end
  OBVIOUS
<1> QED
  BY <1>1, <1>2 DEF Cut

LEMMA CutLater ==
  ASSUME NEW rs \in Seq(Rows), NEW start \in Nat, NEW end \in Nat, NEW later \in Nat,
         Cut(rs, start, end), \A i \in DOMAIN rs : rs[i].time < end
  PROVE  Cut(rs, start, later)
<1>1. PICK k \in 0..Len(rs) :
        /\ \A i \in 1..k : rs[i].time <= start
        /\ \A i \in (k + 1)..Len(rs) : rs[i].host = "breach" \/ rs[i].time >= end
  BY DEF Cut
<1>2. \A i \in (k + 1)..Len(rs) : rs[i].host = "breach"
  <2> SUFFICES ASSUME NEW i \in (k + 1)..Len(rs) PROVE rs[i].host = "breach"
    OBVIOUS
  <2>1. i \in DOMAIN rs /\ rs[i] \in Rows
    OBVIOUS
  <2>2. rs[i].time \in Nat /\ rs[i].time < end
    BY <2>1 DEF Rows
  <2> QED
    BY <1>1, <2>2
<1> QED
  BY <1>1, <1>2 DEF Cut

LEMMA WithinAppend ==
  ASSUME NEW rs \in Seq(Rows), NEW row \in Rows, NEW failed, NEW time, NEW steps,
         Within(rs, failed, time, steps)
  PROVE  Within(Append(rs, row), failed, time, steps)
<1> DEFINE ts == Append(rs, row)
<1>1. Len(ts) = Len(rs) + 1 /\ ts \in Seq(Rows) /\ \A i \in 1..Len(rs) : ts[i] = rs[i]
  BY Appended
<1> HIDE DEF ts
<1>2. PICK b \in Nat : Known(rs, failed, b) /\ time <= b + steps * MissAfter
  BY DEF Within
<1>3. Known(ts, failed, b)
  <2>1. ASSUME NEW i \in DOMAIN rs PROVE i \in DOMAIN ts /\ ts[i] = rs[i]
    BY <1>1
  <2>2. rs # <<>> => 1 \in DOMAIN rs /\ ts # <<>>
    BY <1>1
  <2> QED
    BY <1>2, <2>1, <2>2 DEF Known
<1>4. Within(ts, failed, time, steps)
  BY <1>2, <1>3 DEF Within
<1> QED
  BY <1>4 DEF ts

LEMMA WithinDropped ==
  ASSUME NEW rs \in Seq(Rows), NEW ts, NEW n, Dropped(rs, ts, n),
         \A i, j \in DOMAIN rs : i <= j => rs[i].time <= rs[j].time,
         NEW failed, NEW time, NEW steps, Within(rs, failed, time, steps)
  PROVE  Within(ts, failed, time, steps)
<1>1. PICK b \in Nat : Known(rs, failed, b) /\ time <= b + steps * MissAfter
  BY DEF Within
<1>2. n \in Nat /\ Len(rs) \in Nat /\ Len(ts) \in Nat /\ Len(ts) = Len(rs) - n /\ n < Len(rs)
      /\ ts \in Seq(Rows) /\ \A i \in 1..Len(ts) : ts[i] = rs[i + n]
  BY DEF Dropped
<1>3. 1 \in 1..Len(ts) /\ ts # <<>> /\ 1 + n \in DOMAIN rs /\ ts[1] = rs[1 + n]
  <2>1. 1 \in 1..Len(ts) /\ 1 + n \in 1..Len(rs)
    BY <1>2
  <2>2. DOMAIN rs = 1..Len(rs)
    OBVIOUS
  <2>3. ts # <<>> /\ ts[1] = rs[1 + n]
    BY <1>2, <2>1
  <2> QED
    BY <2>1, <2>2, <2>3
<1>4. ASSUME NEW i \in DOMAIN rs, b <= rs[i].time, i <= n PROVE b <= ts[1].time
  <2>1. rs[i].time <= rs[1 + n].time
    BY <1>2, <1>3, <1>4
  <2>2. rs[i] \in Rows /\ rs[1 + n] \in Rows
    BY <1>3
  <2>3. rs[i].time \in Nat /\ rs[1 + n].time \in Nat
    BY <2>2 DEF Rows
  <2> QED
    BY <1>3, <1>4, <2>1, <2>3
<1>5. ASSUME NEW i \in DOMAIN rs, i > n PROVE i - n \in DOMAIN ts /\ ts[i - n] = rs[i]
  <2>1. i \in 1..Len(rs) /\ DOMAIN ts = 1..Len(ts)
    BY <1>2
  <2>2. i - n \in 1..Len(ts) /\ (i - n) + n = i
    BY <1>2, <1>5, <2>1
  <2>3. ts[i - n] = rs[(i - n) + n]
    BY <1>2, <2>2
  <2> QED
    BY <2>1, <2>2, <2>3
<1>6. Known(ts, failed, b)
  <2>1. CASE b <= failed
    BY <2>1 DEF Known
  <2>2. ASSUME NEW i \in DOMAIN rs, rs[i].missing, b <= rs[i].time PROVE Known(ts, failed, b)
    <3>1. CASE i <= n
      BY <1>3, <1>4, <2>2, <3>1 DEF Known
    <3>2. CASE i > n
      BY <1>5, <2>2, <3>2 DEF Known
    <3> QED
      BY <1>2, <3>1, <3>2
  <2>3. CASE rs # <<>> /\ b <= rs[1].time
    <3>1. 1 \in DOMAIN rs
      BY <2>3
    <3>2. CASE n = 0
      BY <1>3, <2>3, <3>2 DEF Known
    <3>3. CASE n > 0
      BY <1>2, <1>3, <1>4, <2>3, <3>1, <3>3 DEF Known
    <3> QED
      BY <1>2, <3>2, <3>3
  <2> QED
    BY <1>1, <2>1, <2>2, <2>3 DEF Known
<1> QED
  BY <1>1, <1>6 DEF Within

LEMMA WithinNow ==
  ASSUME NEW rs, NEW failed \in Nat, NEW time \in Nat, time <= failed, NEW steps \in Nat
  PROVE  Within(rs, failed, time, steps)
<1>1. steps * MissAfter \in Nat
  BY SmartEveryTyped
<1>2. Known(rs, failed, failed)
  BY DEF Known
<1> QED
  BY <1>1, <1>2 DEF Within

-----------------------------------------------------------------------------
(* What the steps do                                                        *)

Taken == [time |-> clock, boot |-> boot, reboot |-> Rebooted, missing |-> Gap > MissAfter,
          host |-> Found, smart |-> SmartNow]

LEMMA TakenTyped ==
  ASSUME GateTyped, TakeSample
  PROVE  /\ Taken \in Rows /\ rows' = Append(rows, Taken)
         /\ Taken.time = clock /\ Taken.boot = boot /\ Taken.host = Found
         /\ Taken.missing <=> Gap > MissAfter
         /\ Taken.smart = SmartNow
         /\ Taken.reboot <=> Rebooted
<1>1. clock \in Nat \ {0}
  BY DEF TakeSample, GateTyped
<1>2. Rebooted \in BOOLEAN /\ (Gap > MissAfter) \in BOOLEAN
  BY DEF Rebooted
<1>3. SmartNow \in {"passed", "degraded", "unavailable"}
  BY DEF SmartNow, GateTyped, States
<1>6. Found \in {"fit", "breach", "swapping"}
  BY DEF Found, GateTyped
<1>4. Taken \in Rows
  BY <1>1, <1>2, <1>3, <1>6 DEF Taken, Rows, GateTyped
<1>5. rows' = Append(rows, Taken)
  BY DEF TakeSample, Taken
<1> QED
  BY <1>4, <1>5 DEF Taken

LEMMA Trimmed ==
  ASSUME GateTyped, InTime, Trim
  PROVE  \E n \in Nat : /\ Dropped(rows, rows', n)
                        /\ Len(rows) - n <= MaxRows
                        /\ Len(rows) < MaxRows => rows' = rows
                        /\ Len(rows) - n < MaxRows => rows' = rows
<1>1. rows \in Seq(Rows) /\ rows # <<>> /\ Len(rows) \in Nat \ {0}
  BY DEF GateTyped, InTime, Trim
<1>2. CASE Len(rows) > MaxRows
  <2> DEFINE n == Len(rows) - MaxRows
  <2>1. n \in 0..(Len(rows) - 1) /\ n + 1 \in 1..Len(rows)
    BY <1>1, <1>2, SmartEveryTyped
  <2>2. rows' = SubSeq(rows, n + 1, Len(rows))
    BY <1>2 DEF Trim
  <2> HIDE DEF n
  <2>3. rows' \in Seq(Rows) /\ Len(rows') = Len(rows) - n
    BY <1>1, <2>1, <2>2
  <2>4. \A i \in 1..Len(rows') : rows'[i] = rows[i + n]
    BY <1>1, <2>1, <2>2, <2>3
  <2>5. Dropped(rows, rows', n)
    BY <2>1, <2>3, <2>4 DEF Dropped
  <2>6. n \in Nat /\ Len(rows) - n = MaxRows
    BY <1>1, <1>2, SmartEveryTyped DEF n
  <2> QED
    BY <1>1, <1>2, <2>5, <2>6, SmartEveryTyped
<1>3. CASE Len(rows) <= MaxRows
  <2>1. rows' = rows
    BY <1>1, <1>3, SmartEveryTyped DEF Trim
  <2>2. Dropped(rows, rows', 0)
    BY <1>1, <2>1 DEF Dropped
  <2> QED
    BY <1>1, <1>3, <2>1, <2>2
<1> QED
  BY <1>1, <1>2, <1>3, SmartEveryTyped

LEMMA Counted ==
  ASSUME GateTyped
  PROVE  /\ Count("rebooted") \in Realities
         /\ Count("rebooted").rebooted = IF reality.rebooted = 0 THEN clock ELSE reality.rebooted
         /\ Count("rebooted").troubles = reality.troubles + 1
         /\ Count("rebooted").failed = reality.failed
         /\ Count("rebooted").spell = reality.spell
         /\ Count("rebooted").longest = reality.longest
         /\ Count("failed") \in Realities
         /\ Count("failed").failed = IF reality.failed = 0 THEN clock ELSE reality.failed
         /\ Count("failed").troubles = reality.troubles + 1
         /\ Count("failed").rebooted = reality.rebooted
         /\ Count("failed").spell = reality.spell
         /\ Count("failed").longest = reality.longest
<1> DEFINE of(field) == [reality EXCEPT !.troubles = @ + 1,
                                        ![field] = IF @ = 0 THEN clock ELSE @]
<1>1. \A field \in {"rebooted", "failed"} : Count(field) = of(field)
  BY DEF Count
<1>2. of("rebooted") \in Realities
  <2>1. reality.troubles + 1 \in Nat /\ reality.rebooted \in Nat
    BY DEF GateTyped, Realities
  <2>2. PICK count \in Nat : count = reality.troubles + 1
    BY <2>1
  <2>3. PICK when \in Nat : when = IF reality.rebooted = 0 THEN clock ELSE reality.rebooted
    BY <2>1 DEF GateTyped
  <2>4. of("rebooted") = [reality EXCEPT !.troubles = count, !.rebooted = when]
    BY <2>2, <2>3 DEF GateTyped, Realities
  <2> QED
    BY <2>4 DEF GateTyped, Realities
<1>3. of("rebooted").troubles = reality.troubles + 1
  BY DEF GateTyped, Realities
<1>4. of("rebooted").rebooted = IF reality.rebooted = 0 THEN clock ELSE reality.rebooted
  BY DEF GateTyped, Realities
<1>5. of("rebooted").failed = reality.failed /\ of("rebooted").spell = reality.spell
  BY DEF GateTyped, Realities
<1>6. of("rebooted").longest = reality.longest
  BY DEF GateTyped, Realities
<1>7. of("failed") \in Realities
  <2>1. reality.troubles + 1 \in Nat /\ reality.failed \in Nat
    BY DEF GateTyped, Realities
  <2>2. PICK count \in Nat : count = reality.troubles + 1
    BY <2>1
  <2>3. PICK when \in Nat : when = IF reality.failed = 0 THEN clock ELSE reality.failed
    BY <2>1 DEF GateTyped
  <2>4. of("failed") = [reality EXCEPT !.troubles = count, !.failed = when]
    BY <2>2, <2>3 DEF GateTyped, Realities
  <2> QED
    BY <2>4 DEF GateTyped, Realities
<1>8. of("failed").troubles = reality.troubles + 1
  BY DEF GateTyped, Realities
<1>9. of("failed").failed = IF reality.failed = 0 THEN clock ELSE reality.failed
  BY DEF GateTyped, Realities
<1>10. of("failed").rebooted = reality.rebooted /\ of("failed").spell = reality.spell
  BY DEF GateTyped, Realities
<1>11. of("failed").longest = reality.longest
  BY DEF GateTyped, Realities
<1> HIDE DEF of
<1> QED
  BY <1>1, <1>2, <1>3, <1>4, <1>5, <1>6, <1>7, <1>8, <1>9, <1>10, <1>11

LEMMA Ticked ==
  ASSUME GateTyped, Tick
  PROVE  /\ reality' \in Realities
         /\ reality'.troubles = reality.troubles /\ reality'.rebooted = reality.rebooted
         /\ reality'.failed = reality.failed
         /\ reality'.spell = Spell /\ reality'.longest = Greater(reality.longest, Spell)
         /\ reality'.late <=> (reality.late \/ clock + 1 > due)
<1>1. PICK now \in BOOLEAN : now = (reality.late \/ clock + 1 > due)
  BY DEF GateTyped, Realities
<1>2. PICK spell \in Nat : spell = Spell
  BY DEF Spell, GateTyped, Realities
<1>3. PICK longest \in Nat : longest = Greater(reality.longest, Spell)
  BY <1>2 DEF Greater, GateTyped, Realities
<1>4. reality' = [reality EXCEPT !.spell = spell, !.longest = longest, !.late = now]
  BY <1>1, <1>2, <1>3 DEF Tick
<1> QED
  BY <1>1, <1>2, <1>3, <1>4 DEF GateTyped, Realities

-----------------------------------------------------------------------------
(* Types                                                                    *)

LEMMA TypedInit ==
  ASSUME GateInit
  PROVE  GateTyped
<1>1. smartctl \in BOOLEAN /\ unasked \in BOOLEAN
  BY Zenon DEF GateInit
<1>2. dossier \in BOOLEAN
  BY DEF GateInit
<1>3. reality \in Realities /\ state \in States /\ rows \in Seq(Rows)
  BY DEF GateInit, Fresh, States, Realities
<1>4. /\ clock \in Nat /\ boot \in Nat /\ due \in Nat \ {0}
      /\ host = "fit" /\ disk = "passed" /\ run = "none"
  BY DEF GateInit
<1> QED
  BY <1>1, <1>2, <1>3, <1>4 DEF GateTyped

LEMMA RowAt ==
  ASSUME GateTyped, NEW i \in DOMAIN rows
  PROVE  /\ rows[i] \in Rows
         /\ rows[i].time \in Nat \ {0}
         /\ rows[i].boot \in Nat
         /\ rows[i].smart \in {"passed", "degraded", "unavailable"}
<1>1. rows[i] \in Rows
  BY DEF GateTyped
<1> QED
  BY <1>1 DEF Rows

LEMMA NewestTyped ==
  ASSUME GateTyped, rows # <<>>
  PROVE  /\ Len(rows) \in DOMAIN rows
         /\ Newest \in Rows
         /\ Newest.time \in Nat \ {0}
         /\ Newest.smart \in {"passed", "degraded", "unavailable"}
<1>1. Len(rows) \in DOMAIN rows
  BY DEF GateTyped
<1> QED
  BY <1>1, RowAt DEF Newest

LEMMA TypedStep ==
  ASSUME GateTyped, InTime, [GateNext]_gateVars
  PROVE  GateTyped'
<1>1. ASSUME TakeSample PROVE GateTyped'
  <2>1. rows' \in Seq(Rows)
    BY <1>1, TakenTyped DEF GateTyped
  <2>2. due' \in Nat \ {0}
    BY <1>1, SmartEveryTyped DEF TakeSample, GateTyped
  <2> QED
    BY <1>1, <2>1, <2>2 DEF TakeSample, GateTyped
<1>2. ASSUME Trim PROVE GateTyped'
  <2>1. rows' \in Seq(Rows)
    BY <1>2, Trimmed DEF Dropped
  <2> QED
    BY <1>2, <2>1 DEF Trim, GateTyped
<1>3. ASSUME Save PROVE GateTyped'
  <2>1. rows # <<>>
    BY <1>3 DEF Save, InTime
  <2>2. Newest.time \in Nat /\ Newest.smart \in {"passed", "degraded", "unavailable"}
    BY <2>1, NewestTyped
  <2>3. Number \in Nat
    BY DEF Number, GateTyped, States
  <2>4. state' \in States
    BY <1>3, <2>2, <2>3 DEF Save, GateTyped, States, Newest
  <2> QED
    BY <1>3, <2>4 DEF Save, GateTyped
<1>4. ASSUME Tick PROVE GateTyped'
  <2>1. reality' \in Realities
    BY <1>4, Ticked
  <2> QED
    BY <1>4, <2>1 DEF Tick, GateTyped
<1>5. ASSUME Reboot PROVE GateTyped'
  <2>1. reality' \in Realities
    BY <1>5, Counted DEF Reboot
  <2> QED
    BY <1>5, <2>1 DEF Reboot, GateTyped
<1>6. ASSUME Kill PROVE GateTyped'
  <2>1. reality' \in Realities
    <3>1. PICK count \in Nat : count = reality.troubles + 1
      BY DEF GateTyped, Realities
    <3>2. reality' = [reality EXCEPT !.troubles = count]
      BY <1>6, <3>1 DEF Kill
    <3> QED
      BY <3>2 DEF GateTyped, Realities
  <2> QED
    BY <1>6, <2>1 DEF Kill, GateTyped
<1>7. ASSUME DiskFails PROVE GateTyped'
  <2>1. reality' \in Realities
    BY <1>7, Counted DEF DiskFails
  <2> QED
    BY <1>7, <2>1 DEF DiskFails, GateTyped
<1>8. ASSUME HostChanges PROVE GateTyped'
  <2>1. reality' \in Realities
    <3>1. PICK count \in Nat : count = reality.troubles + 1
      BY DEF GateTyped, Realities
    <3>2. reality' = [reality EXCEPT !.troubles = count, !.spell = 0]
      BY <1>8, <3>1 DEF HostChanges
    <3> QED
      BY <3>2 DEF GateTyped, Realities
  <2> QED
    BY <1>8, <2>1 DEF HostChanges, GateTyped
<1>9. ASSUME SmartctlChanges PROVE GateTyped'
  <2>1. PICK count \in Nat : count = reality.troubles + 1
    BY DEF GateTyped, Realities
  <2>2. reality' = [reality EXCEPT !.troubles = count] /\ smartctl' = ~smartctl
    BY <1>9, <2>1 DEF SmartctlChanges
  <2>3. reality' \in Realities /\ smartctl' \in BOOLEAN
    BY <2>2 DEF GateTyped, Realities
  <2> QED
    BY <1>9, <2>3 DEF SmartctlChanges, GateTyped
<1>10. ASSUME UNCHANGED gateVars PROVE GateTyped'
  BY <1>10 DEF gateVars, GateTyped
<1> QED
  BY <1>1, <1>2, <1>3, <1>4, <1>5, <1>6, <1>7, <1>8, <1>9, <1>10 DEF GateNext

-----------------------------------------------------------------------------
(* The order of the rows                                                    *)

LEMMA TakenRows ==
  ASSUME GateTyped, TakeSample
  PROVE  /\ rows' # <<>> /\ DOMAIN rows' = 1..(Len(rows) + 1) /\ Len(rows') = Len(rows) + 1
         /\ rows \in Seq(Rows) /\ Len(rows) \in Nat /\ DOMAIN rows = 1..Len(rows)
         /\ \A i \in 1..Len(rows) : rows'[i] = rows[i]
         /\ rows'[Len(rows) + 1] = Taken /\ Newest' = Taken
         /\ run = "none" /\ run' = "append" /\ clock' = clock
<1>1. rows \in Seq(Rows) /\ Taken \in Rows /\ rows' = Append(rows, Taken)
  BY TakenTyped DEF GateTyped
<1>2. rows' \in Seq(Rows) /\ Len(rows') = Len(rows) + 1
  BY <1>1, Appended
<1>3. \A i \in 1..Len(rows) : rows'[i] = rows[i]
  BY <1>1, Appended
<1>4. rows'[Len(rows) + 1] = Taken
  BY <1>1, Appended
<1>5. Newest' = Taken
  BY <1>2, <1>4 DEF Newest
<1>6. run = "none" /\ run' = "append" /\ clock' = clock
  BY DEF TakeSample
<1> QED
  BY <1>1, <1>2, <1>3, <1>4, <1>5, <1>6

LEMMA TrimmedRows ==
  ASSUME GateTyped, InTime, Trim
  PROVE  \E n \in Nat :
            /\ Dropped(rows, rows', n)
            /\ \A i \in DOMAIN rows' : i + n \in DOMAIN rows /\ rows'[i] = rows[i + n]
            /\ rows # <<>> /\ rows' # <<>> /\ Newest' = Newest
<1>1. PICK n \in Nat : Dropped(rows, rows', n)
  BY Trimmed
<1>2. /\ Len(rows) \in Nat /\ n < Len(rows) /\ rows \in Seq(Rows)
      /\ rows' \in Seq(Rows) /\ Len(rows') = Len(rows) - n
      /\ \A i \in 1..Len(rows') : rows'[i] = rows[i + n]
  <2>1. rows \in Seq(Rows) /\ Len(rows) \in Nat
    BY DEF GateTyped
  <2>2. n \in 0..(Len(rows) - 1)
    BY <1>1 DEF Dropped
  <2>3. /\ rows' \in Seq(Rows) /\ Len(rows') = Len(rows) - n
        /\ \A i \in 1..Len(rows') : rows'[i] = rows[i + n]
    BY <1>1 DEF Dropped
  <2> QED
    BY <2>1, <2>2, <2>3
<1>3. DOMAIN rows' = 1..Len(rows') /\ DOMAIN rows = 1..Len(rows)
  <2>1. rows \in Seq(Rows) /\ rows' \in Seq(Rows)
    BY <1>2
  <2> QED
    BY <2>1
<1>4. \A i \in DOMAIN rows' : i + n \in DOMAIN rows /\ rows'[i] = rows[i + n]
  BY <1>2, <1>3
<1>5. Len(rows') \in 1..Len(rows') /\ Len(rows') + n = Len(rows)
  BY <1>2
<1>6. rows # <<>> /\ rows' # <<>> /\ Newest' = Newest
  BY <1>2, <1>5 DEF Newest
<1> QED
  BY <1>1, <1>4, <1>6

LEMMA InTimeStep ==
  ASSUME GateTyped, InTime, [GateNext]_gateVars
  PROVE  InTime'
<1>1. ASSUME TakeSample PROVE InTime'
  <2>1. /\ rows' # <<>> /\ DOMAIN rows' = 1..(Len(rows) + 1) /\ DOMAIN rows = 1..Len(rows)
        /\ Len(rows) \in Nat
        /\ \A i \in 1..Len(rows) : rows'[i] = rows[i]
        /\ rows'[Len(rows) + 1] = Taken
        /\ Taken.time = clock
    BY <1>1, TakenRows, TakenTyped
  <2>2. clock' = clock /\ state' = state /\ clock \in Nat
    BY <1>1 DEF TakeSample, GateTyped
  <2>3. \A i \in DOMAIN rows' : rows'[i].time <= clock
    <3> SUFFICES ASSUME NEW i \in DOMAIN rows' PROVE rows'[i].time <= clock
      OBVIOUS
    <3>1. CASE i = Len(rows) + 1
      BY <2>1, <2>2, <3>1
    <3>2. CASE i # Len(rows) + 1
      <4>1. i \in DOMAIN rows /\ rows'[i] = rows[i]
        BY <2>1, <3>2
      <4> QED
        BY <4>1 DEF InTime
    <3> QED
      BY <3>1, <3>2
  <2>4. \A i, j \in DOMAIN rows' : i <= j => rows'[i].time <= rows'[j].time
    <3> SUFFICES ASSUME NEW i \in DOMAIN rows', NEW j \in DOMAIN rows', i <= j
                 PROVE  rows'[i].time <= rows'[j].time
      OBVIOUS
    <3>1. CASE j = Len(rows) + 1
      BY <2>1, <2>3, <3>1
    <3>2. CASE j # Len(rows) + 1
      <4>1. i \in DOMAIN rows /\ j \in DOMAIN rows /\ rows'[i] = rows[i] /\ rows'[j] = rows[j]
        BY <2>1, <3>2
      <4> QED
        BY <4>1 DEF InTime
    <3> QED
      BY <3>1, <3>2
  <2> QED
    BY <2>1, <2>2, <2>3, <2>4 DEF InTime
<1>2. ASSUME Trim PROVE InTime'
  <2>1. PICK n \in Nat :
            /\ \A i \in DOMAIN rows' : i + n \in DOMAIN rows /\ rows'[i] = rows[i + n]
            /\ rows' # <<>> /\ rows' \in Seq(Rows)
    BY <1>2, TrimmedRows DEF Dropped
  <2>2. clock' = clock /\ state' = state
    BY <1>2 DEF Trim
  <2>3. \A i \in DOMAIN rows' : rows'[i].time <= clock
    BY <2>1 DEF InTime
  <2>4. \A i, j \in DOMAIN rows' : i <= j => rows'[i].time <= rows'[j].time
    <3> SUFFICES ASSUME NEW i \in DOMAIN rows', NEW j \in DOMAIN rows', i <= j
                 PROVE  rows'[i].time <= rows'[j].time
      OBVIOUS
    <3>1. i \in Nat /\ j \in Nat
      BY <2>1
    <3>2. i + n <= j + n
      BY <3>1
    <3> QED
      BY <2>1, <3>2 DEF InTime
  <2> QED
    BY <2>1, <2>2, <2>3, <2>4 DEF InTime
<1>3. ASSUME Save PROVE InTime'
  <2>1. rows # <<>>
    BY <1>3 DEF Save, InTime
  <2>2. Newest.time <= clock
    BY <2>1, NewestTyped DEF InTime, Newest
  <2> QED
    BY <1>3, <2>1, <2>2 DEF Save, InTime, Newest
<1>4. ASSUME Tick PROVE InTime'
  <2>1. clock' = clock + 1 /\ rows' = rows /\ state' = state /\ run' = run /\ clock \in Nat
    BY <1>4 DEF Tick, GateTyped
  <2>2. \A i \in DOMAIN rows : rows[i].time <= clock'
    <3> SUFFICES ASSUME NEW i \in DOMAIN rows PROVE rows[i].time <= clock'
      OBVIOUS
    <3>1. rows[i].time \in Nat /\ rows[i].time <= clock
      BY RowAt DEF InTime
    <3> QED
      BY <2>1, <3>1
  <2>3. state.epoch <= clock'
    BY <2>1 DEF InTime, GateTyped, States
  <2> QED
    BY <2>1, <2>2, <2>3 DEF InTime
<1>5. ASSUME \/ Reboot \/ Kill \/ DiskFails \/ HostChanges \/ SmartctlChanges
             \/ UNCHANGED gateVars
      PROVE  InTime'
  <2>1. clock' = clock /\ rows' = rows /\ state' = state /\ (run' = run \/ run' = "none")
    BY <1>5 DEF Reboot, Kill, DiskFails, HostChanges, SmartctlChanges, gateVars
  <2> QED
    BY <2>1 DEF InTime
<1> QED
  BY <1>1, <1>2, <1>3, <1>4, <1>5 DEF GateNext

-----------------------------------------------------------------------------
(* Reboots                                                                  *)

LEMMA RebootSeenStep ==
  ASSUME GateTyped, InTime, RebootSeen, [GateNext]_gateVars
  PROVE  RebootSeen'
<1>0. /\ reality.rebooted \in Nat /\ clock \in Nat /\ boot \in Nat
  BY DEF GateTyped, Realities
<1>1. ASSUME TakeSample PROVE RebootSeen'
  <2>1. /\ DOMAIN rows' = 1..(Len(rows) + 1) /\ DOMAIN rows = 1..Len(rows) /\ Len(rows) \in Nat
        /\ \A i \in 1..Len(rows) : rows'[i] = rows[i]
        /\ rows'[Len(rows) + 1] = Taken /\ Taken.boot = boot
    BY <1>1, TakenRows, TakenTyped
  <2>2. boot' = boot /\ reality' = reality
    BY <1>1 DEF TakeSample
  <2>3. ASSUME NEW i \in DOMAIN rows', reality.rebooted > 0, rows'[i].time > reality.rebooted
        PROVE  rows'[i].boot # 0
    <3>1. CASE i = Len(rows) + 1
      BY <2>1, <2>3, <3>1 DEF RebootSeen
    <3>2. CASE i # Len(rows) + 1
      <4>1. i \in DOMAIN rows /\ rows'[i] = rows[i]
        BY <2>1, <3>2
      <4> QED
        BY <2>3, <4>1 DEF RebootSeen
    <3> QED
      BY <3>1, <3>2
  <2> QED
    BY <2>2, <2>3 DEF RebootSeen
<1>2. ASSUME Trim PROVE RebootSeen'
  <2>1. PICK n \in Nat :
            \A i \in DOMAIN rows' : i + n \in DOMAIN rows /\ rows'[i] = rows[i + n]
    BY <1>2, TrimmedRows
  <2>2. boot' = boot /\ reality' = reality
    BY <1>2 DEF Trim
  <2> QED
    BY <2>1, <2>2 DEF RebootSeen
<1>3. ASSUME Save PROVE RebootSeen'
  BY <1>3 DEF Save, RebootSeen
<1>4. ASSUME Tick PROVE RebootSeen'
  <2>1. reality'.rebooted = reality.rebooted /\ boot' = boot /\ rows' = rows
    BY <1>4, Ticked DEF Tick
  <2> QED
    BY <2>1 DEF RebootSeen
<1>5. ASSUME Reboot PROVE RebootSeen'
  <2>1. /\ boot' = boot + 1 /\ rows' = rows /\ reality' = Count("rebooted")
    BY <1>5 DEF Reboot
  <2>2. reality'.rebooted = IF reality.rebooted = 0 THEN clock ELSE reality.rebooted
    BY <2>1, Counted
  <2>3. CASE reality.rebooted = 0
    <3>1. \A i \in DOMAIN rows : ~(rows[i].time > clock)
      <4> SUFFICES ASSUME NEW i \in DOMAIN rows PROVE ~(rows[i].time > clock)
        OBVIOUS
      <4> QED
        BY <1>0, RowAt DEF InTime
    <3> QED
      BY <1>0, <2>1, <2>2, <2>3, <3>1 DEF RebootSeen
  <2>4. CASE reality.rebooted # 0
    BY <1>0, <2>1, <2>2, <2>4 DEF RebootSeen
  <2> QED
    BY <2>3, <2>4
<1>6. ASSUME Kill PROVE RebootSeen'
  <2>1. reality'.rebooted = reality.rebooted /\ boot' = boot /\ rows' = rows
    BY <1>6 DEF Kill, GateTyped, Realities
  <2> QED
    BY <2>1 DEF RebootSeen
<1>7. ASSUME DiskFails PROVE RebootSeen'
  <2>1. reality'.rebooted = reality.rebooted /\ boot' = boot /\ rows' = rows
    BY <1>7, Counted DEF DiskFails
  <2> QED
    BY <2>1 DEF RebootSeen
<1>8. ASSUME HostChanges PROVE RebootSeen'
  <2>1. reality'.rebooted = reality.rebooted /\ boot' = boot /\ rows' = rows
    BY <1>8 DEF HostChanges, GateTyped, Realities
  <2> QED
    BY <2>1 DEF RebootSeen
<1>9. ASSUME SmartctlChanges PROVE RebootSeen'
  <2>1. reality'.rebooted = reality.rebooted /\ boot' = boot /\ rows' = rows
    BY <1>9 DEF SmartctlChanges, GateTyped, Realities
  <2> QED
    BY <2>1 DEF RebootSeen
<1>10. ASSUME UNCHANGED gateVars PROVE RebootSeen'
  BY <1>10 DEF gateVars, RebootSeen
<1> QED
  BY <1>1, <1>2, <1>3, <1>4, <1>5, <1>6, <1>7, <1>8, <1>9, <1>10 DEF GateNext

-----------------------------------------------------------------------------
(* Spells of a breach                                                       *)

LEMMA SpellsSeenStep ==
  ASSUME GateTyped, InTime, SpellsSeen, [GateNext]_gateVars
  PROVE  SpellsSeen'
<1>0. /\ reality.spell \in Nat /\ reality.longest \in Nat /\ clock \in Nat
      /\ clock - reality.spell \in Nat /\ clock + 1 \in Nat /\ rows \in Seq(Rows)
  BY DEF GateTyped, Realities, SpellsSeen
<1>00. PICK start \in Nat : /\ start + reality.longest <= clock
                            /\ Cut(rows, start, start + reality.longest)
  BY DEF SpellsSeen
<1>1. ASSUME TakeSample PROVE SpellsSeen'
  <2>1. /\ rows' = Append(rows, Taken) /\ Taken \in Rows
        /\ Taken.time = clock /\ Taken.host = Found
    BY <1>1, TakenTyped
  <2>2. clock' = clock /\ host' = host /\ reality' = reality
    BY <1>1 DEF TakeSample
  <2>3. start + reality.longest \in Nat /\ Taken.time >= start + reality.longest
    BY <1>0, <1>00, <2>1
  <2>4. Cut(rows', start, start + reality.longest)
    BY <1>0, <1>00, <2>1, <2>3, CutAppend
  <2>5. Cut(rows', clock - reality.spell, clock + 1)
    <3>1. CASE host = "breach"
      BY <1>0, <2>1, <3>1, CutAppend DEF SpellsSeen, Found
    <3>2. CASE host # "breach"
      <4>1. clock - reality.spell = clock
        BY <1>0, <3>2 DEF SpellsSeen
      <4>2. rows' \in Seq(Rows) /\ \A i \in DOMAIN rows' : rows'[i].time <= clock
        BY <1>1, <2>2, InTimeStep, TypedStep DEF InTime, GateNext, GateTyped
      <4> QED
        BY <1>0, <4>1, <4>2, CutLast
    <3> QED
      BY <3>1, <3>2
  <2> QED
    BY <1>00, <2>2, <2>4, <2>5 DEF SpellsSeen
<1>2. ASSUME Trim PROVE SpellsSeen'
  <2>1. PICK n \in Nat : Dropped(rows, rows', n)
    BY <1>2, TrimmedRows
  <2>2. clock' = clock /\ host' = host /\ reality' = reality
    BY <1>2 DEF Trim
  <2>3. Cut(rows', start, start + reality.longest)
    BY <1>0, <1>00, <2>1, CutDropped
  <2>4. Cut(rows', clock - reality.spell, clock + 1)
    BY <1>0, <2>1, CutDropped DEF SpellsSeen
  <2> QED
    BY <1>00, <2>2, <2>3, <2>4 DEF SpellsSeen
<1>3. ASSUME \/ Save \/ Kill \/ Reboot \/ DiskFails \/ SmartctlChanges
             \/ UNCHANGED gateVars
      PROVE  SpellsSeen'
  <2>1. clock' = clock /\ host' = host /\ rows' = rows
    BY <1>3 DEF Save, Kill, Reboot, DiskFails, SmartctlChanges, gateVars
  <2>2. reality'.spell = reality.spell /\ reality'.longest = reality.longest
    <3>1. CASE Save \/ UNCHANGED gateVars
      BY <3>1 DEF Save, gateVars
    <3>2. CASE Kill
      BY <3>2 DEF Kill, GateTyped, Realities
    <3>3. CASE Reboot
      BY <3>3, Counted DEF Reboot
    <3>4. CASE DiskFails
      BY <3>4, Counted DEF DiskFails
    <3>5. CASE SmartctlChanges
      BY <3>5 DEF SmartctlChanges, GateTyped, Realities
    <3> QED
      BY <1>3, <3>1, <3>2, <3>3, <3>4, <3>5
  <2> QED
    BY <2>1, <2>2 DEF SpellsSeen
<1>4. ASSUME Tick PROVE SpellsSeen'
  <2>1. /\ clock' = clock + 1 /\ rows' = rows /\ host' = host
        /\ reality'.spell = Spell /\ reality'.longest = Greater(reality.longest, Spell)
    BY <1>4, Ticked DEF Tick
  <2>2. Spell \in Nat /\ Spell <= clock + 1 /\ (host # "breach" => Spell = 0)
    BY <1>0 DEF Spell, SpellsSeen
  <2> DEFINE from == clock + 1 - Spell
  <2>3. from \in Nat /\ from + Spell = clock + 1
    BY <1>0, <2>2
  <2>4. \A i \in DOMAIN rows : rows[i].time < clock + 1
    <3> SUFFICES ASSUME NEW i \in DOMAIN rows PROVE rows[i].time < clock + 1
      OBVIOUS
    <3> QED
      BY <1>0, RowAt DEF InTime
  <2>5. \A later \in Nat : Cut(rows, from, later)
    <3> SUFFICES ASSUME NEW later \in Nat PROVE Cut(rows, from, later)
      OBVIOUS
    <3>1. CASE host = "breach"
      <4>1. from = clock - reality.spell
        BY <1>0, <3>1 DEF Spell
      <4> QED
        BY <1>0, <2>4, <4>1, CutLater DEF SpellsSeen
    <3>2. CASE host # "breach"
      <4>1. from = clock + 1
        BY <1>0, <2>2, <3>2
      <4>2. \A i \in DOMAIN rows : rows[i].time <= clock + 1
        <5> SUFFICES ASSUME NEW i \in DOMAIN rows PROVE rows[i].time <= clock + 1
          OBVIOUS
        <5> QED
          BY <1>0, <2>4, RowAt
      <4> QED
        BY <1>0, <4>1, <4>2, CutLast
    <3> QED
      BY <3>1, <3>2
  <2>6. Cut(rows, clock + 1 - Spell, clock + 1 + 1)
    <3>1. clock + 1 + 1 \in Nat
      BY <1>0
    <3> QED
      BY <2>5, <3>1
  <2>7. \E s \in Nat : /\ s + Greater(reality.longest, Spell) <= clock + 1
                       /\ Cut(rows, s, s + Greater(reality.longest, Spell))
    <3>1. CASE reality.longest > Spell
      <4>1. Greater(reality.longest, Spell) = reality.longest
        BY <3>1 DEF Greater
      <4>2. start + reality.longest <= clock + 1
        BY <1>0, <1>00
      <4> QED
        BY <1>00, <4>1, <4>2
    <3>2. CASE ~(reality.longest > Spell)
      <4>1. Greater(reality.longest, Spell) = Spell
        BY <3>2 DEF Greater
      <4>2. Cut(rows, from, from + Spell)
        BY <1>0, <2>3, <2>5
      <4>3. from + Spell <= clock + 1
        BY <1>0, <2>3
      <4> HIDE DEF from
      <4> QED
        BY <2>3, <4>1, <4>2, <4>3
    <3> QED
      BY <3>1, <3>2
  <2> HIDE DEF from
  <2>8. reality'.spell <= clock' /\ (host' # "breach" => reality'.spell = 0)
    BY <2>1, <2>2
  <2>9. Cut(rows', clock' - reality'.spell, clock' + 1)
    <3>1. clock' - reality'.spell = clock + 1 - Spell /\ clock' + 1 = clock + 1 + 1
      BY <1>0, <2>1, <2>2
    <3> QED
      BY <2>1, <2>6, <3>1
  <2>10. \E s \in Nat : s + reality'.longest <= clock' /\ Cut(rows', s, s + reality'.longest)
    BY <2>1, <2>7
  <2> QED
    BY <2>8, <2>9, <2>10 DEF SpellsSeen
<1>5. ASSUME HostChanges PROVE SpellsSeen'
  <2>1. clock' = clock /\ rows' = rows
    BY <1>5 DEF HostChanges
  <2>2. reality'.spell = 0 /\ reality'.longest = reality.longest
    BY <1>5 DEF HostChanges, GateTyped, Realities
  <2>3. Cut(rows, clock, clock + 1)
    BY <1>0, CutLast DEF InTime
  <2>4. clock - 0 = clock
    BY <1>0
  <2> QED
    BY <1>0, <1>00, <2>1, <2>2, <2>3, <2>4 DEF SpellsSeen
<1> QED
  BY <1>1, <1>2, <1>3, <1>4, <1>5 DEF GateNext

-----------------------------------------------------------------------------
(* The failure of the disk                                                  *)

(* The sample after the failure repeats the reading of the saved state, one *)
(* step further in the cycle and at most one tolerated gap later.           *)
LEMMA FailureTaken ==
  ASSUME GateTyped, InTime, DiskSeen, TakeSample,
         reality.failed > 0, ~unasked', Taken.smart = "passed"
  PROVE  /\ Within(rows', reality.failed, clock, state.number % SmartEvery)
         /\ Within(rows', reality.failed, clock, SmartEvery - 1)
<1>0. /\ clock \in Nat /\ reality.failed \in Nat /\ state.epoch \in Nat /\ state.number \in Nat
      /\ rows \in Seq(Rows) /\ MissAfter \in Nat /\ SmartEvery \in Nat \ {0}
      /\ state.epoch <= clock
  BY SmartEveryTyped DEF GateTyped, Realities, States, InTime
<1>1. /\ Taken \in Rows /\ rows' = Append(rows, Taken) /\ Taken.time = clock
      /\ Taken.missing <=> Gap > MissAfter
      /\ Taken.smart = SmartNow
  BY TakenTyped
<1>2. disk # "passed"
  BY <1>0 DEF DiskSeen
<1>14. ~unasked /\ ~(SmartDue(Number) /\ ~smartctl)
  BY <1>2 DEF TakeSample
<1>3. ~SmartDue(Number) /\ state.smart = "passed"
  BY <1>1, <1>2, <1>14 DEF SmartNow
<1>4. state.number \in Nat \ {0} /\ state.epoch > 0
  BY <1>0, <1>3 DEF DiskSeen
<1> DEFINE p == (state.number - 1) % SmartEvery
           s == state.number % SmartEvery
<1>5. p \in Nat /\ s \in Nat /\ s = p + 1 /\ s <= SmartEvery - 1
  BY <1>3, <1>4, OneStepOn DEF Number
<1>6. Within(rows, reality.failed, state.epoch, p)
  BY <1>3, <1>14 DEF DiskSeen
<1>7. Within(rows', reality.failed, state.epoch, p)
  BY <1>0, <1>1, <1>6, WithinAppend
<1> HIDE DEF p, s
<1>8. /\ s * MissAfter <= (SmartEvery - 1) * MissAfter
      /\ s * MissAfter \in Nat /\ s * MissAfter = p * MissAfter + MissAfter
      /\ p * MissAfter \in Nat
      /\ (SmartEvery - 1) * MissAfter \in Nat
  <2>1. SmartEvery - 1 \in Nat
    BY <1>0
  <2>2. s * MissAfter <= (SmartEvery - 1) * MissAfter
    BY <1>0, <1>5, <2>1, FurtherSteps
  <2>3. s * MissAfter = p * MissAfter + MissAfter
    BY <1>0, <1>5, FurtherSteps
  <2>4. s * MissAfter \in Nat /\ p * MissAfter \in Nat /\ (SmartEvery - 1) * MissAfter \in Nat
    BY <1>0, <1>5, <2>1
  <2> QED
    BY <2>2, <2>3, <2>4
<1>9. \E b \in Nat : Known(rows', reality.failed, b) /\ clock <= b + s * MissAfter
  <2>1. CASE Gap > MissAfter
    <3>1. rows'[Len(rows) + 1] = Taken /\ Len(rows) + 1 \in DOMAIN rows'
      BY TakenRows
    <3>2. Known(rows', reality.failed, clock)
      <4>1. Taken.missing /\ clock <= Taken.time
        BY <1>0, <1>1, <2>1
      <4>2. \E i \in DOMAIN rows' : rows'[i].missing /\ clock <= rows'[i].time
        BY <3>1, <4>1
      <4> QED
        BY <4>2 DEF Known
    <3>3. clock <= clock + s * MissAfter
      BY <1>0, <1>8
    <3> QED
      BY <1>0, <3>2, <3>3
  <2>2. CASE ~(Gap > MissAfter)
    <3>1. PICK b \in Nat : Known(rows', reality.failed, b) /\ state.epoch <= b + p * MissAfter
      BY <1>7 DEF Within
    <3>2. clock <= state.epoch + MissAfter
      BY <1>0, <1>4, <2>2 DEF Gap
    <3>3. clock <= b + s * MissAfter
      BY <1>0, <1>8, <3>1, <3>2
    <3> QED
      BY <3>1, <3>3
  <2> QED
    BY <2>1, <2>2
<1>10. PICK b \in Nat : Known(rows', reality.failed, b) /\ clock <= b + s * MissAfter
  BY <1>9
<1>11. clock <= b + (SmartEvery - 1) * MissAfter
  BY <1>0, <1>8, <1>10
<1>12. Within(rows', reality.failed, clock, s)
  BY <1>10 DEF Within
<1>13. Within(rows', reality.failed, clock, SmartEvery - 1)
  BY <1>10, <1>11 DEF Within
<1> QED
  BY <1>12, <1>13 DEF s

LEMMA DiskSeenStep ==
  ASSUME GateTyped, InTime, DiskSeen, [GateNext]_gateVars
  PROVE  DiskSeen'
<1>0. /\ clock \in Nat /\ reality.failed \in Nat /\ state.epoch \in Nat /\ state.number \in Nat
      /\ rows \in Seq(Rows) /\ MissAfter \in Nat /\ SmartEvery \in Nat \ {0}
      /\ SmartEvery - 1 \in Nat
  BY SmartEveryTyped DEF GateTyped, Realities, States
<1>1. ASSUME TakeSample PROVE DiskSeen'
  <2>1. disk' = disk /\ reality' = reality /\ clock' = clock /\ state' = state
    BY <1>1 DEF TakeSample
  <2>2. /\ Taken \in Rows /\ rows' = Append(rows, Taken) /\ Taken.time = clock
        /\ Newest' = Taken
    BY <1>1, TakenTyped, TakenRows
  <2>5. ~unasked' => ~unasked
    BY <1>1 DEF TakeSample
  <2>3. ASSUME reality.failed > 0, ~unasked', state.smart = "passed"
        PROVE  Within(rows', reality.failed, state.epoch, (state.number - 1) % SmartEvery)
    BY <1>0, <2>2, <2>3, <2>5, WithinAppend DEF DiskSeen
  <2>4. ASSUME reality.failed > 0, ~unasked', Newest'.smart = "passed"
        PROVE  /\ Within(rows', reality.failed, Newest'.time, state.number % SmartEvery)
               /\ Within(rows', reality.failed, Newest'.time, SmartEvery - 1)
    BY <1>1, <2>2, <2>4, FailureTaken
  <2> QED
    BY <2>1, <2>3, <2>4 DEF DiskSeen
<1>2. ASSUME Trim PROVE DiskSeen'
  <2>1. disk' = disk /\ reality' = reality /\ clock' = clock /\ state' = state
        /\ run # "none" /\ unasked' = unasked
    BY <1>2 DEF Trim
  <2>2. PICK n \in Nat : Dropped(rows, rows', n) /\ rows # <<>> /\ Newest' = Newest
    BY <1>2, TrimmedRows
  <2>3. ASSUME NEW time, NEW steps, Within(rows, reality.failed, time, steps)
        PROVE  Within(rows', reality.failed, time, steps)
    BY <1>0, <2>2, <2>3, WithinDropped DEF InTime
  <2> QED
    BY <2>1, <2>2, <2>3 DEF DiskSeen
<1>3. ASSUME Save PROVE DiskSeen'
  <2>1. /\ disk' = disk /\ reality' = reality /\ clock' = clock /\ rows' = rows
        /\ run # "none" /\ run' = "none" /\ unasked' = unasked
    BY <1>3 DEF Save
  <2>2. state'.epoch = Newest.time /\ state'.smart = Newest.smart
        /\ state'.number = state.number + 1
    BY <1>3 DEF Save, Newest, Number
  <2>3. rows # <<>>
    BY <2>1 DEF InTime
  <2>4. Newest.time > 0
    BY <2>3, NewestTyped
  <2>5. state'.number > 0 /\ state'.number - 1 = state.number
    BY <1>0, <2>2
  <2>6. Newest' = Newest
    BY <2>1 DEF Newest
  <2>7. ASSUME reality.failed > 0, ~unasked, state'.smart = "passed"
        PROVE  Within(rows, reality.failed, state'.epoch, (state'.number - 1) % SmartEvery)
    BY <2>1, <2>2, <2>5, <2>7 DEF DiskSeen
  <2> QED
    BY <2>1, <2>2, <2>4, <2>5, <2>6, <2>7 DEF DiskSeen
<1>4. ASSUME \/ Tick \/ Reboot \/ Kill \/ HostChanges \/ SmartctlChanges
             \/ UNCHANGED gateVars
      PROVE  DiskSeen'
  <2>1. /\ disk' = disk /\ rows' = rows /\ state' = state /\ unasked' = unasked
        /\ clock' = clock \/ clock' = clock + 1
        /\ run' = run \/ run' = "none"
    BY <1>4 DEF Tick, Reboot, Kill, HostChanges, SmartctlChanges, gateVars
  <2>2. reality'.failed = reality.failed
    <3>1. CASE Tick
      BY <3>1, Ticked
    <3>2. CASE Reboot
      BY <3>2, Counted DEF Reboot
    <3>3. CASE Kill
      BY <3>3 DEF Kill, GateTyped, Realities
    <3>4. CASE HostChanges
      BY <3>4 DEF HostChanges, GateTyped, Realities
    <3>5. CASE UNCHANGED gateVars
      BY <3>5 DEF gateVars
    <3>6. CASE SmartctlChanges
      BY <3>6 DEF SmartctlChanges, GateTyped, Realities
    <3> QED
      BY <1>4, <3>1, <3>2, <3>3, <3>4, <3>5, <3>6
  <2>3. reality.failed <= clock'
    BY <1>0, <2>1 DEF DiskSeen
  <2>4. Newest' = Newest
    BY <2>1 DEF Newest
  <2> QED
    BY <2>1, <2>2, <2>3, <2>4 DEF DiskSeen
<1>5. ASSUME DiskFails PROVE DiskSeen'
  <2>1. /\ disk = "passed" /\ disk' # "passed" /\ rows' = rows /\ state' = state
        /\ clock' = clock /\ clock > 0 /\ run' = run /\ run = "none"
    BY <1>5 DEF DiskFails
  <2>2. reality'.failed = clock
    BY <1>5, <2>1, Counted DEF DiskFails, DiskSeen
  <2>3. state.epoch <= clock
    BY DEF InTime
  <2>4. ASSUME state.smart = "passed"
        PROVE  Within(rows, clock, state.epoch, (state.number - 1) % SmartEvery)
    <3>1. state.number > 0
      BY <2>4 DEF DiskSeen
    <3>2. (state.number - 1) % SmartEvery \in Nat
      BY <1>0, <3>1
    <3> QED
      BY <1>0, <2>3, <3>2, WithinNow
  <2>5. ASSUME rows # <<>> PROVE Within(rows, clock, Newest.time, SmartEvery - 1)
    <3>1. Newest.time \in Nat /\ Newest.time <= clock
      BY <2>5, NewestTyped DEF InTime, Newest
    <3> QED
      BY <1>0, <3>1, WithinNow
  <2>6. Newest' = Newest
    BY <2>1 DEF Newest
  <2> QED
    BY <1>0, <2>1, <2>2, <2>4, <2>5, <2>6 DEF DiskSeen
<1> QED
  BY <1>1, <1>2, <1>3, <1>4, <1>5 DEF GateNext

-----------------------------------------------------------------------------
(* A host without trouble                                                   *)

LEMMA FirstIsDue == SmartDue(1)
  BY DEF SmartDue

LEMMA HealthyStep ==
  ASSUME GateTyped, InTime, Smooth => AllFit, [GateNext]_gateVars, Smooth'
  PROVE  AllFit'
<1>0. /\ clock \in Nat /\ due \in Nat /\ rows \in Seq(Rows) /\ Len(rows) \in Nat
      /\ Interval \in Nat \ {0} /\ MaxRows \in Nat \ {0} /\ MissAfter \in Nat \ {0}
      /\ Interval <= MissAfter
      /\ state.number \in Nat /\ state.epoch \in Nat
      /\ reality.troubles \in Nat /\ reality.late \in BOOLEAN
  BY GateConstants DEF GateTyped, Realities, States
<1>1. ASSUME TakeSample PROVE AllFit'
  <2>1. /\ rows' # <<>> /\ DOMAIN rows' = 1..(Len(rows) + 1) /\ Len(rows') = Len(rows) + 1
        /\ DOMAIN rows = 1..Len(rows)
        /\ \A i \in 1..Len(rows) : rows'[i] = rows[i]
        /\ rows'[Len(rows) + 1] = Taken
    BY <1>1, TakenRows
  <2>2. /\ Taken.time = clock /\ Taken.boot = boot /\ Taken.host = Found
        /\ Taken.missing <=> Gap > MissAfter
        /\ Taken.smart = SmartNow
        /\ Taken.reboot <=> Rebooted
    BY <1>1, TakenTyped
  <2>3. /\ run = "none" /\ run' # "none" /\ clock >= due /\ due' = clock + Interval
        /\ boot' = boot /\ host' = host /\ disk' = disk /\ reality' = reality
        /\ clock' = clock /\ smartctl' = smartctl
    BY <1>1 DEF TakeSample
  <2>4. Smooth
    BY <1>0, <2>1, <2>3 DEF Smooth
  <2>5. AllFit
    BY <2>4
  <2>6. clock = due /\ due = 1 + Len(rows) * Interval
    BY <1>0, <2>3, <2>5 DEF AllFit
  <2>7. due' = 1 + Len(rows') * Interval
    <3>1. (Len(rows) + 1) * Interval = Len(rows) * Interval + Interval
          /\ Len(rows) * Interval \in Nat
      BY <1>0
    <3> QED
      BY <1>0, <2>1, <2>3, <2>6, <3>1
  <2>8. ~Taken.reboot /\ ~Taken.missing /\ Taken.smart = "passed"
    <3>1. CASE rows = <<>>
      <4>1. state.number = 0 /\ boot = 0 /\ disk = "passed" /\ smartctl
        BY <2>3, <2>5, <3>1 DEF AllFit
      <4>2. ~Rebooted
        BY <4>1 DEF Rebooted
      <4>3. SmartNow = "passed"
        BY <4>1, FirstIsDue DEF SmartNow, Number
      <4>4. clock = 1
        BY <1>0, <2>6, <3>1
      <4>5. ~(Gap > MissAfter)
        BY <1>0, <4>4 DEF Gap
      <4> QED
        BY <2>2, <4>2, <4>3, <4>5
    <3>2. CASE rows # <<>>
      <4>1. /\ state.number > 0 /\ state.epoch = Newest.time /\ state.boot = 0
            /\ state.smart = "passed" /\ boot = 0 /\ disk = "passed"
            /\ Fit(Len(rows))
        BY <1>0, <2>1, <2>3, <2>5, <3>2 DEF AllFit
      <4>2. ~Rebooted
        BY <4>1 DEF Rebooted
      <4>3. SmartNow = "passed"
        BY <4>1 DEF SmartNow
      <4>4. state.epoch = 1 + (Len(rows) - 1) * Interval
        BY <4>1 DEF Fit, Newest
      <4>5. Len(rows) * Interval = (Len(rows) - 1) * Interval + Interval
            /\ (Len(rows) - 1) * Interval \in Nat
        <5>1. Len(rows) - 1 \in Nat
          BY <1>0, <3>2
        <5> QED
          BY <1>0, <5>1
      <4>6. clock - state.epoch = Interval
        BY <1>0, <2>6, <4>4, <4>5
      <4>7. ~(Gap > MissAfter)
        BY <1>0, <4>6 DEF Gap
      <4> QED
        BY <2>2, <4>2, <4>3, <4>7
    <3> QED
      BY <3>1, <3>2
  <2>9. ASSUME NEW i \in DOMAIN rows' PROVE Fit(i)'
    <3>1. CASE i = Len(rows) + 1
      <4>1. rows'[i] = Taken /\ Taken.boot = 0 /\ Taken.host = "fit"
        BY <2>1, <2>2, <2>5, <3>1 DEF AllFit, Found
      <4>2. Taken.time = 1 + (i - 1) * Interval
        <5>1. i - 1 = Len(rows)
          BY <1>0, <3>1
        <5> QED
          BY <2>2, <2>6, <5>1
      <4> QED
        BY <2>8, <4>1, <4>2 DEF Fit
    <3>2. CASE i # Len(rows) + 1
      <4>1. i \in DOMAIN rows /\ rows'[i] = rows[i]
        BY <1>0, <2>1, <3>2
      <4> QED
        BY <2>5, <4>1 DEF AllFit, Fit
    <3> QED
      BY <3>1, <3>2
  <2>10. clock' <= due'
    BY <1>0, <2>3
  <2>11. boot' = 0 /\ host' = "fit" /\ disk' = "passed" /\ smartctl'
    BY <2>3, <2>5 DEF AllFit
  <2>12. run' # "none"
    BY <2>3
  <2> QED
    BY <2>7, <2>9, <2>10, <2>11, <2>12 DEF AllFit
<1>2. ASSUME Trim PROVE AllFit'
  <2>1. reality' = reality /\ run # "none" /\ run' # "none" /\ boot' = boot /\ host' = host
        /\ disk' = disk /\ due' = due /\ clock' = clock /\ smartctl' = smartctl
    BY <1>2 DEF Trim
  <2>2. PICK n \in Nat : /\ Dropped(rows, rows', n)
                         /\ Len(rows) - n < MaxRows => rows' = rows
    BY <1>2, Trimmed
  <2>3. rows' = rows
    BY <2>2 DEF Dropped, Smooth
  <2>4. AllFit
    BY <2>1, <2>3 DEF Smooth
  <2> QED
    BY <2>1, <2>3, <2>4 DEF AllFit, Fit
<1>3. ASSUME Save PROVE AllFit'
  <2>1. reality' = reality /\ run # "none" /\ run' = "none" /\ boot' = boot /\ host' = host
        /\ disk' = disk /\ due' = due /\ rows' = rows /\ clock' = clock
        /\ smartctl' = smartctl
    BY <1>3 DEF Save
  <2>2. AllFit
    BY <2>1 DEF Smooth
  <2>3. state'.epoch = Newest.time /\ state'.smart = Newest.smart
        /\ state'.number = state.number + 1 /\ state'.boot = boot
    BY <1>3 DEF Save, Newest, Number
  <2>4. rows # <<>>
    BY <2>1 DEF InTime
  <2>5. Fit(Len(rows))
    BY <1>0, <2>2, <2>4 DEF AllFit
  <2>6. Newest.time = 1 + (Len(rows) - 1) * Interval /\ Newest.smart = "passed"
    BY <2>5 DEF Fit, Newest
  <2>7. Newest' = Newest /\ state'.number > 0 /\ state'.boot = 0
    BY <1>0, <2>1, <2>2, <2>3 DEF Newest, AllFit
  <2> QED
    BY <2>1, <2>2, <2>3, <2>4, <2>6, <2>7 DEF AllFit, Fit
<1>4. ASSUME Tick PROVE AllFit'
  <2>1. /\ reality'.troubles = reality.troubles
        /\ reality'.late <=> (reality.late \/ clock + 1 > due)
        /\ run = "none" /\ clock' = clock + 1
        /\ boot' = boot /\ host' = host /\ disk' = disk /\ due' = due /\ rows' = rows
        /\ state' = state /\ smartctl' = smartctl
    BY <1>4, Ticked DEF Tick
  <2>2. Smooth /\ clock + 1 <= due
    BY <1>0, <2>1 DEF Smooth
  <2>3. AllFit
    BY <2>2
  <2>4. Newest' = Newest
    BY <2>1 DEF Newest
  <2> QED
    BY <2>1, <2>2, <2>3, <2>4 DEF AllFit, Fit
<1>5. ASSUME Reboot \/ Kill \/ DiskFails \/ HostChanges \/ SmartctlChanges PROVE AllFit'
  <2>1. reality'.troubles = reality.troubles + 1
    <3>1. CASE Reboot
      BY <3>1, Counted DEF Reboot
    <3>2. CASE Kill
      BY <3>2 DEF Kill, GateTyped, Realities
    <3>3. CASE DiskFails
      BY <3>3, Counted DEF DiskFails
    <3>4. CASE HostChanges
      BY <3>4 DEF HostChanges, GateTyped, Realities
    <3>5. CASE SmartctlChanges
      BY <3>5 DEF SmartctlChanges, GateTyped, Realities
    <3> QED
      BY <1>5, <3>1, <3>2, <3>3, <3>4, <3>5
  <2> QED
    BY <1>0, <2>1 DEF Smooth
<1>6. ASSUME UNCHANGED gateVars PROVE AllFit'
  <2>1. Smooth
    BY <1>6 DEF gateVars, Smooth
  <2> QED
    BY <1>6, <2>1 DEF gateVars, AllFit, Fit, Newest
<1> QED
  BY <1>1, <1>2, <1>3, <1>4, <1>5, <1>6 DEF GateNext

-----------------------------------------------------------------------------
(* The verdicts                                                             *)

LEMMA Passed ==
  ASSUME GateTyped, GateVerdict = "PASS"
  PROVE  /\ dossier /\ clock >= Week /\ rows # <<>>
         /\ rows[1].time <= MaxGap
         /\ clock - Newest.time <= MaxGap
         /\ \A i \in DOMAIN rows \ {1} : rows[i].time - rows[i - 1].time <= MaxGap
         /\ \A i \in DOMAIN rows :
               /\ rows[i].boot = 0 /\ ~rows[i].missing
               /\ rows[i].host # "breach" /\ rows[i].smart = "passed"
<1>0. clock \in Nat /\ MaxGap \in Nat /\ Week \in Nat /\ rows \in Seq(Rows)
  BY SmartEveryTyped DEF GateTyped
<1>1. dossier /\ ~Unhealthy /\ ~Discontinuous /\ ~(clock < Week)
  BY DEF GateVerdict
<1>2. \A i \in DOMAIN rows :
         /\ rows[i].boot = 0 /\ ~rows[i].missing
         /\ rows[i].host # "breach" /\ rows[i].smart = "passed"
  BY <1>1 DEF Unhealthy
<1>3. rows # <<>> /\ ~LeadingGap /\ ~(clock - rows[Len(rows)].time > MaxGap)
  BY <1>1 DEF Discontinuous
<1>4. rows[1].time <= MaxGap
  <2>1. 1 \in DOMAIN rows
    BY <1>0, <1>3
  <2> QED
    BY <1>0, <1>3, <2>1, RowAt DEF LeadingGap
<1>5. clock - Newest.time <= MaxGap
  BY <1>0, <1>3, NewestTyped DEF Newest
<1>6. \A i \in DOMAIN rows \ {1} : rows[i].time - rows[i - 1].time <= MaxGap
  <2> SUFFICES ASSUME NEW i \in DOMAIN rows \ {1}
               PROVE  rows[i].time - rows[i - 1].time <= MaxGap
    OBVIOUS
  <2>1. i - 1 \in DOMAIN rows
    BY <1>0
  <2>2. ~(rows[i].time - rows[i - 1].time > MaxGap)
    BY <1>1, <1>3 DEF Discontinuous
  <2> QED
    BY <1>0, <2>1, <2>2, RowAt
<1> QED
  BY <1>0, <1>1, <1>2, <1>3, <1>4, <1>5, <1>6

(* No spell hides between two rows, before the first or after the last.     *)
LEMMA NoLongSpell ==
  ASSUME GateTyped, SpellsSeen, GateVerdict = "PASS"
  PROVE  reality.longest <= MaxGap
<1>0. /\ clock \in Nat /\ MaxGap \in Nat /\ rows \in Seq(Rows) /\ reality.longest \in Nat
      /\ Len(rows) \in Nat /\ DOMAIN rows = 1..Len(rows)
  BY SmartEveryTyped DEF GateTyped, Realities
<1>1. PICK start \in Nat : /\ start + reality.longest <= clock
                           /\ Cut(rows, start, start + reality.longest)
  BY DEF SpellsSeen
<1>2. PICK k \in Nat :
        /\ k <= Len(rows)
        /\ \A i \in 1..k : rows[i].time <= start
        /\ \A i \in (k + 1)..Len(rows) :
              rows[i].host = "breach" \/ rows[i].time >= start + reality.longest
  BY <1>0, <1>1 DEF Cut
<1>3. \A i \in (k + 1)..Len(rows) : rows[i].time >= start + reality.longest
  <2> SUFFICES ASSUME NEW i \in (k + 1)..Len(rows)
               PROVE  rows[i].time >= start + reality.longest
    OBVIOUS
  <2>1. i \in DOMAIN rows
    BY <1>0
  <2> QED
    BY <1>2, <2>1, Passed
<1>4. CASE k = 0
  <2>1. 1 \in DOMAIN rows /\ 1 \in (k + 1)..Len(rows)
    BY <1>0, <1>4, Passed
  <2>2. rows[1].time \in Nat /\ rows[1].time <= MaxGap
    BY <2>1, Passed, RowAt
  <2>3. rows[1].time >= start + reality.longest
    BY <1>3, <2>1
  <2> QED
    BY <1>0, <2>2, <2>3
<1>5. CASE k = Len(rows)
  <2>1. Len(rows) \in DOMAIN rows /\ Len(rows) \in 1..k
    BY <1>0, <1>5, Passed, NewestTyped
  <2>2. Newest.time \in Nat /\ clock - Newest.time <= MaxGap
    BY <2>1, Passed, NewestTyped
  <2>3. Newest.time <= start
    BY <1>2, <2>1 DEF Newest
  <2> QED
    BY <1>0, <1>1, <2>2, <2>3
<1>6. CASE k \in Nat /\ k > 0 /\ k < Len(rows)
  <2>1. k \in 1..k /\ k + 1 \in (k + 1)..Len(rows) /\ k \in DOMAIN rows
        /\ k + 1 \in DOMAIN rows \ {1}
    BY <1>0, <1>6
  <2>2. rows[k].time <= start /\ rows[k + 1].time >= start + reality.longest
    BY <1>2, <1>3, <2>1
  <2>3. rows[k + 1].time - rows[(k + 1) - 1].time <= MaxGap
    BY <2>1, Passed
  <2>4. (k + 1) - 1 = k
    BY <2>1
  <2>5. rows[k].time \in Nat /\ rows[k + 1].time \in Nat
    BY <2>1, RowAt
  <2> QED
    BY <1>0, <2>2, <2>3, <2>4, <2>5
<1>7. k \in Nat /\ k <= Len(rows) /\ Len(rows) \in Nat
  BY <1>0, <1>2
<1>8. k = 0 \/ k = Len(rows) \/ (k \in Nat /\ k > 0 /\ k < Len(rows))
  BY <1>7
<1> QED
  BY <1>4, <1>5, <1>6, <1>8

(* The newest sample repeats no reading older than the tolerated cycle.     *)
LEMMA FailureIsNear ==
  ASSUME GateTyped, DiskSeen, GateVerdict = "PASS", reality.failed > 0, ~unasked
  PROVE  clock - reality.failed <= (SmartEvery - 1) * MissAfter + MaxGap
<1>0. /\ clock \in Nat /\ MaxGap \in Nat /\ Week \in Nat /\ reality.failed \in Nat
      /\ SmartEvery \in Nat \ {0} /\ MissAfter \in Nat
      /\ rows # <<>> /\ clock >= Week /\ clock - Newest.time <= MaxGap
      /\ rows[1].time <= MaxGap
  BY SmartEveryTyped, Passed DEF GateTyped, Realities
<1>1. Newest.time \in Nat /\ Newest.smart = "passed" /\ rows[1].time \in Nat
  <2>1. Len(rows) \in DOMAIN rows /\ 1 \in DOMAIN rows
    BY <1>0, NewestTyped DEF GateTyped
  <2> QED
    BY <1>0, <2>1, Passed, NewestTyped, RowAt DEF Newest
<1>2. PICK b \in Nat : /\ Known(rows, reality.failed, b)
                       /\ Newest.time <= b + (SmartEvery - 1) * MissAfter
  BY <1>0, <1>1 DEF DiskSeen, Within
<1>3. (SmartEvery - 1) * MissAfter \in Nat
  BY <1>0
<1>4. CASE b <= reality.failed
  BY <1>0, <1>1, <1>2, <1>3, <1>4
<1>5. CASE b <= rows[1].time
  <2>1. (SmartEvery - 1) * MissAfter + 2 * MaxGap < Week
    BY GateConstants
  <2>2. clock <= (SmartEvery - 1) * MissAfter + MaxGap + MaxGap
    BY <1>0, <1>1, <1>2, <1>3, <1>5
  <2> QED
    BY <1>0, <1>3, <2>1, <2>2
<1> QED
  BY <1>2, <1>4, <1>5, Passed DEF Known

LEMMA PassEarned ==
  ASSUME GateInv
  PROVE  PassIsEarned
<1> SUFFICES ASSUME GateVerdict = "PASS"
             PROVE  /\ dossier /\ clock >= Week /\ rows[1].time <= MaxGap
                    /\ reality.longest <= MaxGap
                    /\ reality.rebooted > 0 => reality.rebooted >= Newest.time
                    /\ reality.failed > 0 /\ ~unasked =>
                         clock - reality.failed <= (SmartEvery - 1) * MissAfter + MaxGap
  BY DEF PassIsEarned, Newest
<1>1. dossier /\ clock >= Week /\ rows[1].time <= MaxGap /\ rows # <<>>
  BY Passed DEF GateInv
<1>2. reality.rebooted > 0 => reality.rebooted >= Newest.time
  <2>1. Len(rows) \in DOMAIN rows /\ Newest.time \in Nat /\ reality.rebooted \in Nat
    BY <1>1, NewestTyped DEF GateInv, GateTyped, Realities
  <2>2. Newest.boot = 0
    BY <2>1, Passed DEF GateInv, Newest
  <2> QED
    BY <2>1, <2>2 DEF GateInv, RebootSeen, Newest
<1> QED
  BY <1>1, <1>2, NoLongSpell, FailureIsNear DEF GateInv

LEMMA Rounded ==
  ASSUME NEW w \in Nat, NEW n \in Nat, NEW b \in Nat \ {0}, w <= n * b
  PROVE  Ceiling(w, b) \in Nat /\ Ceiling(w, b) <= n
<1>1. w + b - 1 \in Nat /\ w + b - 1 < b * (n + 1)
  <2>1. b * (n + 1) = n * b + b /\ n * b \in Nat
    OBVIOUS
  <2> QED
    BY <2>1
<1> DEFINE x == w + b - 1
           k == x \div b
<1>2. k \in Nat /\ b * k <= x
  BY <1>1
<1> HIDE DEF k
<1>3. k <= n
  <2> SUFFICES ASSUME k > n PROVE FALSE
    BY <1>2
  <2>1. b * (n + 1) <= b * k
    BY <1>2
  <2> QED
    BY <1>1, <1>2, <2>1
<1> QED
  BY <1>2, <1>3 DEF k, Ceiling

(* One sample for each interval is enough for the evaluator.                *)
LEMMA EnoughSamples ==
  ASSUME GateTyped, NEW n \in Nat, clock >= Day, clock < 1 + n * Interval
  PROVE  n >= MinimumSamples /\ MinimumSamples \in Nat /\ n > 0
<1>0. /\ clock \in Nat /\ Interval \in Nat \ {0} /\ Day \in Nat /\ Week \in Nat /\ Day < Week
      /\ MinSamples \in Nat /\ 3 * Interval <= Day /\ MinSamples * Interval <= Day
  BY GateConstants DEF GateTyped
<1> DEFINE window == IF clock >= Week THEN Week ELSE Day
           e == Ceiling(window, Interval)
<1>1. window \in Nat /\ Day <= window /\ window <= n * Interval
  <2>1. n * Interval \in Nat
    BY <1>0
  <2> QED
    BY <1>0, <2>1
<1> HIDE DEF window
<1>2. e \in Nat /\ e <= n
  BY <1>0, <1>1, Rounded
<1> HIDE DEF e
<1>3. \A m \in Nat : m * Interval <= Day => m <= n
  <2> SUFFICES ASSUME NEW m \in Nat, m * Interval <= Day, m > n PROVE FALSE
    OBVIOUS
  <2>1. (n + 1) * Interval <= m * Interval
    BY <1>0
  <2>2. (n + 1) * Interval = n * Interval + Interval /\ n * Interval \in Nat
    BY <1>0
  <2>3. m * Interval \in Nat
    BY <1>0
  <2> QED
    BY <1>0, <1>1, <2>1, <2>2, <2>3
<1>4. n >= 3 /\ n >= MinSamples
  BY <1>0, <1>3
<1>5. Ceiling(3 * (e + 1), 4) \in Nat /\ Ceiling(3 * (e + 1), 4) <= n
  <2>1. 3 * (e + 1) <= n * 4 /\ 3 * (e + 1) \in Nat
    BY <1>2, <1>4
  <2> QED
    BY <2>1, Rounded
<1>6. MinimumSamples = Greater(MinSamples, Ceiling(3 * (e + 1), 4))
  BY DEF MinimumSamples, window, e
<1> QED
  BY <1>0, <1>4, <1>5, <1>6 DEF Greater

LEMMA HealthyPasses ==
  ASSUME GateInv
  PROVE  HealthyHostPasses
<1> SUFFICES ASSUME dossier, reality.troubles = 0, ~reality.late, run = "none", clock < due,
                    rows # <<>>, Len(rows) < MaxRows
             PROVE  GateVerdict = IF clock < Day THEN "WAITING_FOR_24H"
                                  ELSE IF clock < Week THEN "WAITING_FOR_7D" ELSE "PASS"
  BY DEF HealthyHostPasses
<1>0. /\ clock \in Nat /\ Day \in Nat /\ Week \in Nat /\ MaxGap \in Nat \ {0}
      /\ Interval \in Nat \ {0} /\ Interval <= MaxGap
      /\ rows \in Seq(Rows) /\ Len(rows) \in Nat /\ DOMAIN rows = 1..Len(rows)
  <2>1. Interval <= MaxGap
    BY GateConstants
  <2> QED
    BY <2>1, SmartEveryTyped DEF GateInv, GateTyped
<1>1. AllFit
  BY DEF GateInv, Smooth
<1>2. ASSUME NEW i \in DOMAIN rows PROVE Fit(i)
  BY <1>1 DEF AllFit
<1>3. ~Unhealthy
  <2>1. \A i \in DOMAIN rows :
          /\ rows[i].boot = 0 /\ ~rows[i].reboot /\ ~rows[i].missing
          /\ rows[i].host # "breach" /\ rows[i].smart = "passed" /\ ~Swapping(i)
    BY <1>2 DEF Fit, Swapping
  <2> QED
    BY <2>1 DEF Unhealthy
<1>4. ASSUME clock >= Day PROVE ~Discontinuous /\ ~(Len(rows) < MinimumSamples)
  <2>1. clock < 1 + Len(rows) * Interval
    BY <1>1 DEF AllFit
  <2>2. Len(rows) >= MinimumSamples /\ MinimumSamples \in Nat /\ Len(rows) > 0
    BY <1>0, <1>4, <2>1, EnoughSamples DEF GateInv
  <2>3. ~LeadingGap
    <3>1. rows[1].time = 1 + (1 - 1) * Interval
      BY <1>0, <1>2, <2>2 DEF Fit
    <3>2. (1 - 1) * Interval = 0
      BY <1>0
    <3> QED
      BY <1>0, <3>1, <3>2 DEF LeadingGap
  <2>4. ASSUME NEW i \in DOMAIN rows \ {1}
        PROVE  ~(rows[i].time - rows[i - 1].time > MaxGap)
    <3>1. i \in Nat /\ i - 1 \in DOMAIN rows /\ (i - 1) - 1 \in Nat
      BY <1>0
    <3>2. rows[i].time = 1 + (i - 1) * Interval
      BY <1>2 DEF Fit
    <3>3. rows[i - 1].time = 1 + ((i - 1) - 1) * Interval
      BY <1>2, <3>1 DEF Fit
    <3>4. (i - 1) * Interval = ((i - 1) - 1) * Interval + Interval
          /\ ((i - 1) - 1) * Interval \in Nat
      BY <1>0, <3>1
    <3> QED
      BY <1>0, <3>2, <3>3, <3>4
  <2>5. ~(clock - rows[Len(rows)].time > MaxGap)
    <3>1. Len(rows) \in DOMAIN rows /\ Len(rows) - 1 \in Nat
      BY <1>0, <2>2
    <3>2. rows[Len(rows)].time = 1 + (Len(rows) - 1) * Interval
      BY <1>2, <3>1 DEF Fit
    <3>3. Len(rows) * Interval = (Len(rows) - 1) * Interval + Interval
          /\ (Len(rows) - 1) * Interval \in Nat
      BY <1>0, <3>1
    <3> QED
      BY <1>0, <2>1, <3>2, <3>3
  <2>6. ~Discontinuous
    BY <1>0, <2>2, <2>3, <2>4, <2>5 DEF Discontinuous
  <2> QED
    BY <1>0, <2>2, <2>6
<1> QED
  BY <1>0, <1>3, <1>4 DEF GateVerdict

-----------------------------------------------------------------------------
(* The theorems                                                             *)

LEMMA GateInvInit ==
  ASSUME GateInit
  PROVE  GateInv
<1>1. /\ clock = 0 /\ rows = <<>> /\ run = "none" /\ state = Fresh /\ due = 1
      /\ boot = 0 /\ host = "fit" /\ disk = "passed" /\ smartctl
      /\ reality = [troubles |-> 0, rebooted |-> 0, failed |-> 0, spell |-> 0, longest |-> 0,
                    late |-> FALSE]
  BY DEF GateInit
<1>2. DOMAIN rows = {} /\ Len(rows) = 0
  BY <1>1
<1>3. InTime
  BY <1>1, <1>2 DEF InTime, Fresh
<1>4. RebootSeen
  BY <1>1 DEF RebootSeen
<1>5. SpellsSeen
  <2>1. \A start, end \in Nat : Cut(rows, start, end)
    <3>1. rows \in Seq(Rows)
      BY <1>1
    <3> QED
      BY <1>2, <3>1, CutLast
  <2>2. Cut(rows, clock - reality.spell, clock + 1)
    <3>1. clock - reality.spell \in Nat /\ clock + 1 \in Nat
      BY <1>1
    <3> QED
      BY <2>1, <3>1
  <2>3. 0 + reality.longest <= clock /\ Cut(rows, 0, 0 + reality.longest)
    <3>1. 0 + reality.longest \in Nat /\ 0 + reality.longest <= clock
      BY <1>1
    <3> QED
      BY <2>1, <3>1
  <2>4. reality.spell <= clock /\ reality.spell = 0
    BY <1>1
  <2> QED
    BY <2>2, <2>3, <2>4 DEF SpellsSeen
<1>6. DiskSeen
  BY <1>1 DEF DiskSeen, Fresh
<1>7. AllFit
  <2>1. due = 1 + Len(rows) * Interval /\ clock <= due
    BY <1>1, <1>2, SmartEveryTyped
  <2> QED
    BY <1>1, <1>2, <2>1 DEF AllFit, Fresh
<1> QED
  BY <1>3, <1>4, <1>5, <1>6, <1>7, TypedInit DEF GateInv

LEMMA GateInvStep ==
  ASSUME GateInv, [GateNext]_gateVars
  PROVE  GateInv'
<1>1. GateTyped' /\ InTime'
  BY TypedStep, InTimeStep DEF GateInv
<1>2. RebootSeen' /\ SpellsSeen' /\ DiskSeen'
  BY RebootSeenStep, SpellsSeenStep, DiskSeenStep DEF GateInv
<1>3. Smooth' => AllFit'
  BY HealthyStep DEF GateInv
<1> QED
  BY <1>1, <1>2, <1>3 DEF GateInv

(* The invariant of the gate: what the rows and the monitor's state still   *)
(* tell of the reboots, of the breaches the tools report and, while no due  *)
(* reading missed smartctl, of the failure of the disk, and how regular     *)
(* they are without trouble.                                                *)
THEOREM GateInvariant == GateSpec => []GateInv
<1>1. GateInit => GateInv
  BY GateInvInit
<1>2. GateInv /\ [GateNext]_gateVars => GateInv'
  BY GateInvStep
<1> QED
  BY <1>1, <1>2, PTL DEF GateSpec

(* A PASS says that a whole week was watched without a reboot before the    *)
(* newest sample, without a reported breach longer than the tolerated       *)
(* silence, and, unless a due reading found no smartctl, with a disk that   *)
(* had not failed one SMART cycle before, whatever was killed or trimmed.   *)
THEOREM PassesAreEarned == GateSpec => []PassIsEarned
<1>1. GateInv => PassIsEarned
  BY PassEarned
<1> QED
  BY <1>1, GateInvariant, PTL

(* A host without trouble that is sampled on time is never blocked from its *)
(* first sample on.                                                         *)
THEOREM HealthyHostsPass == GateSpec => []HealthyHostPasses
<1>1. GateInv => HealthyHostPasses
  BY HealthyPasses
<1> QED
  BY <1>1, GateInvariant, PTL
=============================================================================
