---------------------------- MODULE Observation ----------------------------
(***************************************************************************)
(* How the scanner turns one Codex pane into an agent state                *)
(* (src/scanner.rs: CaptureCache and the pane part of Scanner::scan;       *)
(* src/detect/stabilize.rs: StateTracker; src/detect/provider/codex.rs).   *)
(*                                                                         *)
(* A scan lists the panes, takes a process snapshot, captures the screen   *)
(* if it is due, detects a state from title and screen, and stabilizes it  *)
(* against the previous record.  The pane goes on between any two of these *)
(* steps, and the process inventory may be a second old.                   *)
(*                                                                         *)
(* Abstractions: a screen is what the detector finds in it, a title what   *)
(* it says; a timer is the fact that its second has passed.  Process       *)
(* groups are not reused.                                                  *)
(***************************************************************************)
EXTENDS NoValue, Integers

CONSTANTS
    Proc,           \* foreground process groups that run Codex
    Titles,         \* what a terminal title may say
    Screens         \* what a captured screen may show

ActiveTitles == {"activity", "action required"}
ActiveScreens == {"working footer", "question"}
Screen == ActiveScreens \cup {"transcript", "quiet"}

ASSUME TitlesAssumption == Titles \subseteq ActiveTitles \cup {"static", "empty"}
ASSUME ScreensAssumption == Screens \subseteq Screen

ActiveStates == {"working", "blocked"}

INFERRED_IDLE_OBSERVATIONS == 2

VARIABLES
    pane,       \* what the pane runs and shows now
    table,      \* the pane's foreground process in the cached inventory
    tableOld,   \* the inventory is at least a second old
    look,       \* this scan's copy of the pane's title and visibility
    identity,   \* this scan's CaptureIdentity, once it has its processes
    cache,      \* CaptureCache entry of the pane
    cacheOld,   \* the last capture was attempted at least a second ago
    tracker,    \* StateTracker observation of the pane
    record,     \* state of the pane's previous record
    quietRun    \* history: captures in a row that showed nothing active

scanVars == <<table, tableOld, look, identity, cache, cacheOld, tracker,
              record, quietRun>>

observationVars == <<pane, scanVars>>

Pane == [proc : Proc \cup {None}, title : Titles, screen : Screens,
         visible : BOOLEAN]

Look == [title : Titles, visible : BOOLEAN]

Identity == [proc : Proc \cup {None}, started : BOOLEAN]

CaptureEntry == [identity : Identity, screen : Screens \cup {None}]

StateObservation ==
    [identity : Proc, pending_idle : 0 .. INFERRED_IDLE_OBSERVATIONS - 1]

RecordStates == ActiveStates \cup {"idle"}

ASSUME ObservationNone ==
    None \notin Proc \cup Screen \cup RecordStates \cup Look \cup Identity
               \cup CaptureEntry \cup StateObservation

-----------------------------------------------------------------------------
(* codex::detect and preserve_on_capture_failure: a definitive title, then *)
(* the screen, then the absence of activity in both.                       *)
Detection(title, screen) ==
    LET state == CASE title = "action required" -> "blocked"
                   [] title = "activity" -> "working"
                   [] OTHER -> CASE screen = "question" -> "blocked"
                                 [] screen = "working footer" -> "working"
                                 [] OTHER -> "idle"
    IN  [state |-> state,
         inferred |-> title = "empty" /\ screen = "quiet",
         preserve_previous |-> /\ title \notin ActiveTitles
                               /\ screen \in {"transcript", None}]

(* A bug to look for: a hidden pane's cached screen outlives its process.  *)
Captured_by_time ==
    IF cache = None THEN TRUE ELSE look.visible \/ cacheOld

(* due_panes: no entry, a new process, a visible window, or a second gone. *)
ShouldCapture ==
    IF cache = None THEN TRUE
    ELSE cache.identity # identity \/ look.visible \/ cacheOld

(* The tracker's entry for this process: its own, or a fresh one.          *)
KnownProcess == tracker # None /\ tracker.identity = identity.proc

Previous ==
    IF tracker # None /\ ~KnownProcess THEN None ELSE record

PendingIdle == IF KnownProcess THEN tracker.pending_idle ELSE 0

Observe(state, pending) ==
    /\ record' = state
    /\ tracker' = [identity |-> identity.proc, pending_idle |-> pending]

(* A bug to look for: one quiet screen too many is waited for.             *)
stabilize_off_by_one(detection, fresh) ==
    CASE detection.preserve_previous ->
            Observe(IF Previous = None THEN "idle" ELSE Previous, 0)
      [] ~detection.preserve_previous /\ detection.inferred
         /\ Previous \in ActiveStates
         /\ ~(fresh /\ PendingIdle + 1 > INFERRED_IDLE_OBSERVATIONS) ->
            Observe(Previous, IF fresh THEN PendingIdle + 1 ELSE PendingIdle)
      [] OTHER -> Observe(detection.state, 0)

(* A bug to look for: a replayed screen counts as a new observation.       *)
stabilize_replays(detection, fresh) ==
    CASE detection.preserve_previous ->
            Observe(IF Previous = None THEN "idle" ELSE Previous, 0)
      [] ~detection.preserve_previous /\ detection.inferred
         /\ Previous \in ActiveStates
         /\ PendingIdle + 1 < INFERRED_IDLE_OBSERVATIONS ->
            Observe(Previous, PendingIdle + 1)
      [] OTHER -> Observe(detection.state, 0)

(* A bug to look for: a pending quiet screen is never taken as confirmed.  *)
stabilize_forgetting(detection, fresh) ==
    CASE detection.preserve_previous ->
            Observe(IF Previous = None THEN "idle" ELSE Previous, 0)
      [] ~detection.preserve_previous /\ detection.inferred
         /\ Previous \in ActiveStates
         /\ ~(fresh /\ PendingIdle + 1 >= INFERRED_IDLE_OBSERVATIONS) ->
            Observe(Previous, 0)
      [] OTHER -> Observe(detection.state, 0)

(* stabilize_observation: evidence that asks to keep the previous state    *)
(* keeps it; an agent at work is idle by inference only after two fresh    *)
(* quiet screens, and a replayed one is no observation.                    *)
stabilize_observation(detection, fresh) ==
    CASE detection.preserve_previous ->
            Observe(IF Previous = None THEN "idle" ELSE Previous, 0)
      [] ~detection.preserve_previous /\ detection.inferred
         /\ Previous \in ActiveStates
         /\ ~(fresh /\ PendingIdle + 1 >= INFERRED_IDLE_OBSERVATIONS) ->
            Observe(Previous, IF fresh THEN PendingIdle + 1 ELSE PendingIdle)
      [] OTHER -> Observe(detection.state, 0)

-----------------------------------------------------------------------------
ObservationInit ==
    /\ pane \in Pane
    /\ table = pane.proc
    /\ tableOld = FALSE
    /\ look = None
    /\ identity = None
    /\ cache = None
    /\ cacheOld = FALSE
    /\ tracker = None
    /\ record = None
    /\ quietRun = 0

(* The program in the pane goes on, is replaced, is shown or hidden.       *)
PaneChanges ==
    /\ \/ \E proc \in (Proc \cup {None}) \ {pane.proc} :
             pane' = [pane EXCEPT !.proc = proc]
       \/ \E title \in Titles \ {pane.title} :
             pane' = [pane EXCEPT !.title = title]
       \/ \E screen \in Screens \ {pane.screen} :
             pane' = [pane EXCEPT !.screen = screen]
       \/ pane' = [pane EXCEPT !.visible = ~@]
    /\ UNCHANGED scanVars

ASecondPasses ==
    /\ ~(tableOld /\ cacheOld)
    /\ tableOld' = TRUE
    /\ cacheOld' = TRUE
    /\ UNCHANGED <<pane, table, look, identity, cache, tracker, record,
                   quietRun>>

ListPanes ==
    /\ look = None
    /\ look' = [title |-> pane.title, visible |-> pane.visible]
    /\ UNCHANGED <<pane, table, tableOld, identity, cache, cacheOld, tracker,
                   record, quietRun>>

(* process_snapshot_with refreshes an inventory that is a second old.  A   *)
(* process that has left the pane may have no start time any more.         *)
ProcessSnapshot ==
    /\ look # None
    /\ identity = None
    /\ table' = IF tableOld THEN pane.proc ELSE table
    /\ tableOld' = FALSE
    /\ \E started \in BOOLEAN :
          /\ table' = pane.proc => started
          /\ identity' = [proc |-> table', started |-> started]
    /\ UNCHANGED <<pane, look, cache, cacheOld, tracker, record, quietRun>>

ScanEnds == look' = None /\ identity' = None

(* tmux or ps fails: the scan ends in an error and leaves all as it was.   *)
ScanFails ==
    /\ look # None
    /\ identity = None
    /\ ScanEnds
    /\ UNCHANGED <<pane, table, tableOld, cache, cacheOld, tracker, record,
                   quietRun>>

(* No agent in the pane: no record, and cache and tracker let go of it.    *)
NoAgent ==
    /\ identity # None
    /\ identity.proc = None
    /\ record' = None
    /\ tracker' = None
    /\ cache' = None
    /\ quietRun' = 0
    /\ ScanEnds
    /\ UNCHANGED <<pane, table, tableOld, cacheOld>>

AgentFound == identity # None /\ identity.proc # None

(* The history of quiet screens starts again with activity or a process.   *)
QuietSoFar ==
    IF KnownProcess /\ look.title \notin ActiveTitles THEN quietRun ELSE 0

(* The screen is not due: the cached one is replayed.                      *)
Replay ==
    /\ AgentFound /\ ~ShouldCapture
    /\ stabilize_observation(Detection(look.title, cache.screen), FALSE)
    /\ quietRun' = QuietSoFar
    /\ ScanEnds
    /\ UNCHANGED <<pane, table, tableOld, cache, cacheOld>>

(* capture_visible_batch returns what the pane shows by now.               *)
Capture ==
    /\ AgentFound /\ ShouldCapture
    /\ cache' = [identity |-> identity, screen |-> pane.screen]
    /\ cacheOld' = FALSE
    /\ stabilize_observation(Detection(look.title, pane.screen), TRUE)
    /\ quietRun' = IF pane.screen # "quiet" THEN 0
                   ELSE IF QuietSoFar < INFERRED_IDLE_OBSERVATIONS
                        THEN QuietSoFar + 1
                        ELSE QuietSoFar
    /\ ScanEnds
    /\ UNCHANGED <<pane, table, tableOld>>

(* The capture fails: the cached screen is dropped, and a hidden pane      *)
(* waits for its second.                                                   *)
CaptureFails ==
    /\ AgentFound /\ ShouldCapture
    /\ cache' = [identity |-> identity, screen |-> None]
    /\ cacheOld' = FALSE
    /\ stabilize_observation(Detection(look.title, None), FALSE)
    /\ quietRun' = QuietSoFar
    /\ ScanEnds
    /\ UNCHANGED <<pane, table, tableOld>>

(* A new daemon starts from the saved record alone.                        *)
Restart ==
    /\ table' = pane.proc
    /\ tableOld' = FALSE
    /\ ScanEnds
    /\ cache' = None
    /\ cacheOld' = FALSE
    /\ tracker' = None
    /\ quietRun' = 0
    /\ UNCHANGED <<pane, record>>

ObservationNext ==
    \/ PaneChanges \/ ASecondPasses \/ ListPanes \/ ProcessSnapshot
    \/ ScanFails \/ NoAgent \/ Replay \/ Capture \/ CaptureFails \/ Restart

ObservationSpec == ObservationInit /\ [][ObservationNext]_observationVars

(* The scan loop ticks for ever, time passes, and a capture that does not  *)
(* fail comes back.                                                        *)
FairObservation ==
    /\ ObservationSpec
    /\ WF_observationVars(ASecondPasses)
    /\ WF_observationVars(ListPanes)
    /\ WF_observationVars(ProcessSnapshot)
    /\ WF_observationVars(NoAgent)
    /\ WF_observationVars(Replay)
    /\ WF_observationVars(Capture)

-----------------------------------------------------------------------------
ObservationTypeOK ==
    /\ pane \in Pane
    /\ table \in Proc \cup {None}
    /\ tableOld \in BOOLEAN
    /\ look \in Look \cup {None}
    /\ identity \in Identity \cup {None}
    /\ cache \in CaptureEntry \cup {None}
    /\ cacheOld \in BOOLEAN
    /\ tracker \in StateObservation \cup {None}
    /\ record \in RecordStates \cup {None}
    /\ quietRun \in 0 .. INFERRED_IDLE_OBSERVATIONS

(* A process that was at work becomes idle only by a title that says       *)
(* nothing of activity, or after two captured screens in a row showed      *)
(* nothing active: a replayed or failed capture is no evidence.            *)
QuietTwiceBeforeIdle ==
    [][(record \in ActiveStates /\ record' = "idle" /\ KnownProcess)
          => \/ look.title = "static"
             \/ quietRun' = INFERRED_IDLE_OBSERVATIONS]_observationVars

(* What is said of a new process is not its predecessor's: it is active    *)
(* only by a title this scan read or by a screen captured in its own name. *)
ProcessSpeaksForItself ==
    [][(/\ tracker # None /\ tracker' # None
        /\ tracker'.identity # tracker.identity
        /\ record' \in ActiveStates)
          => \/ look.title \in ActiveTitles
             \/ /\ cache'.identity.proc = tracker'.identity
                /\ cache'.screen \in ActiveScreens]_observationVars

Reported ==
    IF pane.proc = None THEN record = None
    ELSE \/ record = Detection(pane.title, pane.screen).state
         \/ Detection(pane.title, pane.screen).preserve_previous

(* A pane that stops changing, hidden or displayed, ends up reported as    *)
(* what it shows: no stale title, screen or process is believed for ever.  *)
(* Captures that go on failing now and then do keep an agent active: each  *)
(* failure takes back the quiet screen before it.                          *)
SettledPaneIsReported ==
    <>[][~PaneChanges /\ ~Restart /\ ~CaptureFails /\ ~ScanFails]_observationVars
        => <>[]Reported

=============================================================================
