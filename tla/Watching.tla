------------------------------ MODULE Watching ------------------------------
(***************************************************************************)
(* A terminal UI that follows the daemon (src/ui.rs: run_loop, UiSchedule; *)
(* src/ipc.rs: SnapshotWatch; src/daemon.rs: serve_client).                *)
(*                                                                         *)
(* The UI keeps one watch connection open, fetches a snapshot of its own   *)
(* after it acknowledged something, connects again when the daemon has     *)
(* gone, and draws only while its pane is believed to be visible.          *)
(*                                                                         *)
(* Abstractions: a snapshot is the number of the change that made it; the  *)
(* message line is nothing, the report of an action or the report that the *)
(* daemon is not there; selection, search and layout are left out, and so  *)
(* are resizes and animation frames other than as redraws.  The UI handles *)
(* one event at a time: what it reads while it awaits an answer it reads   *)
(* at one moment, and nothing else of it runs meanwhile.  A refresh drops  *)
(* the old watch when it starts, not when it ends: nothing reads it in     *)
(* between.  A UI outside tmux that is no popup is left out.                *)
(***************************************************************************)
EXTENDS Integers, Sequences, SequencesExt

CONSTANTS
    MaxView,    \* bound: changes of what the daemon publishes
    MaxPipe,    \* bound: snapshots written to the watch and not yet read
    None

ASSUME WatchingAssumption == MaxView \in Nat /\ MaxPipe \in Nat \ {0}

View == 0..MaxView

ASSUME WatchingNone == None \notin View

(* Why the UI connects.                                                    *)
Reason == {"start", "refresh", "timer"}

VARIABLES
    up,         \* a daemon listens at the socket
    view,       \* what its snapshots show
    unannounced,\* a change is not yet sent to the watch channel
    server,     \* the daemon's task for this watch
    held,       \* the snapshot it is about to write
    news,       \* its receiver has an unseen change
    conn,       \* the UI's end: "none", "open", or "eof"
    pipe,       \* snapshots written and not yet read
    phase,      \* what the UI is doing
    why,        \* the reason for connecting, or the kind of agent activated
    reconnect,  \* reconnect_at is set
    snapshot,   \* the UI's snapshot
    oldest,     \* history: the first snapshot of the watch in use
    message,    \* the message line: "none", "transient" or "daemon"
    sidebar,    \* a pane of its own, not a popup
    shown,      \* that pane is visible
    visible, dirty, rendered_once, hidden_once, \* UiSchedule
    screen      \* what was drawn last

daemon == <<up, view, unannounced, server, held, news>>
socket == <<conn, pipe>>
state == <<phase, why, reconnect, snapshot, oldest, message>>
schedule == <<visible, dirty, rendered_once, hidden_once>>
pane == <<sidebar, shown>>
vars == <<daemon, socket, state, pane, schedule, screen>>

-----------------------------------------------------------------------------
should_render == dirty /\ (visible \/ ~rendered_once \/ hidden_once)

(* The loop waits in its select.                                           *)
Waiting == phase = "loop" /\ ~should_render

Subscribed == server \in {"reading", "writing", "waiting"}

set_transient == message' = "transient"

set_daemon_error ==
    /\ message' = "daemon"
    /\ dirty' = (dirty \/ message # "daemon")

clear_daemon_error == message' = IF message = "daemon" THEN "none" ELSE message

view_changed ==
    dirty' = TRUE /\ UNCHANGED <<visible, rendered_once, hidden_once>>

Init ==
    /\ up = TRUE
    /\ view = 0
    /\ unannounced = FALSE
    /\ server = "none"
    /\ held = None
    /\ news = FALSE
    /\ conn = "none"
    /\ pipe = <<>>
    /\ phase = "connecting"
    /\ why = "start"
    /\ reconnect = FALSE
    /\ snapshot = None
    /\ oldest = None
    /\ message = "none"
    /\ sidebar \in BOOLEAN
    /\ shown \in BOOLEAN
    /\ sidebar \/ shown
    /\ visible = FALSE
    /\ dirty = TRUE
    /\ rendered_once = FALSE
    /\ hidden_once = FALSE
    /\ screen = None

-----------------------------------------------------------------------------
(* The daemon.                                                             *)

(* A scan, a remote snapshot or another client changes what is published;  *)
(* the watches are told after the lock was released.                       *)
Publish ==
    /\ up /\ view < MaxView
    /\ view' = view + 1
    /\ unannounced' = TRUE
    /\ UNCHANGED <<up, server, held, news, socket, state, pane, schedule, screen>>

Announce ==
    /\ unannounced
    /\ unannounced' = FALSE
    /\ news' = (news \/ Subscribed)
    /\ UNCHANGED <<up, view, server, held, socket, state, pane, schedule, screen>>

(* serve_client subscribes before it reads its first snapshot.             *)
Subscribe ==
    /\ server = "accepted"
    /\ server' = "reading"
    /\ news' = FALSE
    /\ UNCHANGED <<up, view, unannounced, held, socket, state, pane, schedule, screen>>

ReadSnapshot ==
    /\ server = "reading"
    /\ server' = "writing"
    /\ held' = view
    /\ UNCHANGED <<up, view, unannounced, news, socket, state, pane, schedule, screen>>

(* A bug to look for: what changed while it wrote counts as sent.          *)
write_response_and_forget ==
    /\ server = "writing" /\ Len(pipe) < MaxPipe
    /\ server' = "waiting"
    /\ pipe' = Append(pipe, held)
    /\ held' = None
    /\ news' = FALSE
    /\ UNCHANGED <<up, view, unannounced, conn, state, pane, schedule, screen>>

(* write_response waits while the UI does not read.                        *)
write_response ==
    /\ server = "writing" /\ Len(pipe) < MaxPipe
    /\ server' = "waiting"
    /\ pipe' = Append(pipe, held)
    /\ held' = None
    /\ UNCHANGED <<up, view, unannounced, news, conn, state, pane, schedule, screen>>

(* changed.changed(): the change is seen before the next snapshot is read. *)
Changed ==
    /\ server = "waiting" /\ news
    /\ server' = "reading"
    /\ news' = FALSE
    /\ UNCHANGED <<up, view, unannounced, held, socket, state, pane, schedule, screen>>

(* The daemon ends or is killed; what it wrote may still be read.          *)
Die ==
    /\ up
    /\ up' = FALSE
    /\ unannounced' = FALSE
    /\ server' = "none"
    /\ held' = None
    /\ news' = FALSE
    /\ conn' = IF conn = "open" THEN "eof" ELSE conn
    /\ pipe' \in {pipe, <<>>}
    /\ UNCHANGED <<view, state, pane, schedule, screen>>

(* The next daemon knows other agents.                                     *)
StartDaemon ==
    /\ ~up
    /\ up' = TRUE
    /\ view' \in {view, IF view < MaxView THEN view + 1 ELSE view}
    /\ UNCHANGED <<unannounced, server, held, news, socket, state, pane, schedule, screen>>

-----------------------------------------------------------------------------
(* connect_snapshot_watch.                                                 *)

Dial ==
    /\ phase = "connecting" /\ conn = "none" /\ up
    /\ conn' = "open"
    /\ server' = "accepted"
    /\ UNCHANGED <<up, view, unannounced, held, news, pipe, state, pane, schedule, screen>>

(* A bug to look for: the report outlives what it reports.                 *)
ConnectedKeepsReport ==
    /\ phase = "connecting" /\ pipe # <<>>
    /\ phase' = "loop"
    /\ reconnect' = FALSE
    /\ snapshot' = Head(pipe)
    /\ oldest' = Head(pipe)
    /\ pipe' = Tail(pipe)
    /\ IF why = "refresh" THEN set_transient ELSE UNCHANGED message
    /\ dirty' = TRUE
    /\ IF why = "start" THEN visible' \in (IF sidebar THEN {shown, FALSE} ELSE {TRUE})
       ELSE UNCHANGED visible
    /\ UNCHANGED <<daemon, conn, why, pane, rendered_once, hidden_once, screen>>

(* The watch's first snapshot.  At the start a sidebar asks whether its    *)
(* pane is visible; it counts as hidden when tmux does not answer.         *)
Connected ==
    /\ phase = "connecting" /\ pipe # <<>>
    /\ phase' = "loop"
    /\ reconnect' = FALSE
    /\ snapshot' = Head(pipe)
    /\ oldest' = Head(pipe)
    /\ pipe' = Tail(pipe)
    /\ CASE why = "start"   -> UNCHANGED message
         [] why = "refresh" -> set_transient
         [] why = "timer"   -> clear_daemon_error
    /\ dirty' = TRUE
    /\ IF why = "start" THEN visible' \in (IF sidebar THEN {shown, FALSE} ELSE {TRUE})
       ELSE UNCHANGED visible
    /\ UNCHANGED <<daemon, conn, why, pane, rendered_once, hidden_once, screen>>

(* Nobody listens, or the daemon ends before its first snapshot: only the  *)
(* timer's attempt is repeated, the others end the UI.                     *)
ConnectFails ==
    /\ phase = "connecting"
    /\ \/ conn = "none" /\ ~up
       \/ conn = "eof" /\ pipe = <<>>
    /\ conn' = "none"
    /\ IF why = "timer"
       THEN /\ phase' = "loop"
            /\ reconnect' = TRUE
            /\ set_daemon_error
       ELSE phase' = "closed" /\ UNCHANGED <<reconnect, message, dirty>>
    /\ UNCHANGED <<daemon, pipe, why, snapshot, oldest, pane, visible,
                   rendered_once, hidden_once, screen>>

(* The daemon notices that the UI has closed its end.                      *)
Hangup ==
    /\ conn' = "none"
    /\ pipe' = <<>>
    /\ server' = "none"
    /\ held' = None
    /\ news' = FALSE
    /\ UNCHANGED <<up, view, unannounced>>

WatchReconnect ==
    /\ Waiting /\ reconnect
    /\ phase' = "connecting"
    /\ why' = "timer"
    /\ UNCHANGED <<daemon, socket, reconnect, snapshot, oldest, message, pane,
                   schedule, screen>>

Refresh ==
    /\ Waiting
    /\ phase' = "connecting"
    /\ why' = "refresh"
    /\ Hangup
    /\ UNCHANGED <<reconnect, snapshot, oldest, message, pane, schedule, screen>>

-----------------------------------------------------------------------------
(* The loop's other events.                                                *)

Draw ==
    /\ phase = "loop" /\ should_render
    /\ screen' = <<snapshot, message>>
    /\ dirty' = FALSE
    /\ rendered_once' = TRUE
    /\ hidden_once' = FALSE
    /\ UNCHANGED <<daemon, socket, state, pane, visible>>

(* A snapshot of the watch replaces the one in hand, even an older one     *)
(* that of a fetch.                                                        *)
next_watched_snapshot ==
    /\ Waiting /\ pipe # <<>>
    /\ snapshot' = Head(pipe)
    /\ pipe' = Tail(pipe)
    /\ clear_daemon_error
    /\ view_changed
    /\ UNCHANGED <<daemon, conn, phase, why, reconnect, oldest, pane, screen>>

(* A bug to look for: the end of the stream is noted and not drawn.        *)
WatchEndsSilently ==
    /\ Waiting /\ conn = "eof" /\ pipe = <<>>
    /\ conn' = "none"
    /\ reconnect' = TRUE
    /\ message' = "daemon"
    /\ UNCHANGED <<daemon, pipe, phase, why, snapshot, oldest, pane, schedule, screen>>

WatchEnds ==
    /\ Waiting /\ conn = "eof" /\ pipe = <<>>
    /\ conn' = "none"
    /\ reconnect' = TRUE
    /\ set_daemon_error
    /\ UNCHANGED <<daemon, pipe, phase, why, snapshot, oldest, pane, visible,
                   rendered_once, hidden_once, screen>>

(* The probe's timer and its result; a failed probe changes nothing.       *)
visibility_checked ==
    /\ Waiting /\ sidebar
    /\ visible' \in {shown, visible}
    /\ dirty' = (dirty \/ (visible' /\ ~visible))
    /\ UNCHANGED <<daemon, socket, state, pane, rendered_once, hidden_once, screen>>

(* Input, a resize or a frame of an animation.                             *)
Redraw ==
    /\ Waiting
    /\ view_changed
    /\ UNCHANGED <<daemon, socket, state, pane, screen>>

shared_selection_changed ==
    /\ Waiting
    /\ dirty' = TRUE
    /\ hidden_once' = TRUE
    /\ UNCHANGED <<daemon, socket, state, pane, visible, rendered_once, screen>>

(* A report of an action expires three seconds after it was set; a pending *)
(* reconnection comes first, half a second after it was set.               *)
MessageExpiry ==
    /\ Waiting /\ message = "transient" /\ ~reconnect
    /\ message' = "none"
    /\ view_changed
    /\ UNCHANGED <<daemon, socket, phase, why, reconnect, snapshot, oldest, pane, screen>>

(* Mark all read, and an activation that needs no acknowledgement or has   *)
(* failed: the answer is reported.  What it changed in the daemon is a     *)
(* Publish.                                                                *)
Act ==
    /\ Waiting
    /\ set_transient
    /\ view_changed
    /\ UNCHANGED <<daemon, socket, phase, why, reconnect, snapshot, oldest, pane, screen>>

(* A completion is activated: by its pane or its transport, or without any *)
(* pane.                                                                   *)
Activate ==
    /\ Waiting
    /\ phase' = "acknowledging"
    /\ why' \in {"pane", "no pane"}
    /\ UNCHANGED <<daemon, socket, reconnect, snapshot, oldest, message, pane,
                   schedule, screen>>

(* The answer comes after the watches have been told.                      *)
Acknowledge ==
    /\ phase = "acknowledging" /\ up
    /\ view' = IF view < MaxView THEN view + 1 ELSE view
    /\ news' = (news \/ Subscribed)
    /\ phase' = "fetching"
    /\ UNCHANGED <<up, unannounced, server, held, socket, why, reconnect, snapshot,
                   oldest, message, pane, schedule, screen>>

(* ipc::snapshot; a popup closes when the focus was exact.                 *)
Fetch ==
    /\ phase = "fetching" /\ up
    /\ snapshot' = view
    /\ \/ phase' = "loop" /\ set_transient /\ view_changed /\ UNCHANGED <<daemon, socket>>
       \/ /\ why = "pane" /\ ~sidebar
          /\ phase' = "closed"
          /\ Hangup
          /\ UNCHANGED <<message, schedule>>
    /\ UNCHANGED <<why, reconnect, oldest, pane, screen>>

(* The acknowledgement or the snapshot after it fails, because the daemon  *)
(* has gone or no longer knows the agent.  After a successful focus the    *)
(* error ends the UI.                                                      *)
ActivationFails ==
    /\ phase = "acknowledging" \/ (phase = "fetching" /\ ~up)
    /\ IF why = "pane"
       THEN phase' = "closed" /\ Hangup /\ UNCHANGED <<message, schedule>>
       ELSE phase' = "loop" /\ set_transient /\ view_changed /\ UNCHANGED <<daemon, socket>>
    /\ UNCHANGED <<why, reconnect, snapshot, oldest, pane, screen>>

(* The user quits, or the terminal goes away.                              *)
Quit ==
    /\ Waiting
    /\ phase' = "closed"
    /\ Hangup
    /\ UNCHANGED <<why, reconnect, snapshot, oldest, message, pane, schedule, screen>>

(* The user looks at the pane or away from it.                             *)
Look ==
    /\ sidebar
    /\ shown' = ~shown
    /\ UNCHANGED <<daemon, socket, state, sidebar, schedule, screen>>

-----------------------------------------------------------------------------
ByDaemon == Publish \/ Announce \/ Subscribe \/ ReadSnapshot \/ write_response
            \/ Changed \/ Die \/ StartDaemon

ByUser == Refresh \/ Act \/ Activate \/ Redraw \/ shared_selection_changed \/ Quit

ByLoop == Dial \/ Connected \/ ConnectFails \/ WatchReconnect \/ Draw
          \/ next_watched_snapshot \/ WatchEnds \/ visibility_checked
          \/ MessageExpiry \/ Acknowledge \/ Fetch \/ ActivationFails

Next == ByDaemon \/ ByUser \/ ByLoop \/ Look

(* The daemon's tasks and the UI's go on.  select! picks among the events  *)
(* that are ready at random, and a timer that is due is ready: each is     *)
(* taken if it is ready again and again.  A probe succeeds now and then.   *)
Fairness ==
    /\ WF_vars(Announce) /\ WF_vars(Subscribe) /\ WF_vars(ReadSnapshot)
    /\ WF_vars(write_response) /\ WF_vars(Changed)
    /\ WF_vars(Dial) /\ WF_vars(Connected) /\ WF_vars(ConnectFails) /\ WF_vars(Draw)
    /\ WF_vars(Acknowledge \/ Fetch \/ ActivationFails)
    /\ SF_vars(WatchReconnect) /\ SF_vars(next_watched_snapshot) /\ SF_vars(WatchEnds)
    /\ SF_vars(visibility_checked /\ visible' = shown)

Spec == Init /\ [][Next]_vars

LiveSpec == Spec /\ Fairness

-----------------------------------------------------------------------------
TypeOK ==
    /\ up \in BOOLEAN
    /\ view \in View
    /\ unannounced \in BOOLEAN
    /\ server \in {"none", "accepted", "reading", "writing", "waiting"}
    /\ held \in View \cup {None}
    /\ news \in BOOLEAN
    /\ conn \in {"none", "open", "eof"}
    /\ pipe \in Seq(View)
    /\ Len(pipe) <= MaxPipe
    /\ phase \in {"connecting", "loop", "acknowledging", "fetching", "closed"}
    /\ why \in Reason \cup {"pane", "no pane"}
    /\ reconnect \in BOOLEAN
    /\ snapshot \in View \cup {None}
    /\ oldest \in View \cup {None}
    /\ message \in {"none", "transient", "daemon"}
    /\ sidebar \in BOOLEAN
    /\ shown \in BOOLEAN
    /\ visible \in BOOLEAN
    /\ dirty \in BOOLEAN
    /\ rendered_once \in BOOLEAN
    /\ hidden_once \in BOOLEAN
    /\ screen \in {None} \cup ((View \cup {None}) \X {"none", "transient", "daemon"})

(* Something will tell the UI of the daemon's last change.                 *)
OnItsWay ==
    \/ unannounced
    \/ news
    \/ server \in {"accepted", "reading"}
    \/ server = "writing" /\ held = view
    \/ server = "waiting" /\ pipe # <<>> /\ Last(pipe) = view

(* However changes, snapshots, the reading of the pipe and the UI's own    *)
(* fetches interleave, a UI with a live watch holds the last snapshot, or  *)
(* the last snapshot is on its way to it, also after it took an older one  *)
(* out of the pipe than the one it had fetched (src/ui.rs:1028,            *)
(* src/daemon.rs:678).  And it never goes back behind the first snapshot   *)
(* of the watch it uses: "r replaces the current watch with a freshly      *)
(* connected stream and its initial snapshot" (docs/architecture.md:282).  *)
NothingIsMissed ==
    phase = "loop" => /\ conn = "open" => snapshot = view \/ OnItsWay
                      /\ snapshot >= oldest

(* The message line does not claim that the daemon is gone while there is  *)
(* a watch, nor says nothing while there is none, whatever the user's      *)
(* actions and their expiring reports leave there.                         *)
MessageFitsConnection ==
    phase = "loop" => /\ message = "daemon" => conn = "none"
                      /\ conn = "none" => message # "none"

Disturbed == ByUser \/ Die \/ StartDaemon \/ Look \/ view' # view

Visible == sidebar => shown

(* Once the user, the daemon and what it publishes are at rest and the     *)
(* pane is visible, the screen ends up with the last snapshot and without  *)
(* an error, or with the report that there is no daemon (CHANGELOG.md:219: *)
(* "reconnect persistent sidebars after daemon restarts").                 *)
ScreenFollows ==
    <>[][~Disturbed]_vars /\ <>[]Visible =>
        <>[](\/ phase = "closed"
             \/ up /\ screen # None /\ screen[1] = view /\ screen[2] # "daemon"
             \/ ~up /\ screen # None /\ screen[2] = "daemon")

=============================================================================
