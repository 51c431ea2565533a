# tmux-agent in TLA+

tmux-agent watches coding agents (Codex, Claude, ...) that run in tmux panes of
one or several machines, tells the user which of them wants attention, focuses
them, and carries messages between them.  This directory models the parts of it
whose correctness depends on order: on interleavings, crashes, retries, failed
writes and stale observations.  TLC checks the models on small instances; TLAPS
proves the safety properties for every value of the constants.

Paths below are relative to the repository (`src/handoff.rs`, `docs/...`).

## 1. Inventory

| Component | State it keeps | Operations | Hard behaviour | What makes it correct |
|---|---|---|---|---|
| **Handoff** (`src/handoff.rs`) | per machine: `sent/<id>.json`, `sent.lock`; on the owning machine: `delivery.lock`, the claim ledger, a staged buffer in tmux | `handoff send`, `remote-handoff` (serve), `handoff status/list` | three processes (sender, receiver, tmux server) that die independently; a ten-second SSH deadline that does not stop the remote side; retries under the same ID; a pane that changes between scan and paste | an ID is typed at most once; records and answers are true; a rejection gives the ID back; every send ends |
| **Attention** (`src/scanner.rs`, `src/daemon.rs`, `src/store.rs`, `src/model.rs`) | the scanner's previous records, the published records, acknowledgements, two files | scan, publish, acknowledge, mark-all-read, bootstrap | the user acknowledges during a scan; the scanner never learns of acknowledgements; two files are written at different times; crash between publication and save | completions stay visible until looked at, what was read stays read, also over restarts |
| **Observation** (`src/scanner.rs`, `src/detect/`, `src/tmux.rs`) | capture cache, process inventory cache, `StateTracker` | one scan of the panes | caches of different ages are joined; captures fail; processes are replaced under a cached screen | a state is based on evidence of the process it is said of; a settled pane is reported as it is |
| **Installation lock** (`src/update.rs`, `scripts/lib.sh`, `scripts/bootstrap`) | `.install.lock/pid` | acquire, judge stale, remove, publish owner, release | each is a system call of its own; owners die | exclusion; recovery of dead owners' locks |
| **Update and version store** (`src/update.rs`, `scripts/bootstrap`, `scripts/lib.sh`) | `versions/<v>`, the links `current` and `manager`, `install-status` | update, rollback, bootstrap, list versions | death between activation and restart; restoring fails as well; a restart process that outlives its operation; a shell trap that gives the lock back and goes on | the links name installed versions; status is truthful; only rollback and repair go back, the controller never; the running daemon is of the current version |
| **Daemon publication** (`src/daemon.rs`, `src/ipc.rs`) | the watch channel, one task for each connection, order by last use | snapshot, watch, mark_used | changes arrive while a task writes the one before; the daemon restarts under a watch | a watcher ends with the last snapshot and does not go back behind its first |
| **Daemon life cycle** (`src/daemon.rs`, `src/config.rs`) | socket, missing-server count, whether the tmux server was ever seen | start, ensure running, shut down | two starts at once; a dying daemon unlinks its successor's socket; a tmux server that is lost, or was never there | one reachable daemon; a lost server ends it |
| **Federation** (`src/daemon.rs`, `src/tmux.rs`, `src/tmux/linux_ssh.rs`) | for each machine its last snapshot, whether it is connected, what was seen of its agents through a local pane | collect, publish_remote, publish_local, peer_error, acknowledge | visibility and state arrive in different snapshots, from different machines; snapshots wait in a pipe while the user acknowledges; the stream is cut, the daemon restarts | a remote completion stays until looked at, and what was looked at stays read |
| **Focus** (`src/focus.rs`, `src/tmux.rs`) | what it captured of the client | capture, switch, remote selection, verification | the client, its connection, the servers and the selection change between any two steps; a remote command outlives its time limit | what is reported is true, and acknowledged only then |
| **UI** (`src/ui.rs`) | the watch, the snapshot, message line, timers; the list, search, selection, keys drawn | connect, refresh, acknowledge, draw; keys, clicks, shared selection | fetched and watched snapshots overtake each other; a hidden sidebar holds newer state than its screen; several sidebars select at once | the screen ends with the last snapshot; a key does what is drawn; sidebars agree |
| **Codex ownership** (`src/codex/`) | bindings of rollout threads to parents | reconcile per scan | evidence of different scans | fail-closed ownership |
| **Claude children** (`src/claude.rs`) | cached child lifecycles | poll | transcript, sidecar and registry change independently | no child of a dead or other parent |
| **Subagent retention** (`src/scanner.rs`) | finished children for thirty seconds | retain, restore ancestry | a child returns under another ID | no duplicate, no orphan |
| **Runner** (`src/runner.rs`) | heartbeat file, terminal | relay, heartbeat, job control | suspended or slow runner; reader removes a replaced file | a live runner is found again |
| **Detection rules, transcript view, configuration, CLI, doctor, packaging** | none | parsing, rendering, dispatch | none of its own | covered by table tests in the repository |

How they interact.  The *scan loop* of the daemon calls the scanner on a thread
of its own; the scanner calls tmux and `ps`, the detectors and the tracker, and
returns records.  The daemon lays acknowledgements over them under one lock and
publishes a snapshot to local watchers (UI, CLI) and to federated daemons, which
merge it with theirs.  `handoff send` and `focus` read a snapshot and then act on
tmux directly, locally or by SSH on the machine that owns the pane, without the
daemon.  Installers replace the binary and restart the daemon under the
installation lock.  Everything that crosses a process boundary is a file, a
Unix socket, an SSH pipe or a tmux command.

`PROJECT.json` lists every component with its status and every hazard, at its line,
with the properties that would catch it.

## 2. Modules

| Module | What it is |
|---|---|
| `Handoff` | one message into one pane: senders on several machines, the receiver, tmux, the pane |
| `HandoffPromise` | the abstract specification `Handoff` implements |
| `HandoffProofs` | the inductive invariant, six safety theorems, the refinement |
| `Attention` | scan, publication, acknowledgement and the two files |
| `AttentionProofs` | the inductive invariants of `Attention` and of `Observation`, one safety theorem and four action properties |
| `Federation` | the agents of another machine in this daemon's snapshot, and what was acknowledged of them |
| `FederationProofs` | the inductive invariant, three safety theorems, one action property |
| `Observation` | from pane to state: caches, detector, stabilizer |
| `InstallLock` | the installation lock, one system call per action |
| `InstallLockProofs` | two inductive invariants and four safety theorems |
| `Lifecycle` | start and end of daemons over one socket path, one system call per action |
| `LifecycleProofs` | the inductive invariant and three theorems |
| `VersionStore` | update, rollback and bootstrap over the installed versions, their links, the status and the daemon |
| `VersionStoreProofs` | the inductive invariant, four safety theorems, one action property |
| `Watching` | a UI that follows the daemon: the watch, its messages, its drawing |
| `WatchingProofs` | the inductive invariant and two safety theorems |
| `Focus` | one activation: the local client, the connection, the remote selection |
| `FocusProofs` | the inductive invariants of `Focus` and of `Sidebar`, their safety theorems and action properties |
| `Sidebar` | the list of one sidebar: selection, search, shortcuts, and the selection it shares |
| `NoValue` | the value of what is absent, for the modules whose theorems stand together |
| `MCHandoff`, `MCAttention`, ... | one for each module that is checked: model values, definitions and symmetry for TLC |

An operator introduced as a *variant* or *a bug to look for* is not part of the
specification.  It is a changed form of the definition after it, the way a
plausible mistake in the code would change it; putting it in that definition's
place makes TLC report the property it is meant for, which shows that the
property is able to fail.

### 2.1 Handoff

*State.* `send[a]` and `deliver[a]` are the program counters of one run of
`handoff send` and of its delivery; `sent`, `claims` are files; `auditLock`,
`deliveryLock` are flocks; `tmux[a]` is the command the delivery gave to the tmux
server; `target` is the pane.  The claim ledger, `deliver_with_submission`,
`send`, `finish_report` and `submit_paste` are translated branch by branch: each
early return is an action (`AbandonSend`, `AnswerFromClaim`, `FailClaim`,
`FailStage`, `RefuseTarget`, `RefusedByTmux`, `LoseConfirmation`).

*History.* `stuck` holds the IDs whose claim was left by a killed delivery or by a failure
that the code answers *uncertain* or cannot undo: the reasons an ID may stay blocked.

*Abstractions.* A request is its ID, the identities of pane and process, its text
as a model value and the working override.  What is between two effects other
processes can see is one action.  A write of a file has three outcomes: done, not
done, and done but reported as failed (the error came after the rename).  The
content of messages, listing and formatting are left out.

*Environment.* The pane is recreated, its process restarts, the agent's state and
the copy mode change, at any moment.  A killed receiver leaves its command with
tmux; a sender that gives up leaves the remote process running, which may even
start later.

*The promise.* `HandoffPromise` knows only handings (commands that tmux executed
or still can), pastes, confirmations and IDs answered uncertain: an ID is handed
over only when no handing of it exists and it was never answered uncertain; a
confirmation needs a paste.  `Handoff!KeepsPromise` instantiates it with
expressions over the concrete state.

### 2.2 Attention

`previous` is what the scanner believes, `local` what the daemon published.
`Scanned`, `next_seen`, `goal_lifecycle` are the scanner's decisions;
`KeptAck`/`Overlaid` are `apply_acknowledgements`, `Acknowledged`/`Remembered` are
`acknowledge_records`.  A scan is three actions (`Scan`, `PublishLocal` or
`PublishNothing`, `SaveState`) because acknowledgements are served between them;
acknowledging and saving the acknowledgements is one, because both happen under
the daemon's lock.  Start is two, `Boot` and `Announce`: a daemon that dies between
them has saved the records of its bootstrap scan and announced none.

Time stamps of goal outcomes are compared for equality and with 0 only, so the
clock is "a stamp nothing kept of this agent holds"; five variables hold at most
one stamp each, and six values are enough for ever.

A crash ends what is in memory.  `local` is then a history variable, for the properties
that compare before and after a restart: it keeps what the last daemon had published of
an agent if the files allowed to rebuild it (`Saved(a)`), and forgets it otherwise, which
happens in the window between publication and save or after a write that failed.  Over
such a restart the properties promise nothing, because nothing can.
`FilesHoldWhatIsPublished` says when that window is open: never while the scan loop is at
rest and the last write of each file succeeded, so that a failed write is made good by
the next.

### 2.3 Observation

One pane and one provider (Codex), because the stabilizer needs one detector in
full and panes do not influence one another.  A scan is split where the world can
change in between: `ListPanes` (title, visibility), `ProcessSnapshot` (a cached
inventory up to a second old), and the capture (`Capture`, `CaptureFails`) or
replay of a cached screen (`Replay`), with stabilization in the same step, as in
the code.  A screen is what the detector finds in it.  A timer is the fact that its
second has passed.  `ScanFails` is a scan that ends in an error before any pane was
judged.  The tracker knows a process by "agent:pgid" without its start time; process
groups are assumed not to be reused by an agent of the same kind.
`quietRun` is a history variable: captures in a row that showed nothing active.

### 2.4 InstallLock

One system call per action, since the lock is a directory, a file in it and
`kill(pid, 0)`, and nothing ties them together.  `robbed` records that a living
installer's file or directory was removed by another process, `met` that an
installer saw the lock taken by a living process, `killed` who was killed.
The shell's copies (`scripts/lib.sh`, `scripts/bootstrap`) follow the same
protocol but retry a stale lock they cannot remove without sleeping and without
counting; the model follows the Rust code.  Reuse of process IDs is not modelled.

### 2.5 Lifecycle

The path of the socket is all that daemons share, and `socket` is the daemon that bound
the file there, alive or dead.  `exists`, `connect`, `remove_file`, `bind`, `listen` and
`chmod` are actions of their own; `UnixListener::bind` is two.  A daemon's `pc` follows
`run` to its last `remove_file`, a client's `at` follows `ensure_running`, `shutdown` and
the commands.  A process slot (`Daemon`) is used again when its process is gone and
neither the path nor a client remembers it.  `overlap` is a history variable: two daemons
were starting or ending at the same time since there was last none.  The number of polls
is left open when processes may be slow (`"slow" \in Faults`).

*The tmux server.* A daemon remembers whether it has seen the server (`observed`): it looks
when it starts (`"key"`) and in each scan.  Until then a missing server is no error, the
scan finds no panes, and the daemon binds and serves.  From then on a missing server is a
miss, and `MissingServerExitThreshold` misses in a row end it.

### 2.6 VersionStore

*State.* `store`, `current`, `manager` and `status` are what `versions/`, the two links and
`install-status` say; `status` is the version that is READY, or `None` for every other
word.  `pc[o]` follows one run of `perform_update`, `perform_rollback` or
`scripts/bootstrap`; `was[o]` is `current` as the operation read it under the lock and
`want[o]` the version it is to install or select.  `child[o]` is the `daemon restart`
process it spawned, which stops a daemon and then ensures one, and which lives on when its
operation is killed.  `daemon` is the version that serves.

*The two implementations.* Rust and shell share the steps from the fetch to the
activation.  They differ in the order at the end: update restarts, then writes READY and
undoes its activation when either fails; bootstrap writes READY, then restarts if the
selection moved, and never undoes.  `adopt` is the bootstrap that finds a compatible
selection without a controller and installs only a controller.

*The trap.* bootstrap's `cleanup` is the trap of HUP, INT and TERM as well as of EXIT, and
it returns: after a signal the script has given its lock back and goes on (`Interrupted`).
What keeps it from moving links under another installer is that
`tmux_agent_activate_managed_link` compares the lock's owner with its own pid
(`MayMoveLinks`); only `install-status` can be written without the lock (`unsaid`).

*Launcher protocols.* Each operation runs from a checkout or a binary of some launcher
protocol (`protocol[o]`), and takes an installed version for valid only if its
COMPATIBILITY names the same (`Fits`).  Update and rollback refuse to work beside a
selection or controller of another protocol.  Bootstrap refuses beside such a controller too, but
replaces such a selection by the version its checkout is pinned to, which may be older:
the repair of `docs/architecture.md:358-361`.

*Abstractions.* A version is a number.  The lock excludes and is free when its owner dies; `InstallLock` says how far that is
true.  Downloading, verifying and extracting is one step that succeeds or fails;
a published directory stays valid; starting and stopping a daemon is one step each, whose
details are in `Lifecycle`.  The arguments of an operation are chosen when it has the lock.

*History.* `excused` says that the daemon need not be of the current version: it did not
answer or stop, restoring failed, an operation died or was told not to restart after it
had moved the selection, or a command that runs an older binary started it.  The last is
why `docs/installation.md` asks to restart long-running UIs.  An update that finds its
version current does not restart a daemon that an earlier, killed update left behind, so
that excuse ends only with the daemon.

### 2.7 Federation

*State.* `peer` is what the machine's own daemon publishes, `stream` the snapshots that
its `watch --local-only` wrote into the pipe, `link` the collector that reads them.
`remote`, `connected`, `remote_seen` and `transport` are what `Aggregate` holds of one
machine; `acks` and `ackFile` its completions in memory and on disk.

*Actions.* `publish_remote`, `publish_local`, `peer_error` and `Acknowledge` are each one
action, because each runs under the daemon's one lock; `Send`, `Connect`, the cuts of the
stream and `Restart` are what happens around them.  `publish_local` reaches remote agents
only by the local panes that carry their sessions (`Transport`): the overlay of an agent
exists while exactly one such pane is known, and looks at that pane's visibility together
with the pane on the machine.  The associations are taken as they come from
`resolve_transport`; how it recognises connections is left out.

*History.* `turn` numbers the ends of turns and `read` is the turn that was shown when the
user acknowledged.  A collector reports changes by the snapshot, so that the daemon may
miss a turn that starts and ends between two of them, with the effect that section 3 lists as
a known limit.

### 2.8 Watching

*State.* `server`, `held` and `news` are the daemon's task for this watch: a
`tokio::sync::watch` receiver, of which only "there is something unseen" is known, and
the snapshot the task is about to write.  `pipe` is the socket.  `phase`, `snapshot`,
`message` and the `UiSchedule` are the UI's.  The UI's loop awaits one thing at a time, so
a phase is what it awaits: a connection, an event of its `select!`, the answer to an
acknowledgement, a fetch.

*Order.* `serve_client` subscribes before it takes the first snapshot.  After each write it
waits on `changed()`, which marks the change as seen, and only then takes the next
snapshot: each of these is an action.  A fetch goes over a connection of its
own, so it overtakes what is in the pipe; the older snapshots that follow are shown
in turn, and the last is the last.  `oldest` is the first snapshot of the watch in use.

*Drawing.* A sidebar that is hidden does not draw.  Its visibility is asked of tmux once a
second and is a guess in between (`visible` beside `shown`).

### 2.9 Focus

*State.* The local client (who it is, where it looks), the local server's lifetime, the
connection each local pane carries, and, on the other side, attached connections, the
lifetime of server and session, the agent's window and whether it is selected.  All of
it changes between any two steps of the activation.  `phase` is the activation's step,
`captured` the `FocusContext`, `plan` what the resolution chose.

*Remote jobs.* The `remote-focus` command is a process on the other machine (`jobs`): its
checks, the selection and the second look are actions of its own.  The control command
gives up after its time limit; the job goes on and may select the window later, also
during the next activation.

*History.* `confirmed`: the remote machine saw the window selected, by the answer that was
used, while the plan's pane carried that connection.  `requested`: a job of this activation was
started.

*Left out.* An activation from outside tmux (`FocusClient::OutsideTmux`) has no client to
capture or compare.  Inside tmux the comparison and the switch are one `if-shell`
command, so they are one step here.

### 2.10 Sidebar

*State.* `list` is the snapshot's agents, `selected_id` and `selected_position` the
selection, `screen` what was drawn last, `rendered_shortcuts` the keys of it, `option` the
tmux option that all sidebars share, `tasks` the broadcasts on their way and `wakes` the F17
keys that a broadcast sends to the other sidebars.

*Actions.* A list that arrives reconciles the selection; a search restricts the rows; a
shortcut is looked up in what was drawn, Enter and a click in the list as it is; a
shortcut, and no other choice, broadcasts; a sidebar that is woken or comes into view adopts the option.
`pressed` and `moved` record what a key activated and why the selection is what it is.

*Not promised.* Enter and a click use the list of the moment they are handled.  A sidebar
that has just come into view and has not drawn yet can therefore activate another row than
the one under the cursor; only the numeric keys are tied to what was drawn.

## 3. Runs

| Run | Checks | Bounds | Result |
|---|---|---|---|
| `handoff` | `AtMostOncePaste`, `SentRecordsAreTruthful`, `RejectedTypedNothing`, `PendingHasReason`, `SenderBindsId` | two attempts of one ID from two machines, the pane and its process replaced once, every fault | holds |
| `handoff_live` | `KeepsPromise`, `EveryCallEnds` | as above, one pane life, without version skew | holds |
| `attention` | `FilesHoldWhatIsPublished`, `CompletionIsShown`, `ReadStaysRead` | one agent, two goal outcomes, crashes and failing writes | holds |
| `federation` | `OverlayFitsTransports`, `OnScreenIsSeen`, `AcknowledgedStaysRead`, `HiddenCompletionStays`, `Converges` | one agent, two turns, one snapshot in the pipe, cuts, crashes and failing writes | holds |
| `observation` | `ObservationTypeOK`, `QuietTwiceBeforeIdle`, `ProcessSpeaksForItself`, `SettledPaneIsReported` | two processes, three titles, three screens | holds |
| `watching` | `NothingIsMissed`, `MessageFitsConnection`, `ScreenFollows` | two changes, two snapshots in the pipe, restarts of the daemon at any moment | holds |
| `focus` | `ReportsAreTrue` | two panes, two connections, everything replaced once, one activation | holds |
| `sidebar` | `SidebarTypeOK`, `ScreenIsCurrent`, `SelectionIsShared`, `ShortcutHitsWhatIsDrawn` | three agents, one of them a child, four lists, two queries, two keys, two broadcasts, one wake | holds |
| `install_lock` | `ExclusiveUnlessRobbed`, `LeavesNothingBehind`, `GivesUpOnlyBehindTheLiving` | three installers, five attempts, grace two, kills and failing writes | holds |
| `lifecycle` | `ReachableUnlessOverlap`, `RestartReplaces`, `ShutdownIsObeyed`, `LostServerEndsDaemon` | two daemons, one user, threshold two, every fault | holds |
| `lifecycle_one` | `OneDaemon` | two daemons, one user, no fault | **violated** |
| `version_store` | `SelectionsAreInstalled`, `ReadyNamesCurrent`, `FailureKeepsPrevious`, `DaemonIsCurrent`, `OnlyRollbackGoesBack` | three versions, of which two can be controllers and the third has another launcher protocol, two operations, every fault | holds |

Type correctness is proved in every module, as part of its inductive invariant;
`observation` and `sidebar` check it as well, because their types say what a captured
screen and a drawn key may be.

Why the bounds are enough to be interesting.

* *Handoff.* Every property of the protocol is about two attempts that share an ID:
  attempts of different IDs share only the two locks.  Two attempts from two machines
  or one include the retry after a lost answer, the concurrent duplicate, and a
  different message under the same ID.  `MaxLife = 2` lets the pane or the process be
  replaced after it was looked up.  `SentLimit = 1` keeps every record because
  there is one ID; what is dropped beyond the limit is left open in `write_sent` and
  proved about for any number of IDs, `SenderBindsId` for as long as the records of all
  IDs sent for fit.
* *Attention.* Agents are independent in every definition but mark-all-read, which
  treats each as `acknowledge` does, so one is enough; two outcomes are needed for
  "another outcome"; runs of any length are covered because the state space is finite
  without a counter.
* *Observation.* Two processes are needed for "replaced".  Of the titles, activity,
  a definitive static one and an empty one are told apart; of the screens, one that
  is active, one that asks to keep the state, and one that is quiet.  The full sets
  (1.2 million states) satisfy the same properties and only take longer, and the
  safety properties are proved for any of them.
* *Federation.* The code treats agents independently, so one is enough.  Two turns are one
  that was acknowledged and one after it; one snapshot in the pipe makes another
  wait in the machine's watch, which is how a snapshot becomes old.  Cuts and restarts
  are unbounded.  The properties but `Converges` are proved for any number of each.
* *Watching.* Two changes are the least for which the UI can hold one, fetch another and
  find a third in the pipe; two places in the pipe are the least for "an older one before
  the last".  Restarts, refreshes and acknowledgements are unbounded (204 thousand states).
* *Focus.* Two panes and two connections give the pane that carries the agent another
  connection, the connection another pane, and a wrong pane to end in.  One life
  more of client, server, host and session is every "no longer the same" check once.
  One activation meets jobs of its own that outlive the time limit; that jobs of
  earlier activations do no more harm is in the proofs, which have no bound on any of them
  (0.9 million states).
* *Sidebar.* Three agents are a row that goes, a row that takes its place, and a child,
  which has no key.  The four lists shorten, empty and reorder; two queries leave all or
  some.  Two broadcasts overtake each other.  The properties are proved for any number
  of each.
* *Lifecycle.* Starts and ends race in pairs: two that start, or one that ends while
  another starts.  One user suffices for both, since a start that is slow is given up and
  repeated.  Process slots are used again, so histories are of any length.  The safety
  properties are proved for any number of daemons and users.
* *InstallLock.* The known races need a dead owner or one that leaves, a waiter, and
  a new owner.  `GivesUpOnlyBehindTheLiving` needs `Attempts` to exceed `Grace` plus
  the number of installers, since every recovery of a dead installer's lock takes an
  attempt, and five attempts are the least for three installers and a grace of two.  The
  code has 300 attempts and a grace of 50, which the theorem makes enough for 250 installers.
* *VersionStore.* Three versions give an older, a selected and a newer one, and one of
  them, the newest, has another launcher protocol and can be no controller: the selection
  that a bootstrap of an older checkout repairs.  Two operations are one that
  holds the lock and one that has lost it, was killed with its restart going on, or has
  released it and still reports.  Slots are used again, so histories are of any length.
  `OneIsInterrupted` keeps two bootstraps from going on without their lock at once, which
  only multiplies states;
  the safety properties are proved without that bound and for any number of versions and operations.

Deadlock is not checked in the handoff and lock runs, where all senders, or all
installers, end.  In the others the system never stops and deadlock is checked.

### Fairness

`Handoff!Fairness` is weak fairness of a sender's and a receiver's next step and of
tmux.  A running process takes its next step; flock wakes a waiter when the lock is
free (`WF` is enough because each holder's critical section ends and attempts are
finitely many); `control_output` enforces the ten seconds, which `GiveUp` stands
for; and the tmux server executes what it was given.  The last is an assumption on
tmux: `tmux.rs` runs its commands without a time limit, and a server that hangs
holds `delivery.lock` with them.  Nothing makes a request in flight arrive, a file
operation fail, a process crash or an agent move.

`FairObservation` is weak fairness of the steps of a scan and of time: the scan
loop ticks for ever.  `SettledPaneIsReported` assumes that the pane stops changing,
that the daemon stays up, and that captures and scans stop failing.  The assumption
on captures is needed: a failed capture takes back the quiet screen before it, so
captures that fail every other time keep an agent active.

`Lifecycle!FairSpec` is weak fairness of each daemon's main task, of its scanner, and of
each client's next step: they are threads of running processes, each wait of which has
a time limit or waits for one of the others.  The one wait that has none is that of a
collector for a child that closed its output and does not exit (`stream_remote`); the
liveness properties except such a daemon (`stuck`), which indeed never ends.
`LostServerEndsDaemon` assumes besides that the server stays away and that scans stop
failing for other reasons, each of which restarts the count; it speaks only of daemons
that have seen the server, since the others serve on without it.

`Federation!LiveSpec` is weak fairness of the machine's watch (`Send`), of the collector's
restart after its delay (`Connect`), and of the two ways the daemon treats what
a collector produced: `publish_remote` and, at the end of a stream, `peer_error`.  Each
is a loop of a running task.  `Converges` assumes that the machine comes to rest and that
streams stop being cut.  It counts a stream that ends as an end of its collector; the
wait for the child's exit after that has no time limit in the code (`stream_remote`), as
said of `stuck` above.

`Watching!LiveSpec` is weak fairness of the daemon's task and of the UI's straight-line
code.  The branches of the UI's `select!` need strong fairness (`WatchReconnect`,
`next_watched_snapshot`, `WatchEnds`, a visibility probe that succeeds): tokio picks at
random among the branches that are ready, so one that is ready again and again is taken,
although ticks and keys can always be taken instead.  That a probe of tmux succeeds
again and again is an assumption on tmux.  `ScreenFollows` assumes besides that the user,
the daemon and what it publishes come to rest and that the pane stays in view.

`Attention`, `InstallLock`, `VersionStore`, `Focus` and `Sidebar` have no liveness
property; nothing is assumed.

### What the violation shows

`lifecycle_one`.  One user restarts the daemon.  The old daemon has closed its listener
and waits for its tasks; the restart sees that nobody answers and starts the next one,
which takes the file for stale, removes it and binds; then the old one removes the
file at the path, which is the new daemon's.  The new one goes on unreachable, and the
next command starts another.

### Known limits without a run

The code's own rules also allow the following.  Each is a behaviour of the models that a
stronger property than the ones above would exclude, and none has a run of its own.

* *Handoff: failed does not mean not pasted.*  Attempt 1 is sent by SSH; the sender gives
  up after ten seconds while the remote process has not reached the claim.  The retry
  finds the agent working and is rejected, and the record becomes *failed*.  Then the first
  process claims the ID, finds the agent idle and pastes.  The record says "the receiver
  refused before pasting anything" of a message that was typed.
* *Attention: deferred completion.*  Acknowledging a goal notice while its turn runs
  acknowledges the turn's end too; it then ends out of sight and is not *done*.
* *Attention: pursuing.*  An idle agent that still shows "pursuing goal" is *done* again
  one scan after it was acknowledged.
* *Installation lock: exclusion.*  A waiter reads the owner's pid; the owner releases the
  lock and exits; another installer takes the lock; `kill` says that the process the
  waiter asks about is gone, and the waiter removes the lock of the other.  Nobody was
  killed and no grace expired.
* *Federation: a turn nobody saw.*  A remote turn that starts and ends between two
  snapshots, or while the stream is down, keeps the acknowledgement of the turn before
  it, so its end is not shown as *done*, although an acknowledgement "remains effective
  until that agent begins another active turn" (`docs/troubleshooting.md:222`).
* *UI: a refresh while the daemon restarts.*  `r`, or an acknowledgement, whose connection
  fails ends `run_loop`, and with it a persistent sidebar (`src/ui.rs:771`, `:1206`),
  while the same failure found by the watch itself is retried; `CHANGELOG.md:219` says
  that persistent sidebars reconnect.  `ScreenFollows` excepts such a UI
  (`phase = "closed"`).

## 4. Proofs

All proofs are checked to the last leaf, without assumptions other than the named
ASSUMEs of the modules.

**`HandoffProofs`.**  `AtMostOncePaste` is not inductive: it says nothing of what is
queued in tmux or about to be.  The inductive invariant `IInv` is the conjunction of
`TypeOK` with

* `Requested`, `Phases`: an attempt that does anything has a request; a phase that holds a
  lock holds it, so at most one delivery is between claim and answer;
* `ClaimCovers`: a claim file with the attempt's own fingerprint exists for every delivery
  in progress and for every paste tmux executed or still can execute;
* `OneHanded`: no two attempts of one ID have such a paste;
* `UncertainIsClaimed`: an ID that was answered uncertain still has its claim;
* `TranscriptIsTmux`: the transcript is what tmux executed;
* `DeliveredWasTyped`: a claim marked delivered, a positive answer or sent record has
  its paste in the transcript.

`ClaimCovers` is the heart: a claim is removed only by `withdraw`, and only in phases
in which its delivery has nothing in tmux or tmux has refused; therefore a second
attempt that finds no claim knows that nothing is queued.  One step per action
and conjunct proves that it is preserved (`TypeStep`, `PhaseStep`, `ClaimStep`,
`TranscriptStep`, `DeliveredStep`).  From `Invariance` follow `AtMostOnce`,
`TruthfulSentRecords`, `RejectionIsSafe`, and, with `InitMapped` and `StepMapped`,
`Implementation`: Handoff implements HandoffPromise.

`RejectionFreesId` is inductive beside `IInv`.  Whoever leaves the phases of a delivery in
progress either withdraws the claim, marks it delivered, or has a failure or a kill to
show; `PhaseFacts` keeps its request, and so its ID, meanwhile (`PendingStep`).

`SenderBinds` is about the other side, the sender's records, and needs an invariant of its
own (`SentInv`): every exchange that was begun has its record, of its message (`Recorded`).
That survives because a write drops records only when there are more than `SentLimit`,
and every record is of an ID the machine has sent for (`SentFor`); so the theorem is
about each machine whose IDs fit, and the set of IDs is assumed finite.  Beyond the limit
the code itself forgets what an ID was used for.

**`InstallLockProofs`.**  The invariant adds to `TypeOK`: `Counting` (an installer that is
still trying has attempts left), `DirectoryStands` (as long as nobody was robbed, a
holder's directory is there), `ExclusiveUnlessRobbed` itself, and
`SomebodyCares` (as long as nobody was killed, a lock that exists has an installer on
its way to remove it: the one its file names, or, when it names nobody, the maker, or
whoever emptied it and is about to call rmdir).  `LockExclusion` and `NothingLeftBehind` hold for any
number of installers.

`PatienceSuffices` counts.  An installer takes the lock once, so each attempt of another
that ends without a living holder in sight is one of the grace or is paid for by an
installer that has made the directory since (`Charged`); those are counted by
`Used`, which never reaches the number of installers.  `Attempts >= Grace +
Cardinality(Installer)` is therefore enough; with one attempt less TLC finds the
installer that gives up behind a dead one.

**`FederationProofs`.**  What the user is shown joins facts of different ages, so the
invariant is about the order of snapshots: records only get newer from `remote` through
`stream` to `peer` (`RemoteInOrder`, `StreamInOrder`, `PeerInOrder`), none of them is
older than the turn that was acknowledged, and one that is idle with that very turn is
still covered by the acknowledgement (`CoveredIfRead`).  `AcksShow` says that what
is acknowledged is not shown as done, `OverlayIsHonest` that the overlay does not call
undone what both panes show.
`HiddenStaysDone` is an action property and uses `KeepsHidden`, one lemma for each action that can
change the overlay, besides `Invariance`.

**`WatchingProofs`.**  `Connections` relates the two ends of the watch: an open one has a
daemon and its task.  `InOrder` and `NotBefore` say that snapshots do not decrease from the
pipe over `held` to `view` and that none is older than the watch's first.  `Delivered`
is the heart: with an open watch the last snapshot is on its way (`OnItsWay`), or the task
waits, the pipe is empty and the UI holds it.  `Reported` ties the message line to the
connection.

**`FocusProofs`.**  The recheck comes after the answer, so "exact" is true only because a
connection is never made twice: `AnswersAreTrue` says that a positive answer was
confirmed while the pane carried the plan's connection, or the pane has lost that
connection for good, which the recheck then sees.  It rests on `JobsFit` (a job of this activation asks
for the plan's connection, jobs of earlier ones have earlier numbers), on `InUse` (every
connection in use was made) and on `InStep` (what each step of the activation implies).

The second half is `Sidebar`.  `SidebarInv` says of the screen that it is what would be
drawn now unless a frame is due, that the keys in use are those drawn (`Drawn`), and of the
shared option that, once every key of a broadcast has been read, what it holds is
selected or still waited for, unless the user moved (`Shared`).  `VisibleIndices` says what
the list's recursive filter returns for every list: rows that match, and all of
them.  It goes by induction, which `SetInduction` states about a set of numbers in place of
a predicate, from the fact that `<` is well founded.

**`LifecycleProofs`.**  Without overlap: no two daemons are in transit (`OneInTransit`), a
daemon that has bound owns the path (`PathIsOwn`), and while one is past its look at the
path, or past its serving, no other serves (`NobodyServes`), so that what it removes is
nobody's.  Always: a daemon that was asked to stop is past its start and, once its client
goes on, unreachable (`StoppedIsPast`), which gives `RestartIsNew`.

**`AttentionProofs`.**  Types first: `TypeOK` alone does not survive an acknowledgement,
because remembering a notice stores its stamp and 0 is no stamp.  The strengthening, every
pending notice is stamped (`TypeInv`), has to be carried through `goal_lifecycle`, the
overlay, both files and a restart.

The scanner, the daemon and the files hold three versions of a record, and the user
acknowledges between any two writes.  What ties them together is one more record that no
variable holds once the next scan is done: `Base`, the scanner's record at the last
publication.  The published record is rebuilt from it and the acknowledgement
(`Rebuilds`), what the scanner has now follows from it by one scan (`Follows`), and the
state file holds it whenever no write is due or failed.  `InStep` says that what is
acknowledged shows.  The step that needs this most is `PublishNothing`, which saves nothing:
a publication that changes nothing published comes of an unchanged record, so the file is
still the one a restart needs.  From the invariant follow `FilesInStep`, and, with what one
step shows of an agent (`ShowsCompletion`, `KeepsRead`), the action properties
`CompletionStaysShown` and `ReadRemains`, over restarts too, because a restart rebuilds
what was published.

The second half is `Observation`.  `ObservationInv` adds to the types that the tracker's
pending quiet screens are no more than the captures in a row that were quiet
(`quietRun`): a replayed screen is never counted, so `QuietTwice` means two captures.
`SpeaksForItself` goes through the steps of a scan: a cached screen is replayed only under
the identity it was captured for.

**`VersionStoreProofs`.**  No property is inductive alone, because each is about files
that several steps of several operations write.  `IInv` adds to `TypeOK`:

* `Roles`, `Planned`: a step belongs to the kind of operation that can be there; what an
  operation found selected is installed, and so is what it is about to select;
* `Owner`: an update or rollback between its first look and its last step holds the lock;
* `Kept`: while an operation owns the lock and has not activated, the selection is the one
  it read; from then on, while it may still undo, the one it wants, which is newer unless
  it rolls back, or repairs a selection of another launcher protocol;
* `Selected`: a bootstrap that has lost its lock cannot find the selection taken away: if it
  read or made one, no update that runs meanwhile began without any, to undo to none;
* `Announced`: what is READY was retracted before an operation moves the selection;
* `Fresh`: an outdated daemon without an excuse has somebody who will restart it.

The theorems follow from it; `NothingElseGoesBack` is an action property of the selection
and the controller, proved of each step under it.  Everything is for any set of versions in `Nat`,
any set of operations and any set of faults.

Only model-checked: the liveness properties (`EveryCallEnds`, `SettledPaneIsReported`,
`ShutdownIsObeyed`, `LostServerEndsDaemon`, `Converges`, `ScreenFollows`), which the prover
cannot treat under fairness.  Every safety and action property that a run finds to hold is
proved.  `OneDaemon` is false.

## 5. Not modelled

* Power loss: files are renamed into place without fsync, and what survives is up to
  the file system.
* A change of the foreground process between the scan and the paste, with the pane
  process unchanged: the code states that "process validation and terminal
  input are still separate", and the guard cannot see it.
* Text: formatting, escaping, parsing of tmux and ps output, rendering.
* Terminal emulation, signals and raw mode of the runner.
* Revisions: no client compares them.  IPC framing, and the order by last use.
* Remote goals, which take the path of local ones; how the tmux layer recognises SSH and Mosh
  connections, markers and titles; detached Mosh mirrors; focus from outside tmux.
* Rendering and layout, the confirmation of `q`, the subagent view, the transcript view.
* The components `PROJECT.json` calls `not_modelled`; those of the plan follow.

## 6. Plan

Done: `Handoff`, `HandoffPromise`, `Attention`, `Observation`, `InstallLock`, `Lifecycle`,
`VersionStore`, `Federation`, `Watching`, `Focus`, `Sidebar`, and the proofs named above.

Left, in order of what would hurt most:

1. process identities in `Attention`: a restart takes a saved active record for the
   predecessor of a new process in the same place (`src/scanner.rs:159`);
2. Codex ownership: bindings over scans whose evidence is partial;
3. Claude children and subagent retention: expiry, resumption, another ID;
4. the runner's heartbeat and the reader that removes a replaced file;
5. in `VersionStore`, the import of a directly installed binary and of the earlier TPM
   layout.

Runs to come keep to the pattern of those above: the smallest instance with two actors
that disagree, and every fault in it.
