------------------------------ MODULE Lifecycle ------------------------------
(***************************************************************************)
(* How daemons start and end (src/daemon.rs run, bootstrap_scan, scan_loop *)
(* and ensure_running; src/ipc.rs shutdown; the daemon commands of         *)
(* src/main.rs).  The only thing daemons of one tmux server share is the   *)
(* path of their socket.  Looking at it, connecting to it, removing it,    *)
(* binding it and listening on it are separate system calls, and each is   *)
(* an action here.                                                         *)
(*                                                                         *)
(* Abstractions: what daemons scan and serve is left to the other modules; *)
(* the thirty polls of a start and the sixty of a stop are any number when *)
(* processes may be slow, and as many as it takes when none is; all remote *)
(* collectors of a daemon are one.  A Daemon is a process slot: it is used *)
(* again once nothing remembers the process that had it.                   *)
(***************************************************************************)
EXTENDS Integers

CONSTANTS
    Daemon,         \* processes of daemon run
    Client,         \* processes that start, stop or restart the daemon
    Commands,       \* the commands they give
    MissingServerExitThreshold,
    Faults,         \* what may go wrong: "killed", "interrupted", "failed",
                    \* "slow", "server", "remote"
    None

ASSUME LifecycleAssumption ==
    /\ MissingServerExitThreshold \in Nat \ {0}
    /\ Commands \subseteq {"start", "stop", "restart"}
    /\ Faults \subseteq {"killed", "interrupted", "failed", "slow",
                  "server", "remote"}
    /\ None \notin Daemon

VARIABLES
    server,     \* the tmux server runs
    socket,     \* the daemon whose bind made the file at the path
    pc,         \* where each daemon is
    missing,    \* scans in a row in which it found no tmux server
    observed,   \* daemons that have seen the tmux server since they started
    asked,      \* daemons with a shutdown in their channel
    stuck,      \* daemons whose collector waits for a child that closed its output
    client,     \* the command each client runs, where it is, whom it stopped
    overlap     \* history: of the daemons since there was none, two were
                \* starting or ending at the same time

vars == <<server, socket, pc, missing, observed, asked, stuck, client, overlap>>

Starting == {"exists", "connect", "unlink", "key", "boot", "bind"}
Listening == {"protect", "serving", "closing"}
Ending == {"joining", "check", "remove"}
Phases == {"gone", "listen"} \cup Starting \cup Listening \cup Ending

Reachable(d) == socket = d /\ pc[d] \in Listening
Connectable == \E d \in Daemon : Reachable(d)

ClientPhases == {"done", "failed", "snapshot", "shutdown", "asking", "stopping",
                 "probe", "polling", "verify"}

Init ==
    /\ server = TRUE
    /\ socket = None
    /\ pc = [d \in Daemon |-> "gone"]
    /\ missing = [d \in Daemon |-> 0]
    /\ observed = {}
    /\ asked = {}
    /\ stuck = {}
    /\ client = [c \in Client |-> [command |-> None, at |-> "done", stopped |-> None]]
    /\ overlap = FALSE

-----------------------------------------------------------------------------
(* Steps of a daemon.                                                      *)

InTransit(to, d) == to[d] \notin {"gone", "serving"}

Move(to) ==
    /\ pc' = to
    /\ overlap' = /\ \/ overlap
                     \/ \E d, e \in Daemon : d # e /\ InTransit(to, d) /\ InTransit(to, e)
                  /\ \E d \in Daemon : to[d] # "gone"

Goto(d, from, to) ==
    /\ pc[d] = from
    /\ Move([pc EXCEPT ![d] = to])
    /\ UNCHANGED <<asked, stuck>>

(* The process is gone, and its slot is clean.                             *)
Gone(d) ==
    /\ Move([pc EXCEPT ![d] = "gone"])
    /\ missing' = [missing EXCEPT ![d] = 0]
    /\ observed' = observed \ {d}
    /\ asked' = asked \ {d}
    /\ stuck' = stuck \ {d}

FindSocket(d) ==
    /\ Goto(d, "exists", IF socket = None THEN "key" ELSE "connect")
    /\ UNCHANGED <<server, socket, missing, observed, client>>

FindDaemon(d) ==
    /\ pc[d] = "connect" /\ Connectable
    /\ Gone(d)
    /\ UNCHANGED <<server, socket, client>>

FindNobody(d) ==
    /\ ~Connectable
    /\ Goto(d, "connect", "unlink")
    /\ UNCHANGED <<server, socket, missing, observed, client>>

UnlinkStale(d) ==
    /\ socket # None
    /\ Goto(d, "unlink", "key")
    /\ socket' = None
    /\ UNCHANGED <<server, missing, observed, client>>

UnlinkNothing(d) ==
    /\ pc[d] = "unlink" /\ socket = None
    /\ Gone(d)
    /\ UNCHANGED <<server, socket, client>>

(* server_key, opening the files, a scan or saving its records fails.      *)
StartFails(d) ==
    /\ "failed" \in Faults
    /\ pc[d] \in {"exists", "key", "boot"}
    /\ Gone(d)
    /\ UNCHANGED <<server, socket, client>>

(* Who asks tmux while the server runs has seen it.                        *)
Observe(d) == observed' = IF server THEN observed \cup {d} ELSE observed

(* server_key: is there a server when the daemon starts?                   *)
AskServer(d) ==
    /\ Goto(d, "key", "boot")
    /\ Observe(d)
    /\ UNCHANGED <<server, socket, missing, client>>

(* A scan finds the server missing only if it has ever seen it; before     *)
(* that, no server is a server without panes.                              *)
ServerMissing(d) == ~server /\ d \in observed

BootstrapScan(d) ==
    /\ ~ServerMissing(d)
    /\ Goto(d, "boot", "bind")
    /\ missing' = [missing EXCEPT ![d] = 0]
    /\ Observe(d)
    /\ UNCHANGED <<server, socket, client>>

(* The missing-server policy: one more miss, or the last one.              *)
LastMiss(d) == missing[d] + 1 >= MissingServerExitThreshold

(* A bug to look for: a miss that is not counted.                          *)
MissUncounted(d) ==
    /\ missing' = [missing EXCEPT ![d] = 0]
    /\ UNCHANGED <<server, socket, pc, overlap, observed, asked, stuck, client>>

Miss(d) ==
    /\ missing' = [missing EXCEPT ![d] = @ + 1]
    /\ UNCHANGED <<server, socket, pc, overlap, observed, asked, stuck, client>>

BootstrapMisses(d) ==
    /\ ServerMissing(d) /\ pc[d] = "boot" /\ ~LastMiss(d)
    /\ Miss(d)

BootstrapGivesUp(d) ==
    /\ ServerMissing(d) /\ pc[d] = "boot" /\ LastMiss(d)
    /\ Gone(d)
    /\ UNCHANGED <<server, socket, client>>

Bind(d) ==
    /\ socket = None
    /\ Goto(d, "bind", "listen")
    /\ socket' = d
    /\ UNCHANGED <<server, missing, observed, client>>

AddressInUse(d) ==
    /\ pc[d] = "bind" /\ socket # None
    /\ Gone(d)
    /\ UNCHANGED <<server, socket, client>>

Listen(d) ==
    /\ Goto(d, "listen", "protect")
    /\ UNCHANGED <<server, socket, missing, observed, client>>

(* The permissions are set on the path, whoever made the file there.       *)
Protect(d) ==
    /\ socket # None
    /\ Goto(d, "protect", "serving")
    /\ UNCHANGED <<server, socket, missing, observed, client>>

ProtectNothing(d) ==
    /\ pc[d] = "protect" /\ socket = None
    /\ Gone(d)
    /\ UNCHANGED <<server, socket, client>>

ProtectFails(d) ==
    /\ "failed" \in Faults
    /\ pc[d] = "protect"
    /\ Gone(d)
    /\ UNCHANGED <<server, socket, client>>

(* A scan that changes what its daemon knows of the server.                *)
ScanSucceeds(d) ==
    /\ ~ServerMissing(d) /\ pc[d] = "serving"
    /\ missing' = [missing EXCEPT ![d] = 0]
    /\ Observe(d)
    /\ <<missing, observed>>' # <<missing, observed>>
    /\ UNCHANGED <<server, socket, pc, overlap, asked, stuck, client>>

(* A scan that fails otherwise than for want of a server, when it lists    *)
(* the panes or after it has.                                              *)
ScanFails(d) ==
    /\ "failed" \in Faults
    /\ pc[d] = "serving"
    /\ missing' = [missing EXCEPT ![d] = 0]
    /\ UNCHANGED observed \/ Observe(d)
    /\ <<missing, observed>>' # <<missing, observed>>
    /\ UNCHANGED <<server, socket, pc, overlap, asked, stuck, client>>

ScanMisses(d) ==
    /\ ServerMissing(d) /\ pc[d] = "serving" /\ ~LastMiss(d)
    /\ Miss(d)

ScanGivesUp(d) ==
    /\ ServerMissing(d) /\ LastMiss(d)
    /\ Goto(d, "serving", "closing")
    /\ UNCHANGED <<server, socket, missing, observed, client>>

(* A bug to look for: the file goes first, the listener later.             *)
ReceiveShutdownUnlinking(d) ==
    /\ d \in asked
    /\ Goto(d, "serving", "closing")
    /\ socket' = None
    /\ UNCHANGED <<server, missing, observed, client>>

ReceiveShutdown(d) ==
    /\ d \in asked
    /\ Goto(d, "serving", "closing")
    /\ UNCHANGED <<server, socket, missing, observed, client>>

(* An interrupt, or a scanner that panics.                                 *)
Interrupted(d) ==
    /\ "interrupted" \in Faults
    /\ Goto(d, "serving", "closing")
    /\ UNCHANGED <<server, socket, missing, observed, client>>

(* accept fails: the daemon ends, its listener already dropped.            *)
ListenerFails(d) ==
    /\ "failed" \in Faults
    /\ Goto(d, "serving", "joining")
    /\ UNCHANGED <<server, socket, missing, observed, client>>

CloseListener(d) ==
    /\ Goto(d, "closing", "joining")
    /\ UNCHANGED <<server, socket, missing, observed, client>>

(* The collectors end, but for one that waits for its child.               *)
JoinTasks(d) ==
    /\ d \notin stuck
    /\ Goto(d, "joining", "check")
    /\ UNCHANGED <<server, socket, missing, observed, client>>

CheckSocket(d) ==
    /\ socket # None
    /\ Goto(d, "check", "remove")
    /\ UNCHANGED <<server, socket, missing, observed, client>>

NothingToRemove(d) ==
    /\ pc[d] = "check" /\ socket = None
    /\ Gone(d)
    /\ UNCHANGED <<server, socket, client>>

RemoveSocket(d) ==
    /\ pc[d] = "remove"
    /\ socket' = None
    /\ Gone(d)
    /\ UNCHANGED <<server, client>>

(* The child of a collector closes its output without exiting; it exits.   *)
ChildStops(d) ==
    /\ "remote" \in Faults
    /\ pc[d] \in {"serving", "closing"} /\ d \notin stuck
    /\ stuck' = stuck \cup {d}
    /\ UNCHANGED <<server, socket, pc, overlap, missing, observed, asked, client>>

ChildExits(d) ==
    /\ d \in stuck
    /\ stuck' = stuck \ {d}
    /\ UNCHANGED <<server, socket, pc, overlap, missing, observed, asked, client>>

Killed(d) ==
    /\ "killed" \in Faults
    /\ pc[d] # "gone"
    /\ Gone(d)
    /\ UNCHANGED <<server, socket, client>>

ServerComesOrGoes ==
    /\ "server" \in Faults
    /\ server' = ~server
    /\ UNCHANGED <<socket, pc, overlap, missing, observed, asked, stuck, client>>

-----------------------------------------------------------------------------
(* Steps of a client.                                                      *)

At(c, phase) == client[c].at = phase
Proceed(c, phase) == client' = [client EXCEPT ![c].at = phase]
Idle(result) == [command |-> None, at |-> result, stopped |-> None]
Finish(c, result) == client' = [client EXCEPT ![c] = Idle(result)]
Unobserved == UNCHANGED <<server, socket, pc, overlap, missing, observed, asked, stuck>>

First == [start |-> "probe", stop |-> "shutdown", restart |-> "snapshot"]

Give(c) ==
    /\ client[c].at \in {"done", "failed"}
    /\ \E command \in Commands :
         client' = [client EXCEPT ![c] =
             [command |-> command, at |-> First[command], stopped |-> None]]
    /\ Unobserved

(* Restart asks for a snapshot to know whether there is a daemon.  The     *)
(* request fails when a daemon that is not serving drops the connection.   *)
FindRunning(c) ==
    /\ At(c, "snapshot") /\ Connectable
    /\ Proceed(c, "shutdown")
    /\ Unobserved

FindNone(c) ==
    /\ At(c, "snapshot")
    /\ ~ \E d \in Daemon : Reachable(d) /\ pc[d] = "serving"
    /\ Proceed(c, "probe")
    /\ Unobserved

Request(c) ==
    /\ At(c, "shutdown")
    /\ \E d \in Daemon :
         /\ Reachable(d)
         /\ client' = [client EXCEPT ![c] = [@ EXCEPT !.at = "asking", !.stopped = d]]
    /\ Unobserved

NobodyToStop(c) ==
    /\ At(c, "shutdown") /\ ~Connectable
    /\ Finish(c, "failed")
    /\ Unobserved

(* A bug to look for: an answer, and no shutdown.                          *)
AcknowledgeOnly(c) ==
    LET d == client[c].stopped IN
    /\ At(c, "asking")
    /\ pc[d] \in {"serving", "closing"} \cup Ending
    /\ Proceed(c, "stopping")
    /\ UNCHANGED <<server, socket, pc, overlap, missing, observed, asked, stuck>>

(* The task that serves the connection answers and sends the shutdown.  It *)
(* outlives the listener.                                                  *)
Acknowledge(c) ==
    LET d == client[c].stopped IN
    /\ At(c, "asking")
    /\ pc[d] \in {"serving", "closing"} \cup Ending
    /\ asked' = asked \cup {d}
    /\ Proceed(c, "stopping")
    /\ UNCHANGED <<server, socket, pc, overlap, missing, observed, stuck>>

ConnectionLost(c) ==
    /\ At(c, "asking")
    /\ pc[client[c].stopped] \notin {"protect", "serving", "closing"}
    /\ Finish(c, "failed")
    /\ Unobserved

AfterStop(c) ==
    IF client[c].command = "restart" THEN Proceed(c, "probe") ELSE Finish(c, "done")

(* A bug to look for: an acknowledged daemon has stopped.                  *)
StopOnAcknowledgement(c) ==
    /\ At(c, "stopping")
    /\ AfterStop(c)
    /\ Unobserved

Stopped(c) ==
    /\ At(c, "stopping") /\ ~Connectable
    /\ AfterStop(c)
    /\ Unobserved

StillConnecting(c) ==
    /\ At(c, "stopping") /\ Connectable
    /\ "slow" \in Faults \/ pc[client[c].stopped] \notin Listening
    /\ Finish(c, "failed")
    /\ Unobserved

Running(c) ==
    /\ client[c].at \in {"probe", "polling"} /\ Connectable
    /\ Proceed(c, "verify")
    /\ Unobserved

(* A process slot that nothing remembers.                                  *)
Free(d) ==
    /\ pc[d] = "gone" /\ socket # d
    /\ \A c \in Client : client[c].stopped # d

Spawn(c) ==
    /\ At(c, "probe") /\ ~Connectable
    /\ \E d \in Daemon : Free(d) /\ Move([pc EXCEPT ![d] = "exists"])
    /\ Proceed(c, "polling")
    /\ UNCHANGED <<server, socket, missing, observed, asked, stuck>>

DidNotStart(c) ==
    /\ "slow" \in Faults \/ \A d \in Daemon : pc[d] \notin Starting \cup {"listen"}
    /\ At(c, "polling") /\ ~Connectable
    /\ Finish(c, "failed")
    /\ Unobserved

(* Whoever wants a daemon running asks it for a snapshot at once.          *)
GetSnapshot(c) ==
    /\ At(c, "verify") /\ Connectable
    /\ Finish(c, "done")
    /\ Unobserved

NoSnapshot(c) ==
    /\ At(c, "verify")
    /\ ~ \E d \in Daemon : Reachable(d) /\ pc[d] = "serving"
    /\ Finish(c, "failed")
    /\ Unobserved

-----------------------------------------------------------------------------
DaemonStep(d) ==
    \/ FindSocket(d) \/ FindDaemon(d) \/ FindNobody(d) \/ UnlinkStale(d) \/ UnlinkNothing(d)
    \/ AskServer(d) \/ BootstrapScan(d) \/ BootstrapMisses(d) \/ BootstrapGivesUp(d)
    \/ Bind(d) \/ AddressInUse(d) \/ Listen(d) \/ Protect(d) \/ ProtectNothing(d)
    \/ ReceiveShutdown(d) \/ CloseListener(d) \/ JoinTasks(d)
    \/ CheckSocket(d) \/ NothingToRemove(d) \/ RemoveSocket(d)

ScanStep(d) == ScanSucceeds(d) \/ ScanMisses(d) \/ ScanGivesUp(d)

ClientStep(c) ==
    \/ FindRunning(c) \/ FindNone(c) \/ Request(c) \/ NobodyToStop(c)
    \/ Acknowledge(c) \/ ConnectionLost(c) \/ Stopped(c) \/ StillConnecting(c)
    \/ Running(c) \/ Spawn(c) \/ DidNotStart(c) \/ GetSnapshot(c) \/ NoSnapshot(c)

Next ==
    \/ \E d \in Daemon : \/ DaemonStep(d) \/ ScanStep(d) \/ Interrupted(d)
                         \/ StartFails(d) \/ ProtectFails(d)
                         \/ ScanFails(d) \/ ListenerFails(d)
                         \/ ChildStops(d) \/ ChildExits(d) \/ Killed(d)
    \/ \E c \in Client : ClientStep(c) \/ Give(c)
    \/ ServerComesOrGoes

Spec == Init /\ [][Next]_vars

(* A daemon's main task, its scanner and a client take their next step.    *)
(* Nothing makes a fault happen, a command be given, or the child of a     *)
(* collector exit.                                                         *)
Fairness ==
    /\ \A d \in Daemon : WF_vars(DaemonStep(d)) /\ WF_vars(ScanStep(d))
    /\ \A c \in Client : WF_vars(ClientStep(c))

FairSpec == Spec /\ Fairness

-----------------------------------------------------------------------------
TypeOK ==
    /\ server \in BOOLEAN
    /\ socket \in Daemon \cup {None}
    /\ pc \in [Daemon -> Phases]
    /\ missing \in [Daemon -> 0 .. MissingServerExitThreshold - 1]
    /\ observed \subseteq Daemon
    /\ asked \subseteq Daemon
    /\ stuck \subseteq Daemon
    /\ client \in [Client -> [command : Commands \cup {None},
                             at : ClientPhases,
                             stopped : Daemon \cup {None}]]
    /\ overlap \in BOOLEAN

(* As long as no two daemons start or end at the same time, a daemon that  *)
(* listens can be reached, hence there is one at most: probing before      *)
(* binding is enough, whatever is killed in between and whatever file a    *)
(* killed daemon leaves (run of src/daemon.rs).                            *)
ReachableUnlessOverlap ==
    ~overlap => \A d \in Daemon : pc[d] \in Listening => Reachable(d)

(* A restart that succeeds is answered by another daemon than the one it   *)
(* asked to stop (Restart of src/main.rs, shutdown of src/ipc.rs), however *)
(* commands, faults and other daemons interleave.                          *)
RestartReplaces ==
    [][ \A c \in Client :
          At(c, "verify") /\ At(c, "done")' =>
              \E d \in Daemon \ {client[c].stopped} : Reachable(d) ]_vars

(* A daemon that acknowledged a shutdown ends, unless the child of one of  *)
(* its collectors has closed its output and does not exit (serve_client,   *)
(* run and stream_remote of src/daemon.rs).                                *)
ShutdownIsObeyed ==
    \A c \in Client, d \in Daemon :
        At(c, "stopping") /\ client[c].stopped = d ~> pc[d] = "gone" \/ d \in stuck

(* A daemon that has ever seen the tmux server, when it started or in a    *)
(* scan, ends once that server is gone for good and scans fail for no      *)
(* other reason; one that never has serves on without it: "Once its        *)
(* configured tmux server has been observed, losing that server is a       *)
(* lifecycle event" (scan of src/scanner.rs, MissingServerPolicy and       *)
(* scan_loop of src/daemon.rs).                                            *)
LostServerEndsDaemon ==
    /\ <>[]~server
    /\ <>[][\A d \in Daemon : ~ScanFails(d)]_vars
    => \A d \in Daemon : []<>(pc[d] = "gone" \/ d \in stuck \/ d \notin observed)

(* One daemon per tmux server (docs/architecture.md:3).                    *)
OneDaemon ==
    \A d, e \in Daemon : pc[d] = "serving" /\ pc[e] = "serving" => d = e

=============================================================================
