-------------------------------- MODULE Focus --------------------------------
(***************************************************************************)
(* The activation of an agent (src/focus.rs; FocusContext in src/tmux.rs;  *)
(* activate_record in src/ui.rs).                                          *)
(*                                                                         *)
(* The local tmux client is switched to the pane that carries the agent's  *)
(* session; for an agent of another machine a command over SSH then        *)
(* selects its window there, and the local side looks again before it      *)
(* calls the focus exact.  Meanwhile the user and the connections move.    *)
(*                                                                         *)
(* Abstractions: one local client whose terminal it may leave and come     *)
(* back to, and one agent on each side; the identity of a client stands    *)
(* for its name, PID and creation time, that of the local server for its   *)
(* PID and start time, and host for the remote server's and session's      *)
(* lifetimes; a connection is never used twice; the agent's window and its *)
(* pane are one, and so are the guard on shared-pane mode and the identity *)
(* of the client.  Other clients of the same session follow its window,    *)
(* which is tmux's doing.  Detached Mosh mirrors are left out, and so is   *)
(* an activation from outside tmux, which has no client to compare.        *)
(***************************************************************************)
EXTENDS NoValue, Integers, FiniteSets

CONSTANTS
    Pane,       \* local panes that can carry a connection
    Home,       \* the pane of the local agent
    Elsewhere,  \* any other place the client may look at
    MaxConn,    \* bound: connections ever made
    MaxLife,    \* bound: times the client, a server or a session is replaced
    MaxFocus    \* bound: activations

Connection == 1..MaxConn
Life == 0..MaxLife
Place == Pane \cup {Home, Elsewhere}

ASSUME FocusAssumption ==
    /\ MaxConn \in Nat /\ MaxLife \in Nat /\ MaxFocus \in Nat
    /\ Home \notin Pane /\ Elsewhere \notin Pane /\ Home # Elsewhere
    /\ None \notin Connection \cup Life \cup Place

(* An agent's pane, and the connection it carries that is to be used.      *)
Plan == [remote : BOOLEAN, target : Pane \cup {Home},
         connection : Connection \cup {None}]

ASSUME FocusNone == None \notin Plan

(* A remote-focus process; number is that of the activation it serves.     *)
Job == [number : 1..MaxFocus, host : Life, client : Connection,
        step : {"verify", "select", "verify again", "read selection"}]

VARIABLES
    client,     \* the local client: who it is and where it looks
    server,     \* the local server's lifetime
    link,       \* the connection each pane carries
    made,       \* connections made so far
    attached,   \* connections whose clients are attached to the session
    host,       \* lifetime of the remote server and session
    window,     \* the remote agent's window exists
    selected,   \* it is the session's current window
    record,     \* the agent in the UI's snapshot
    phase,      \* the step of the activation
    captured,   \* FocusContext
    plan,       \* the target pane and its connection
    number,     \* activations so far
    jobs,       \* remote-focus processes
    answer,     \* the control command's answer
    outcome,    \* of the last activation
    acknowledged, \* its completion was acknowledged
    confirmed,  \* history: the remote machine saw it selected while the
                \* pane carried the connection
    requested   \* history: the remote machine was asked

local == <<client, server, link, made>>
remote == <<attached, host, window, selected>>
report == <<outcome, acknowledged>>
history == <<confirmed, requested>>
vars == <<local, remote, record, phase, captured, plan, number, jobs, answer,
          report, history>>

-----------------------------------------------------------------------------
Init ==
    /\ client = [id |-> 0, at |-> Elsewhere]
    /\ server = 0
    /\ link = [p \in Pane |-> None]
    /\ made = 0
    /\ attached = {}
    /\ host = 0
    /\ window = TRUE
    /\ selected = FALSE
    /\ record = [clients |-> {}, host |-> 0, complete |-> TRUE]
    /\ phase = "idle"
    /\ captured = None
    /\ plan = None
    /\ number = 0
    /\ jobs = {}
    /\ answer = "none"
    /\ outcome = "none"
    /\ acknowledged = FALSE
    /\ confirmed = FALSE
    /\ requested = FALSE

(* session_transports: the panes that carry one of the record's clients.   *)
session_transports == {p \in Pane : link[p] \in record.clients}

activation == <<record, phase, captured, plan, number, jobs, answer, report,
                history>>

-----------------------------------------------------------------------------
(* The user and the connections.                                           *)

Navigate ==
    /\ \E place \in Place \ {client.at} : client' = [client EXCEPT !.at = place]
    /\ UNCHANGED <<server, link, made, remote, activation>>

(* The client detaches and another takes the terminal.                     *)
Reattach ==
    /\ client.id < MaxLife
    /\ \E place \in Place : client' = [id |-> client.id + 1, at |-> place]
    /\ UNCHANGED <<server, link, made, remote, activation>>

(* The local server is replaced, and its panes and client with it.         *)
RestartServer ==
    /\ server < MaxLife /\ client.id < MaxLife
    /\ server' = server + 1
    /\ client' = [id |-> client.id + 1, at |-> Elsewhere]
    /\ link' = [p \in Pane |-> None]
    /\ UNCHANGED <<made, remote, activation>>

(* A pane's connection ends or is made anew.  What the connection carried  *)
(* may stay attached on the other machine for a while.                     *)
Relink(p) ==
    /\ \/ link[p] # None /\ link' = [link EXCEPT ![p] = None] /\ UNCHANGED made
       \/ made < MaxConn /\ made' = made + 1 /\ link' = [link EXCEPT ![p] = made']
    /\ attached' \in {attached, attached \ {link[p]}}
    /\ UNCHANGED <<client, server, host, window, selected, activation>>

(* A remote client attaches to the agent's session or leaves it.           *)
Attach ==
    /\ \/ \E p \in Pane : /\ link[p] \notin attached \cup {None}
                          /\ attached' = attached \cup {link[p]}
       \/ \E c \in attached : attached' = attached \ {c}
    /\ UNCHANGED <<local, host, window, selected, activation>>

(* Somebody selects a window of the session, or the agent's window ends.   *)
SelectWindow ==
    /\ window
    /\ \/ selected' = ~selected /\ UNCHANGED window
       \/ window' = FALSE /\ selected' = FALSE
    /\ UNCHANGED <<local, attached, host, activation>>

(* The remote server or session is replaced; its IDs begin anew.           *)
ReplaceHost ==
    /\ host < MaxLife
    /\ host' = host + 1
    /\ attached' = {}
    /\ window' \in BOOLEAN
    /\ selected' = FALSE
    /\ UNCHANGED <<local, activation>>

(* A snapshot arrives in the UI between two activations; the connection of *)
(* a client may be impossible to inspect.                                  *)
Observe ==
    /\ phase = "idle"
    /\ \E clients \in SUBSET attached :
          record' = [clients |-> clients, host |-> host, complete |-> clients = attached]
    /\ UNCHANGED <<local, remote, phase, captured, plan, number, jobs, answer,
                   report, history>>

-----------------------------------------------------------------------------
(* The activation.                                                         *)

Go(next) == phase' = next /\ UNCHANGED <<number, report>>

(* activate_record: the completion is acknowledged when the focus was      *)
(* exact, reached only the transport, or found no target.                  *)
Finish(result) ==
    /\ phase' = "idle"
    /\ outcome' = result
    /\ acknowledged' = (result \in {"exact", "transport", "missing"})
    /\ UNCHANGED number

(* focus_context.                                                          *)
Capture ==
    /\ phase = "idle" /\ number < MaxFocus
    /\ number' = number + 1
    /\ captured' = [client |-> client.id, server |-> server]
    /\ phase' = "resolving"
    /\ answer' = "none"
    /\ plan' = None
    /\ outcome' = "none"
    /\ acknowledged' = FALSE
    /\ confirmed' = FALSE
    /\ requested' = FALSE
    /\ UNCHANGED <<local, remote, record, jobs>>

(* resolve_agent_focus: the local agent's pane, or the one pane that       *)
(* carries a client of the session, or, when a client cannot be inspected, *)
(* the pane the user has bound to the session.                             *)
Resolve ==
    /\ phase = "resolving"
    /\ \/ /\ plan' = [remote |-> FALSE, target |-> Home, connection |-> None]
          /\ Go("switching")
       \/ \E p \in Pane :
             /\ session_transports = {p}
             /\ plan' = [remote |-> TRUE, target |-> p, connection |-> link[p]]
             /\ Go("switching")
       \/ \E p \in Pane :
             /\ session_transports = {} /\ ~record.complete
             /\ plan' = [remote |-> TRUE, target |-> p, connection |-> None]
             /\ Go("switching")
       \/ session_transports = {} /\ Finish("missing") /\ UNCHANGED plan
       \/ Cardinality(session_transports) > 1 /\ Finish("failed") /\ UNCHANGED plan
    /\ UNCHANGED <<local, remote, record, captured, jobs, answer, history>>

Captured == [client |-> client.id, server |-> server] = captured

(* FocusContext::select: the guard and the switch are one tmux command.    *)
(* It refuses another client, server or mode, also when another client has *)
(* become the current one.                                                 *)
select ==
    /\ phase = "switching"
    /\ \/ /\ Captured
          /\ client' = [client EXCEPT !.at = plan.target]
          /\ Go("verifying")
       \/ Finish("failed") /\ UNCHANGED client
    /\ UNCHANGED <<server, link, made, remote, record, captured, plan, jobs, answer,
                   history>>

(* FocusContext::verify.                                                   *)
Verified == Captured /\ client.at = plan.target

(* The local agent has been reached; without a live association, or when   *)
(* the machine cannot be asked, only the transport has.                    *)
Verify ==
    /\ phase = "verifying"
    /\ \/ ~Verified /\ Finish("failed")
       \/ Verified /\ ~plan.remote /\ Finish("exact")
       \/ Verified /\ plan.remote /\ Finish("transport")
       \/ Verified /\ plan.connection # None /\ Go("requesting")
    /\ UNCHANGED <<local, remote, record, captured, plan, jobs, answer, history>>

(* send_control starts SSH, which starts remote-focus or fails.            *)
Request ==
    /\ phase = "requesting"
    /\ Go("waiting")
    /\ requested' = TRUE
    /\ \/ jobs' = jobs \cup {[number |-> number, host |-> record.host,
                              client |-> plan.connection, step |-> "verify"]}
       \/ UNCHANGED jobs
    /\ UNCHANGED <<local, remote, record, captured, plan, answer, confirmed>>

(* A rejection, or five seconds without an answer; the process on the      *)
(* other machine is not stopped.                                           *)
ControlFails ==
    /\ phase = "waiting" /\ answer # "selected"
    /\ Finish("failed")
    /\ UNCHANGED <<local, remote, record, captured, plan, jobs, answer, history>>

ControlSucceeds ==
    /\ phase = "waiting" /\ answer = "selected"
    /\ Go("rechecking")
    /\ UNCHANGED <<local, remote, record, captured, plan, jobs, answer, history>>

(* A bug to look for: the answer is taken without another look.            *)
RecheckNothing ==
    /\ phase = "rechecking"
    /\ Go("confirming")
    /\ UNCHANGED <<local, remote, record, captured, plan, jobs, answer, history>>

(* live_focus_transport.                                                   *)
Recheck ==
    /\ phase = "rechecking"
    /\ IF session_transports = {plan.target} /\ link[plan.target] = plan.connection
       THEN Go("confirming") ELSE Finish("failed")
    /\ UNCHANGED <<local, remote, record, captured, plan, jobs, answer, history>>

Confirm ==
    /\ phase = "confirming"
    /\ Finish(IF Verified THEN "exact" ELSE "failed")
    /\ UNCHANGED <<local, remote, record, captured, plan, jobs, answer, history>>

-----------------------------------------------------------------------------
(* remote-focus, a process of its own.                                     *)

Respond(job, result) ==
    answer' = IF job.number = number /\ phase = "waiting" THEN result ELSE answer

(* validate_session and the rest of verify_target before the selection.    *)
Valid(job) == job.host = host /\ job.client \in attached /\ window

Step(job, condition, next) ==
    IF condition
    THEN jobs' = (jobs \ {job}) \cup {[job EXCEPT !.step = next]} /\ UNCHANGED answer
    ELSE jobs' = jobs \ {job} /\ Respond(job, "rejected")

verify_target(job) ==
    /\ \/ job.step = "verify" /\ Step(job, Valid(job), "select")
       \/ job.step = "verify again" /\ Step(job, Valid(job), "read selection")
    /\ UNCHANGED <<local, remote, record, phase, captured, plan, number, report, history>>

(* tmux selects by ID whatever has the ID now.                             *)
select_remote(job) ==
    /\ job.step = "select"
    /\ Step(job, window, "verify again")
    /\ selected' = (selected \/ window)
    /\ UNCHANGED <<local, attached, host, window, record, phase, captured, plan,
                   number, report, history>>

(* The last read of verify_target.                                         *)
Selected(job) ==
    /\ job.step = "read selection"
    /\ jobs' = jobs \ {job}
    /\ Respond(job, IF selected THEN "selected" ELSE "rejected")
    /\ confirmed' = \/ confirmed
                    \/ /\ job.number = number /\ selected
                       /\ plan # None /\ plan.remote
                       /\ link[plan.target] = job.client
    /\ UNCHANGED <<local, remote, record, phase, captured, plan, number, report,
                   requested>>

(* The process dies or its answer is lost.                                 *)
JobLost(job) ==
    /\ jobs' = jobs \ {job}
    /\ UNCHANGED <<local, remote, record, phase, captured, plan, number, answer,
                   report, history>>

-----------------------------------------------------------------------------
Activation == Capture \/ Resolve \/ select \/ Verify \/ Request \/ ControlFails
              \/ ControlSucceeds \/ Recheck \/ Confirm

World == Navigate \/ Reattach \/ RestartServer \/ Attach \/ SelectWindow
         \/ ReplaceHost \/ Observe \/ \E p \in Pane : Relink(p)

Remote == \E job \in jobs : verify_target(job) \/ select_remote(job)
                            \/ Selected(job) \/ JobLost(job)

Next == Activation \/ World \/ Remote

Spec == Init /\ [][Next]_vars

-----------------------------------------------------------------------------
TypeOK ==
    /\ client \in [id : Life, at : Place]
    /\ server \in Life
    /\ link \in [Pane -> Connection \cup {None}]
    /\ made \in 0..MaxConn
    /\ attached \subseteq Connection
    /\ host \in Life
    /\ window \in BOOLEAN
    /\ selected \in BOOLEAN
    /\ record \in [clients : SUBSET Connection, host : Life, complete : BOOLEAN]
    /\ phase \in {"idle", "resolving", "switching", "verifying", "requesting",
                  "waiting", "rechecking", "confirming"}
    /\ captured \in [client : Life, server : Life] \cup {None}
    /\ plan \in Plan \cup {None}
    /\ number \in 0..MaxFocus
    /\ jobs \subseteq Job
    /\ answer \in {"none", "selected", "rejected"}
    /\ outcome \in {"none", "exact", "transport", "missing", "failed"}
    /\ acknowledged \in BOOLEAN
    /\ confirmed \in BOOLEAN
    /\ requested \in BOOLEAN

(* docs/remote-machines.md:220: "Only a confirmed remote selection         *)
(* followed by a rechecked local transport and initiating client returns   *)
(* exact focus": when an activation calls itself exact, its client looks   *)
(* at the pane, and the pane carried the very connection at the moment the *)
(* remote machine found the agent's window selected, whatever the user and *)
(* the connections did during the exchange (src/focus.rs:165).  And a      *)
(* completion is never acknowledged by one that asked the remote machine   *)
(* in vain: "These failures keep the popup open and do not acknowledge"    *)
(* (docs/remote-machines.md:219).                                          *)
ReportsAreTrue ==
    [][outcome' # outcome =>
          /\ outcome' = "exact" =>
                /\ client'.id = captured.client /\ client'.at = plan.target
                /\ plan.remote => confirmed
          /\ acknowledged' /\ requested => confirmed]_vars

==============================================================================
