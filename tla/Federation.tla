----------------------------- MODULE Federation -----------------------------
(***************************************************************************)
(* The agents of another machine in this daemon's snapshot                 *)
(* (src/daemon.rs).                                                        *)
(*                                                                         *)
(* A collector process runs "watch --local-only" on the machine and writes *)
(* one snapshot after another into a pipe; the daemon keeps the last one,  *)
(* drops it when the stream ends and starts the collector again.  What the *)
(* user is shown of an agent joins that snapshot with the local pane that  *)
(* carries its session (the transport), with an overlay that remembers     *)
(* what was seen through the transport, and with the acknowledgements.     *)
(*                                                                         *)
(* Abstractions: one configured machine; "active" is working or blocked,   *)
(* which this code treats alike; goals take the path of Attention and are  *)
(* left out, as are the local agents, whose changes appear as PublishLocal *)
(* with the same transports; an association that is ambiguous counts as    *)
(* none, as it does everywhere here; the order of the agents (mark_used)   *)
(* belongs to Watching.  turn is history: it numbers the ends of turns, so *)
(* that a property can tell one completion from the next.                  *)
(***************************************************************************)
EXTENDS Integers, Sequences

CONSTANTS
    Agent,      \* IDs of the machine's agents, with the alias in front
    MaxTurn,    \* bound: turns the machine's agents end
    MaxQueue,   \* bound: snapshots in the pipe
    Faults,     \* what may go wrong: "cut", "crash", "disk"
    None

ASSUME FederationAssumption ==
    /\ MaxTurn \in Nat
    /\ MaxQueue \in Nat \ {0}
    /\ Faults \subseteq {"cut", "crash", "disk"}

Turn == 0..MaxTurn

(* attached: the agent's session has the client of a local pane.           *)
AgentRecord == [state : {"active", "idle"}, visible : BOOLEAN, seen : BOOLEAN,
                attached : BOOLEAN, turn : Turn]

ASSUME NoneAssumption == None \notin AgentRecord \cup Turn \cup BOOLEAN

Agents == [Agent -> AgentRecord \cup {None}]

(* The local pane that carries an agent's session.                         *)
Transport == {"none", "hidden", "visible"}

VARIABLES
    peer,       \* what the machine's own daemon publishes
    turn,       \* history: turns its agents have ended
    news,       \* the machine's watch has something to send
    link,       \* the collector: "waiting", "open" or "ended"
    stream,     \* snapshots in the pipe
    remote,     \* Aggregate.remotes: the last snapshot, nothing without one
    connected,  \* PeerStatus.connected
    remote_seen,\* Aggregate.remote_seen
    transport,  \* local.ssh_transports, as the associations they give
    acks,       \* Acknowledgements.completions
    ackFile,    \* the saved ones
    read        \* history: the turn the user last acknowledged here

machine == <<peer, turn>>
pipe == <<news, link, stream>>
memory == <<remote, connected, remote_seen, transport>>
vars == <<machine, pipe, memory, acks, ackFile, read>>

-----------------------------------------------------------------------------
(* resolve_transport, up to the pane's visibility.                         *)
Carrier(record, transports, a) ==
    IF record # None /\ record.attached THEN transports[a] ELSE "none"

next_seen(old, state, visible) ==
    \/ visible
    \/ old = None
    \/ state = "active"
    \/ old.state = "idle" /\ old.seen

(* A bug to look for: only the machine's own word counts.                  *)
Observed_by_machine(records, previous, transports, overlay) ==
    [a \in Agent |->
        LET record == records[a]
            carrier == Carrier(record, transports, a)
        IN  IF carrier = "none" THEN None
            ELSE (record.visible /\ carrier = "visible") \/ record.seen]

(* observe_remote_agents: a completion is seen when both the agent's pane  *)
(* and the local pane are visible; without an association nothing is       *)
(* remembered.                                                             *)
Observed(records, previous, transports, overlay) ==
    [a \in Agent |->
        LET record == records[a]
            carrier == Carrier(record, transports, a)
            visible == record.visible /\ carrier = "visible"
            old == [previous[a] EXCEPT
                        !.seen = IF overlay[a] = None THEN @ ELSE overlay[a]]
        IN  IF carrier = "none" THEN None
            ELSE IF previous[a] = None THEN visible \/ record.seen
            ELSE next_seen(old, record.state, visible)]

(* apply_acknowledgements.                                                 *)
KeptAcks(records, completions) ==
    {a \in completions : records[a] = None \/ records[a].state = "idle"}

Covered(records, completions, a) ==
    records[a] # None /\ records[a].state = "idle" /\ a \in completions

Overlaid(records, completions) ==
    [a \in Agent |-> IF Covered(records, completions, a)
                     THEN [records[a] EXCEPT !.seen = TRUE] ELSE records[a]]

(* reconcile_transports_with_observations and apply_transport: an agent as *)
(* a snapshot shows it.                                                    *)
Shown(a) ==
    LET record == remote[a]
        carrier == Carrier(record, transport, a)
        visible == record.visible /\ carrier = "visible"
        seen == record.seen \/ (visible /\ record.state = "idle")
    IN  IF record = None \/ carrier = "none" THEN record
        ELSE [record EXCEPT
                !.visible = visible,
                !.seen = IF remote_seen[a] = None THEN seen ELSE remote_seen[a]]

Done(a) == Shown(a) # None /\ Shown(a).state = "idle" /\ ~Shown(a).seen

-----------------------------------------------------------------------------
Init ==
    /\ peer \in [Agent -> {r \in AgentRecord : r.turn = 0 /\ r.seen} \cup {None}]
    /\ turn = [a \in Agent |-> 0]
    /\ news = FALSE
    /\ link = "waiting"
    /\ stream = <<>>
    /\ remote = [a \in Agent |-> None]
    /\ connected = FALSE
    /\ remote_seen = [a \in Agent |-> None]
    /\ transport \in [Agent -> Transport]
    /\ acks = {}
    /\ ackFile = {}
    /\ read = [a \in Agent |-> None]

(* A bug to look for: a change while a line is being written is missed.    *)
PeerScanMissed(a) ==
    /\ peer[a] # None
    /\ \E visible \in BOOLEAN : peer' = [peer EXCEPT ![a].visible = visible,
                                                     ![a].seen = @ \/ visible]
    /\ peer' # peer
    /\ news' = (link = "open" /\ stream = <<>>)
    /\ UNCHANGED <<turn, link, stream, memory, acks, ackFile, read>>

(* The machine's daemon publishes a scan: its scanner decides what its own *)
(* user has seen.  An agent may vanish and come back as a new one.         *)
PeerScan(a) ==
    /\ \E state \in {"active", "idle"}, visible, attached \in BOOLEAN :
          LET ends == peer[a] = None \/ (peer[a].state = "active" /\ state = "idle")
          IN  /\ ends => turn[a] < MaxTurn
              /\ turn' = [turn EXCEPT ![a] = IF ends THEN @ + 1 ELSE @]
              /\ \/ peer' = [peer EXCEPT ![a] =
                        [state |-> state, visible |-> visible,
                         seen |-> next_seen(peer[a], state, visible),
                         attached |-> attached, turn |-> turn'[a]]]
                 \/ peer' = [peer EXCEPT ![a] = None]
    /\ peer' # peer
    /\ news' = (link = "open")
    /\ UNCHANGED <<link, stream, memory, acks, ackFile, read>>

(* The machine's own user acknowledges a completion there.                 *)
PeerAcknowledge(a) ==
    /\ peer[a] # None
    /\ peer[a].state = "idle" /\ ~peer[a].seen
    /\ peer' = [peer EXCEPT ![a].seen = TRUE]
    /\ news' = (link = "open")
    /\ UNCHANGED <<turn, link, stream, memory, acks, ackFile, read>>

(* Its watch sends what is published when it gets to write.                *)
Send ==
    /\ link = "open" /\ news
    /\ Len(stream) < MaxQueue
    /\ stream' = Append(stream, peer)
    /\ news' = FALSE
    /\ UNCHANGED <<machine, link, memory, acks, ackFile, read>>

(* stream_remote starts the collector; a watch begins with a snapshot.     *)
Connect ==
    /\ link = "waiting"
    /\ link' = "open"
    /\ news' = TRUE
    /\ UNCHANGED <<machine, stream, memory, acks, ackFile, read>>

(* The connection or the collector ends; what is in the pipe may be lost.  *)
Cut ==
    /\ "cut" \in Faults
    /\ link = "open"
    /\ link' = "ended"
    /\ news' = FALSE
    /\ stream' \in {stream, <<>>}
    /\ UNCHANGED <<machine, memory, acks, ackFile, read>>

(* The overlay an accepted snapshot leaves: publish_remote marks what is   *)
(* acknowledged as seen.                                                   *)
ObservedWithAcks(records) ==
    LET seen == Observed(records, remote, transport, remote_seen)
    IN  [a \in Agent |-> IF seen[a] # None
                            /\ Covered(records, KeptAcks(records, acks), a)
                         THEN TRUE ELSE seen[a]]

(* The acknowledgements are written under the lock that changes them.      *)
write_acknowledgements(failed) ==
    IF failed THEN "disk" \in Faults /\ UNCHANGED ackFile ELSE ackFile' = acks'

(* A bug to look for: the overlay forgets what was acknowledged.           *)
publish_remote_without_acks ==
    /\ stream # <<>>
    /\ LET records == Head(stream)
       IN  /\ remote' = Overlaid(records, KeptAcks(records, acks))
           /\ remote_seen' = Observed(records, remote, transport, remote_seen)
           /\ acks' = KeptAcks(records, acks)
    /\ \E failed \in BOOLEAN :
          IF acks' # acks THEN write_acknowledgements(failed)
          ELSE ~failed /\ UNCHANGED ackFile
    /\ stream' = Tail(stream)
    /\ connected' = TRUE
    /\ UNCHANGED <<machine, news, link, transport, read>>

(* publish_remote: the next snapshot of the pipe replaces the last one.    *)
publish_remote ==
    /\ stream # <<>>
    /\ LET records == Head(stream)
       IN  /\ remote' = Overlaid(records, KeptAcks(records, acks))
           /\ remote_seen' = ObservedWithAcks(records)
           /\ acks' = KeptAcks(records, acks)
    /\ \E failed \in BOOLEAN :
          IF acks' # acks THEN write_acknowledgements(failed)
          ELSE ~failed /\ UNCHANGED ackFile
    /\ stream' = Tail(stream)
    /\ connected' = TRUE
    /\ UNCHANGED <<machine, news, link, transport, read>>

(* A bug to look for: the overlay outlives the snapshot it belongs to.     *)
peer_error_keeps_overlay ==
    /\ link = "ended" /\ stream = <<>>
    /\ link' = "waiting"
    /\ remote' = [a \in Agent |-> None]
    /\ connected' = FALSE
    /\ UNCHANGED <<machine, news, stream, remote_seen, transport, acks, ackFile, read>>

(* peer_error: the stream has ended, or a line does not parse or comes     *)
(* from another protocol.  The machine's agents are dropped and the        *)
(* collector is started again after a pause.                               *)
peer_error ==
    /\ \/ link = "ended" /\ stream = <<>>
       \/ "cut" \in Faults /\ stream # <<>>
    /\ link' = "waiting"
    /\ news' = FALSE
    /\ stream' = <<>>
    /\ remote' = [a \in Agent |-> None]
    /\ remote_seen' = [a \in Agent |-> None]
    /\ connected' = FALSE
    /\ UNCHANGED <<machine, transport, acks, ackFile, read>>

(* A bug to look for: the overlay waits for the next remote snapshot.      *)
publish_local_without_overlay ==
    /\ transport' \in [Agent -> Transport]
    /\ UNCHANGED <<machine, pipe, remote, remote_seen, connected, acks, ackFile, read>>

(* publish_local: a scan found other transports or other local agents; the *)
(* overlay is brought up to date with the transports.                      *)
publish_local ==
    /\ transport' \in [Agent -> Transport]
    /\ remote_seen' = Observed(remote, remote, transport', remote_seen)
    /\ UNCHANGED <<machine, pipe, remote, connected, acks, ackFile, read>>

(* acknowledge_records and what acknowledge and mark_all_read remember of  *)
(* it.  When the file cannot be written the client gets an error, memory   *)
(* keeps the change and nobody is woken.                                   *)
AcknowledgeAll(targets) ==
    LET idle == {a \in targets : remote[a].state = "idle"}
    IN  /\ remote' = [a \in Agent |-> IF a \in targets
                                      THEN [remote[a] EXCEPT !.seen = TRUE]
                                      ELSE remote[a]]
        /\ remote_seen' = [a \in Agent |-> IF a \in idle /\ remote_seen[a] # None
                                           THEN TRUE ELSE remote_seen[a]]
        /\ acks' = acks \cup idle
        /\ read' = [a \in Agent |-> IF a \in idle THEN remote[a].turn ELSE read[a]]
        /\ \E failed \in BOOLEAN :
              IF idle # {} THEN write_acknowledgements(failed)
              ELSE ~failed /\ UNCHANGED ackFile
        /\ UNCHANGED <<machine, pipe, connected, transport>>

acknowledge(a) ==
    /\ remote[a] # None
    /\ AcknowledgeAll({a})

(* The targets are what the snapshot shows as done.                        *)
mark_all_read ==
    /\ \E a \in Agent : Done(a)
    /\ AcknowledgeAll({a \in Agent : Done(a)})

(* The daemon dies and is started again: only the file is left, and the    *)
(* collector dies with it.                                                 *)
Restart ==
    /\ "crash" \in Faults
    /\ link' = "waiting"
    /\ news' = FALSE
    /\ stream' = <<>>
    /\ remote' = [a \in Agent |-> None]
    /\ remote_seen' = [a \in Agent |-> None]
    /\ connected' = FALSE
    /\ acks' = ackFile
    /\ read' = [a \in Agent |-> IF a \in ackFile THEN read[a] ELSE None]
    /\ UNCHANGED <<machine, transport, ackFile>>

Next ==
    \/ Send \/ Connect \/ Cut \/ publish_remote \/ peer_error \/ publish_local
    \/ mark_all_read \/ Restart
    \/ \E a \in Agent : PeerScan(a) \/ PeerAcknowledge(a) \/ acknowledge(a)

(* The machine's watch, the pipe's reader and remote_loop's timer keep     *)
(* going.                                                                  *)
Fairness ==
    /\ WF_vars(Send)
    /\ WF_vars(Connect)
    /\ WF_vars(publish_remote)
    /\ WF_vars(peer_error /\ link = "ended")

Spec == Init /\ [][Next]_vars

LiveSpec == Spec /\ Fairness

-----------------------------------------------------------------------------
TypeOK ==
    /\ peer \in Agents
    /\ turn \in [Agent -> Turn]
    /\ news \in BOOLEAN
    /\ link \in {"waiting", "open", "ended"}
    /\ stream \in Seq(Agents)
    /\ Len(stream) <= MaxQueue
    /\ remote \in Agents
    /\ connected \in BOOLEAN
    /\ remote_seen \in [Agent -> BOOLEAN \cup {None}]
    /\ transport \in [Agent -> Transport]
    /\ acks \subseteq Agent
    /\ ackFile \subseteq Agent
    /\ read \in [Agent -> Turn \cup {None}]

(* "This overlay exists only while a unique local transport lets this      *)
(* daemon observe visibility" (src/daemon.rs:70): transports arrive with   *)
(* local scans and associations with remote snapshots, and whichever came  *)
(* last the overlay fits both.                                             *)
OverlayFitsTransports ==
    \A a \in Agent :
        (remote_seen[a] # None) <=> (Carrier(remote[a], transport, a) # "none")

(* A completion the user has before his eyes, in the agent's pane and in   *)
(* the local pane that carries it, is never shown as done.                 *)
OnScreenIsSeen ==
    \A a \in Agent : Done(a) => ~(Shown(a).visible /\ Carrier(remote[a], transport, a) = "visible")

(* A completion that was acknowledged here is not shown as done again:     *)
(* not after a reconnection or a restart, not when its transport appears   *)
(* or goes, and not when an older snapshot of it is still in the pipe.     *)
AcknowledgedStaysRead ==
    \A a \in Agent : Done(a) => read[a] # Shown(a).turn

Same(a) == remote[a] # None /\ remote'[a] # None

(* docs/remote-machines.md:225: "Completion visibility requires both the   *)
(* remote agent pane and its uniquely resolved local transport to be       *)
(* visible": a turn that ends out of sight, and a completion shown as      *)
(* done, stay done while the association lasts until the user looks or     *)
(* acknowledges, whatever is acknowledged or shown on the machine itself.  *)
HiddenCompletionStays ==
    [][\A a \in Agent :
          /\ Same(a)
          /\ Carrier(remote'[a], transport', a) # "none"
          /\ remote[a].state = "active" \/ Done(a)
          /\ Shown(a)'.state = "idle" /\ ~Shown(a)'.visible
          => Done(a)' \/ read'[a] # read[a]]_vars

(* Whatever was lost on the way, once the machine and the connection are   *)
(* at rest its last snapshot arrives.                                      *)
InStep ==
    /\ connected
    /\ \A a \in Agent : /\ (remote[a] = None) <=> (peer[a] = None)
                        /\ remote[a] # None =>
                              remote[a] = [peer[a] EXCEPT !.seen = remote[a].seen]

Disturbed == Cut \/ Restart \/ (peer_error /\ link = "open") \/ peer' # peer

Converges == <>[][~Disturbed]_vars => <>[]InStep

=============================================================================
