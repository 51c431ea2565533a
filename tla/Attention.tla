----------------------------- MODULE Attention -----------------------------
(***************************************************************************)
(* Which agents ask for the user's attention (src/scanner.rs,              *)
(* src/daemon.rs, src/store.rs).                                           *)
(*                                                                         *)
(* The scanner looks at every agent, compares what it sees with its own    *)
(* previous record and decides whether a finished turn was seen and        *)
(* whether a Codex goal outcome is a new notice.  The daemon lays the      *)
(* user's acknowledgements over the scanner's records and publishes the    *)
(* result; the scanner never learns of them.  Two files outlive a daemon:  *)
(* the scanner's records (saved after they are published) and the          *)
(* acknowledgements (saved under the lock that changes them).              *)
(*                                                                         *)
(* Abstractions: a record keeps what attention depends on; a terminal goal *)
(* state with its progress is one Outcome; the millisecond clock is the    *)
(* least time stamp no record or file holds, because stamps are only       *)
(* compared for equality and with 0; attention is derived from state and   *)
(* seen, as every writer of the field does.  Agents are top-level tmux and *)
(* runner agents, whose stabilized state is never unknown.                 *)
(***************************************************************************)
EXTENDS NoValue, Integers

CONSTANTS
    Agent,      \* record IDs
    Outcome,    \* terminal goal state with its progress: achieved or unmet
    Stamp,      \* values of now_ms() that goal outcomes are stamped with
    Faults      \* what may go wrong: "crash", "disk"

States == {"working", "blocked", "idle"}
Active == {"working", "blocked"}

ASSUME AttentionAssumption ==
    /\ Stamp \subseteq Nat \ {0}
    /\ Faults \subseteq {"crash", "disk"}
    /\ "pursuing" \notin Outcome
    /\ \A v, w, x, y, z \in Stamp \cup {0} :
          \E t \in Stamp : t \notin {v, w, x, y, z}
    /\ None \notin Stamp
    /\ None \notin Outcome \cup {"pursuing"}

GoalInfo == [outcome : Outcome \cup {"pursuing"}, pending : BOOLEAN,
             at : Stamp \cup {0}]

AgentRecord == [state : States, visible : BOOLEAN, seen : BOOLEAN,
                goal : GoalInfo \cup {None}]

Acknowledgement == [completion : BOOLEAN, goal : Stamp \cup {None}]

ASSUME NoneAssumption == None \notin AgentRecord \cup GoalInfo

(* What a scan can find in a pane: a stabilized state, whether the pane is *)
(* visible, and the goal footer.                                           *)
Observation == [state : States, visible : BOOLEAN,
                goal : Outcome \cup {"pursuing", None}]

VARIABLES
    daemon,     \* "down", "starting" or "up"
    scan,       \* the scan loop: "rest", "scanned", "published"
    previous,   \* the scanner's records, Scanner.previous
    local,      \* the published records, Aggregate.local; while no daemon is
                \* up, history: what the last one had published, of the agents
                \* it died in step with its files
    acks,       \* Aggregate.acknowledgements
    stateFile,  \* the saved records
    ackFile,    \* the saved acknowledgements
    unsaved     \* history: the files whose last write failed

vars == <<daemon, scan, previous, local, acks, stateFile, ackFile, unsaved>>

-----------------------------------------------------------------------------
(* The scanner's decisions.                                                *)

(* A bug to look for: an agent that was blocked has nothing new to show.   *)
next_seen_after_blocked(old, state, visible) ==
    \/ visible
    \/ old = None
    \/ state = "working"
    \/ state = "blocked" /\ old.seen
    \/ state = "idle" /\ old.state # "working" /\ old.seen

next_seen(old, state, visible) ==
    \/ visible
    \/ old = None
    \/ state = "working"
    \/ state = "blocked" /\ old.seen
    \/ state = "idle" /\ old.state \notin Active /\ old.seen

WasActive(old) == old # None /\ old.state \in Active

GoalOf(old) == IF old = None THEN None ELSE old.goal

(* The footer shows a terminal outcome: it is news after a pursuit, after  *)
(* another outcome, or when an agent at work first shows it.               *)
terminal_goal(old, state, outcome, now) ==
    LET prior == GoalOf(old)
        same == prior # None /\ prior.outcome = outcome
        new_outcome == ~same /\ (prior # None \/ WasActive(old))
    IN  [outcome |-> outcome,
         pending |-> \/ new_outcome
                     \/ /\ same
                        /\ prior.pending
                        /\ state \notin Active \/ WasActive(old),
         at |-> IF new_outcome THEN now ELSE IF same THEN prior.at ELSE 0]

(* No footer: a terminal outcome is remembered, a new turn retires it.     *)
remembered_goal(old, state) ==
    LET prior == GoalOf(old)
    IN  IF prior = None \/ (prior # None /\ prior.outcome = "pursuing")
        THEN None
        ELSE [prior EXCEPT !.pending = @ /\ (state \in Active => WasActive(old))]

goal_lifecycle(old, state, observed, now) ==
    IF observed = None THEN remembered_goal(old, state)
    ELSE IF observed = "pursuing"
         THEN [outcome |-> "pursuing", pending |-> FALSE, at |-> 0]
         ELSE terminal_goal(old, state, observed, now)

ScanRecord(old, seen, now) ==
    IF seen = None THEN None
    ELSE [state |-> seen.state,
          visible |-> seen.visible,
          seen |-> next_seen(old, seen.state, seen.visible),
          goal |-> goal_lifecycle(old, seen.state, seen.goal, now)]

(* now_ms(): a time that nothing kept of the agent holds.                  *)
StampOf(record) == IF GoalOf(record) = None THEN 0 ELSE record.goal.at

StampsHeld(a) == {StampOf(previous[a]), StampOf(local[a]), StampOf(stateFile[a]),
                  acks[a].goal, ackFile[a].goal}

now_ms(a) == CHOOSE t \in Stamp : t \notin StampsHeld(a)

Scanned(old, seen) == [a \in Agent |-> ScanRecord(old[a], seen[a], now_ms(a))]

-----------------------------------------------------------------------------
(* The daemon's overlay of acknowledgements (apply_acknowledgements).      *)

NoAcknowledgement == [completion |-> FALSE, goal |-> None]

Pursuing(record) == record.goal # None /\ record.goal.outcome = "pursuing"

(* The stamped terminal outcome the record carries.                        *)
CurrentGoal(record) ==
    IF record.goal # None /\ ~Pursuing(record) /\ record.goal.at > 0
    THEN record.goal ELSE None

SameGoal(record, ack) ==
    /\ CurrentGoal(record) # None
    /\ ack.goal = CurrentGoal(record).at

NewGoal(record, ack) ==
    /\ CurrentGoal(record) # None
    /\ IF ack.goal # None THEN ack.goal # CurrentGoal(record).at
                          ELSE CurrentGoal(record).pending /\ ack.completion

(* The acknowledgement is over: the agent pursues a goal, works on         *)
(* something other than the rest of an acknowledged turn, or reports an    *)
(* outcome the user has not acknowledged.                                  *)
Retired(record, ack) ==
    \/ Pursuing(record)
    \/ /\ record.state \in Active
       /\ ~(SameGoal(record, ack) /\ CurrentGoal(record).pending)
    \/ /\ record.state \notin Active
       /\ NewGoal(record, ack)

(* A bug to look for: work on the next turn does not end it.               *)
KeptAck_through_work(record, ack) ==
    IF record # None /\ record.state \notin Active /\ Retired(record, ack)
    THEN NoAcknowledgement ELSE ack

KeptAck(record, ack) ==
    IF record # None /\ Retired(record, ack) THEN NoAcknowledgement ELSE ack

WithoutNotice(goal) ==
    IF goal = None THEN None ELSE [goal EXCEPT !.pending = FALSE]

Overlaid(record, ack) ==
    LET kept == KeptAck(record, ack)
    IN  IF record = None THEN None
        ELSE [record EXCEPT
                !.seen = @ \/ (kept.completion /\ record.state = "idle"),
                !.goal = IF SameGoal(record, kept) THEN WithoutNotice(@) ELSE @]

AppliedAcks == [a \in Agent |-> KeptAck(previous[a], acks[a])]
AppliedRecords == [a \in Agent |-> Overlaid(previous[a], acks[a])]

(* acknowledge_records: what an acknowledgement does to the record, and    *)
(* what of it is remembered.                                               *)
Acknowledged(record) ==
    [record EXCEPT !.seen = TRUE, !.goal = WithoutNotice(@)]

NoticePending(record) == GoalOf(record) # None /\ record.goal.pending

Remembered(record, ack) ==
    [completion |-> \/ ack.completion
                    \/ record.state = "idle"
                    \/ NoticePending(record),
     goal |-> IF NoticePending(record) THEN record.goal.at ELSE ack.goal]

acknowledgement_targets ==
    {a \in Agent : /\ local[a] # None
                   /\ \/ local[a].state = "idle" /\ ~local[a].seen
                      \/ local[a].state \notin Active /\ NoticePending(local[a])}

-----------------------------------------------------------------------------
Init ==
    /\ daemon = "down"
    /\ scan = "rest"
    /\ previous = [a \in Agent |-> None]
    /\ local = [a \in Agent |-> None]
    /\ acks = [a \in Agent |-> NoAcknowledgement]
    /\ stateFile = [a \in Agent |-> None]
    /\ ackFile = [a \in Agent |-> NoAcknowledgement]
    /\ unsaved = {}

(* run(): load both files, scan once (bootstrap_scan) and save the         *)
(* records before anything is published.                                   *)
Boot ==
    /\ daemon = "down"
    /\ \E seen \in [Agent -> Observation \cup {None}] :
          previous' = Scanned(stateFile, seen)
    /\ stateFile' = previous'
    /\ acks' = ackFile
    /\ daemon' = "starting"
    /\ unsaved' = {}
    /\ UNCHANGED <<scan, local, ackFile>>

(* A bug to look for: the loaded acknowledgements wait for the next scan.  *)
AnnounceWithoutAcks ==
    /\ daemon = "starting"
    /\ local' = previous
    /\ daemon' = "up"
    /\ UNCHANGED <<scan, previous, acks, stateFile, ackFile, unsaved>>

(* Shared::new: the first snapshot is published with the acknowledgements  *)
(* applied; those that are over are removed from the file.                 *)
Announce ==
    /\ daemon = "starting"
    /\ local' = AppliedRecords
    /\ acks' = AppliedAcks
    /\ ackFile' = acks'
    /\ daemon' = "up"
    /\ UNCHANGED <<scan, previous, stateFile, unsaved>>

(* scan_once: the scanner reads the panes on a thread of its own; nothing  *)
(* is published yet and acknowledgements are still served.                 *)
Scan ==
    /\ daemon = "up"
    /\ scan = "rest"
    /\ \E seen \in [Agent -> Observation \cup {None}] :
          previous' = Scanned(previous, seen)
    /\ scan' = "scanned"
    /\ UNCHANGED <<daemon, local, acks, stateFile, ackFile, unsaved>>

(* The file is written under the lock that changes the acknowledgements;   *)
(* when that fails, memory keeps the change.                               *)
write_acknowledgements ==
    \/ /\ ackFile' = acks'
       /\ unsaved' = unsaved \ {"acks"}
    \/ /\ "disk" \in Faults
       /\ ackFile # acks'
       /\ unsaved' = unsaved \cup {"acks"}
       /\ UNCHANGED ackFile

(* publish_local writes only acknowledgements that changed.                *)
save_acknowledgements ==
    IF acks' # acks THEN write_acknowledgements ELSE UNCHANGED <<ackFile, unsaved>>

(* publish_local with nothing new to show: only changed acknowledgements   *)
(* are saved.  An error of that save is only logged.                       *)
PublishNothing ==
    /\ daemon = "up"
    /\ scan = "scanned"
    /\ AppliedRecords = local
    /\ acks' = AppliedAcks
    /\ save_acknowledgements
    /\ scan' = "rest"
    /\ UNCHANGED <<daemon, previous, local, stateFile>>

(* A bug to look for: the acknowledgements that are over stay in the file. *)
PublishLocalInMemory ==
    /\ daemon = "up"
    /\ scan = "scanned"
    /\ local' = AppliedRecords
    /\ acks' = AppliedAcks
    /\ scan' = "published"
    /\ UNCHANGED <<daemon, previous, stateFile, ackFile, unsaved>>

(* publish_local with something new, in the fields above or in those the   *)
(* model leaves out (titles, labels, transports).                          *)
PublishLocal ==
    /\ daemon = "up"
    /\ scan = "scanned"
    /\ local' = AppliedRecords
    /\ acks' = AppliedAcks
    /\ save_acknowledgements
    /\ scan' = "published"
    /\ UNCHANGED <<daemon, previous, stateFile>>

(* scan_loop saves the scanner's records after they were published; an     *)
(* error is only logged.                                                   *)
SaveState ==
    /\ daemon = "up"
    /\ scan = "published"
    /\ \/ /\ stateFile' = previous
          /\ unsaved' = unsaved \ {"state"}
       \/ /\ "disk" \in Faults
          /\ stateFile # previous
          /\ unsaved' = unsaved \cup {"state"}
          /\ UNCHANGED stateFile
    /\ scan' = "rest"
    /\ UNCHANGED <<daemon, previous, local, acks, ackFile>>

(* The user acknowledges an agent, at any moment of a scan.  The client is *)
(* answered only after the file is written; when writing fails memory      *)
(* keeps the change.                                                       *)
acknowledge(a) ==
    /\ daemon = "up"
    /\ local[a] # None
    /\ local' = [local EXCEPT ![a] = Acknowledged(@)]
    /\ LET persist == local[a].state = "idle" \/ NoticePending(local[a])
       IN  /\ acks' = IF persist
                      THEN [acks EXCEPT ![a] = Remembered(local[a], @)]
                      ELSE acks
           /\ IF persist THEN write_acknowledgements
                         ELSE UNCHANGED <<ackFile, unsaved>>
    /\ UNCHANGED <<daemon, scan, previous, stateFile>>

mark_all_read ==
    /\ daemon = "up"
    /\ acknowledgement_targets # {}
    /\ local' = [a \in Agent |-> IF a \in acknowledgement_targets
                                 THEN Acknowledged(local[a]) ELSE local[a]]
    /\ acks' = [a \in Agent |-> IF a \in acknowledgement_targets
                                THEN Remembered(local[a], acks[a]) ELSE acks[a]]
    /\ write_acknowledgements
    /\ UNCHANGED <<daemon, scan, previous, stateFile>>

(* What was published of an agent can be rebuilt from the files.           *)
Saved(a) ==
    LET rebuilt == Overlaid(stateFile[a], ackFile[a])
    IN  /\ ackFile[a] = acks[a]
        /\ (rebuilt = None) <=> (local[a] = None)
        /\ local[a] # None =>
              /\ rebuilt = [local[a] EXCEPT !.seen = rebuilt.seen]
              /\ stateFile[a].seen => local[a].seen
              /\ (local[a].seen /\ local[a].state = "idle")
                    => (stateFile[a].seen \/ ackFile[a].completion)

(* The daemon is killed or stopped, or fails to save while it starts; its  *)
(* memory is gone.                                                         *)
Crash ==
    /\ "crash" \in Faults
    /\ daemon # "down"
    /\ daemon' = "down"
    /\ scan' = "rest"
    /\ previous' = [a \in Agent |-> None]
    /\ acks' = [a \in Agent |-> NoAcknowledgement]
    /\ local' = [a \in Agent |-> IF Saved(a) THEN local[a] ELSE None]
    /\ unsaved' = {}
    /\ UNCHANGED <<stateFile, ackFile>>

Next ==
    \/ Boot \/ Announce \/ Scan \/ PublishNothing \/ PublishLocal \/ SaveState
    \/ mark_all_read \/ Crash
    \/ \E a \in Agent : acknowledge(a)

Spec == Init /\ [][Next]_vars

-----------------------------------------------------------------------------
TypeOK ==
    /\ daemon \in {"down", "starting", "up"}
    /\ scan \in {"rest", "scanned", "published"}
    /\ previous \in [Agent -> AgentRecord \cup {None}]
    /\ local \in [Agent -> AgentRecord \cup {None}]
    /\ stateFile \in [Agent -> AgentRecord \cup {None}]
    /\ acks \in [Agent -> Acknowledgement]
    /\ ackFile \in [Agent -> Acknowledgement]
    /\ unsaved \subseteq {"state", "acks"}

(* Whenever the scan loop rests and no write failed, the two files hold    *)
(* what a restart needs of everything that was published: every path that  *)
(* changes the published records or the acknowledgements, the early return *)
(* of publish_local included, leaves the files in step.                    *)
FilesHoldWhatIsPublished ==
    (daemon = "up" /\ scan # "published" /\ unsaved = {})
        => \A a \in Agent : Saved(a)

Known(a) == local[a] # None /\ local'[a] # None

IdleHidden(record) == record.state = "idle" /\ ~record.visible

(* A turn that ends out of sight, and a completion nobody looked at, are   *)
(* shown as done until the user acknowledges them, across restarts too.    *)
(* The acknowledgement of a goal notice while its turn still runs covers   *)
(* the end of that turn.                                                   *)
CompletionIsShown ==
    [][\A a \in Agent :
          /\ Known(a)
          /\ IdleHidden(local'[a])
          /\ local[a].state \in Active \/ ~local[a].seen
          /\ local'[a].seen
          => \/ acks'[a].completion /\ ~acks[a].completion
             \/ local[a].state \in Active /\ acks[a].goal # None]_vars

(* What was seen stays seen while the agent stays idle, across restarts    *)
(* too: only goal activity makes it done again.  And a notice that was     *)
(* acknowledged or retired does not come back for the same outcome,        *)
(* however often its footer is seen again.                                 *)
ReadStaysRead ==
    [][\A a \in Agent :
          Known(a) =>
              /\ /\ local[a].state = "idle" /\ local[a].seen
                 /\ local'[a].state = "idle" /\ ~local'[a].seen
                 => \/ Pursuing(local'[a])
                    \/ CurrentGoal(local'[a]) # None
                       /\ CurrentGoal(local'[a]) # CurrentGoal(local[a])
              /\ /\ NoticePending(local'[a])
                 /\ ~NoticePending(local[a])
                 /\ GoalOf(local[a]) # None
                 => local'[a].goal.outcome # local[a].goal.outcome]_vars

=============================================================================
