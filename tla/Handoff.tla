------------------------------ MODULE Handoff ------------------------------
(***************************************************************************)
(* Agent-to-agent handoff (src/handoff.rs): `handoff send` pastes one      *)
(* message into the pane of one agent, at most once per handoff ID.        *)
(*                                                                         *)
(* Several sending machines may send to the one machine that owns the pane *)
(* (Owner).  An attempt is one run of `tmux-agent handoff send`.  On the   *)
(* owning machine it delivers in process (Route::Local); from any other    *)
(* machine it runs `ssh ... tmux-agent remote-handoff`, a process of the   *)
(* owning machine that outlives the sender's ten-second deadline.  Each    *)
(* machine serialises its senders with sent.lock, and the owning machine   *)
(* serialises its deliveries with delivery.lock; both are flocks, which    *)
(* the kernel drops when the holder dies.                                  *)
(*                                                                         *)
(* The pane, its foreground process and its tmux server change between any *)
(* two steps.  The paste itself is executed by the tmux server, which runs *)
(* a command it has received even if the client that sent it was killed.   *)
(***************************************************************************)
EXTENDS Naturals, FiniteSets

CONSTANTS
    Attempt,     \* runs of `tmux-agent handoff send`
    Machine,     \* machines with a handoff state directory
    Owner,       \* the machine whose tmux server holds the target pane
    Id,          \* handoff IDs, chosen with --handoff-id or generated
    Text,        \* composed messages
    MaxLife,     \* bound: lifetimes of the pane and of the process in it
    SentLimit,   \* SENT_RETENTION_LIMIT: sent records a machine keeps
    Faults,      \* the kinds of failure that happen (FaultKinds)
    None         \* no request, no lock holder, no file

FaultKinds ==
    { "crash",   \* a process is killed
      "io",      \* a file operation or a tmux command fails
      "loss",    \* SSH fails or its deadline passes
      "skew" }   \* the peer's binary speaks another handoff version

Life == 1 .. MaxLife

(* HandoffRequest: pane stands for the server, session, window and pane    *)
(* identities and the pane's PID, proc for the agent process's PID and     *)
(* start time.                                                             *)
HandoffRequest ==
    [id : Id, pane : Life, proc : Life, text : Text, allow_working : BOOLEAN]

(* What the scan of the owning machine sees in the pane.  "closed" stands  *)
(* for AgentState::Blocked, ::Unknown and for no agent being detected.     *)
TargetState == {"idle", "working", "closed"}
Target ==
    [pane : Life, proc : Life, mode : BOOLEAN, state : TargetState]

ClaimState == {"Pending", "Delivered"}
Claim == [fingerprint : HandoffRequest, state : ClaimState]

Answers ==
    {"delivered", "duplicate", "rejected", "uncertain", "unsupported"}
SentStatus ==
    {"sending", "delivered", "duplicate", "failed", "unconfirmed",
     "incompatible"}
SentRecord == [fingerprint : HandoffRequest, status : SentStatus]

ASSUME HandoffAssumption ==
    /\ Owner \in Machine
    /\ MaxLife \in Nat \ {0}
    /\ SentLimit \in Nat \ {0}
    /\ Faults \subseteq FaultKinds
    /\ None \notin Attempt \cup HandoffRequest \cup Claim \cup SentRecord
    /\ None \notin Answers

(* validate_handoff_id: an ID is at most 64 letters, digits and hyphens.   *)
ASSUME IdAssumption == IsFiniteSet(Id)

VARIABLES
    send,          \* send[a]: where `handoff send` is
    machine,       \* machine[a]: the machine it runs on
    request,       \* request[a]: the request it composed
    auditLock,     \* auditLock[m]: who holds m's sent.lock
    sent,          \* sent[m][i]: m's sent record for ID i
    deliver,       \* deliver[a]: where the delivery of a's request is
    deliveryLock,  \* who holds delivery.lock
    claims,        \* claims[i]: the claim file of ID i
    answer,        \* answer[a]: the HandoffResponse of a's delivery
    stuck,         \* history: the IDs whose claim a kill or a failure left
                   \* as it was
    tmux,          \* tmux[a]: the paste command a's delivery gave to tmux
    transcript,    \* the pastes: who pasted, and what the pane was then
    target,        \* the pane now
    seen           \* the pane and process identities ever in a snapshot

senderVars == <<send, machine, request, auditLock, sent>>
receiverVars == <<deliver, deliveryLock, claims, answer, stuck>>
paneVars == <<target, seen>>
vars == <<senderVars, receiverVars, tmux, transcript, paneVars>>

(* A paste, and the pane tmux executed it in.                              *)
Paste == [by : Attempt, pane : Life, proc : Life, mode : BOOLEAN]

TypeOK ==
    /\ send \in [Attempt ->
           {"idle", "audit", "exchange", "done", "crashed"}]
    /\ machine \in [Attempt -> Machine]
    /\ request \in [Attempt -> HandoffRequest \cup {None}]
    /\ auditLock \in [Machine -> Attempt \cup {None}]
    /\ sent \in [Machine -> [Id -> SentRecord \cup {None}]]
    /\ deliver \in [Attempt ->
           {"none", "flight", "lock", "stage", "scan", "submit", "done",
            "crashed"}]
    /\ deliveryLock \in Attempt \cup {None}
    /\ claims \in [Id -> Claim \cup {None}]
    /\ answer \in [Attempt -> Answers \cup {None}]
    /\ stuck \subseteq Id
    /\ tmux \in [Attempt -> {"none", "queued", "submitted", "refused"}]
    /\ transcript \subseteq Paste
    /\ target \in Target
    /\ seen \subseteq Life \X Life

Init ==
    /\ send = [a \in Attempt |-> "idle"]
    /\ machine = [a \in Attempt |-> Owner]
    /\ request = [a \in Attempt |-> None]
    /\ auditLock = [m \in Machine |-> None]
    /\ sent = [m \in Machine |-> [i \in Id |-> None]]
    /\ deliver = [a \in Attempt |-> "none"]
    /\ deliveryLock = None
    /\ claims = [i \in Id |-> None]
    /\ answer = [a \in Attempt |-> None]
    /\ stuck = {}
    /\ tmux = [a \in Attempt |-> "none"]
    /\ transcript = {}
    /\ target = [pane |-> 1, proc |-> 1, mode |-> FALSE, state |-> "idle"]
    /\ seen = {<<1, 1>>}

-----------------------------------------------------------------------------
(* Helpers.                                                                *)

(* Every identity field and the exact text, but not the working override.  *)
recipient_fingerprint(r) == [r EXCEPT !.allow_working = FALSE]

Fp(a) == recipient_fingerprint(request[a])

(* The states in which the delivery holds delivery.lock.                   *)
Delivering == {"stage", "scan", "submit"}

(* A killed delivery leaves the claim of its ID if it held the lock.       *)
stuck_if_claimed(a) ==
    IF deliver[a] \in Delivering THEN stuck \cup {request[a].id} ELSE stuck

(* write_sent: replace the ID's record, then drop all but the newest       *)
(* SentLimit records.  Which of the others are newest is left open.        *)
write_sent(m, i, record) ==
    LET others == {j \in Id \ {i} : sent[m][j] # None} IN
    \E kept \in SUBSET others :
        /\ kept = others \/ Cardinality(kept) = SentLimit - 1
        /\ Cardinality(kept) < SentLimit
        /\ sent' = [sent EXCEPT ![m] =
               [j \in Id |-> IF j = i THEN record
                             ELSE IF j \in kept THEN sent[m][j] ELSE None]]

(* A write that may have failed before or after its rename.                *)
maybe_write_sent(m, i, record) ==
    write_sent(m, i, record) \/ UNCHANGED sent

(* classify_outcome                                                        *)
classify(response) ==
    CASE response = "delivered"   -> "delivered"
      [] response = "duplicate"   -> "duplicate"
      [] response = "rejected"    -> "failed"
      [] response = "uncertain"   -> "unconfirmed"
      [] response = "unsupported" -> "incompatible"

(* validate_against_snapshot: the pane and the process are the ones the    *)
(* sender looked up, and its state takes input.                            *)
validate(r, t) ==
    /\ t.pane = r.pane
    /\ t.proc = r.proc
    /\ \/ t.state = "idle"
       \/ t.state = "working" /\ r.allow_working

(* The if-shell guard of submit_paste, which the tmux server evaluates in  *)
(* the same command queue item as the paste.                               *)
paste_guard(r, t) == t.pane = r.pane /\ ~t.mode

-----------------------------------------------------------------------------
(* The sender.                                                             *)

(* The command resolves a record of the federated snapshot, which may be   *)
(* older than the pane.  It composes the text and builds the request.      *)
Invoke(a) ==
    /\ send[a] = "idle"
    /\ \E m \in Machine, r \in HandoffRequest :
           /\ <<r.pane, r.proc>> \in seen
           /\ machine' = [machine EXCEPT ![a] = m]
           /\ request' = [request EXCEPT ![a] = r]
    /\ send' = [send EXCEPT ![a] = "audit"]
    /\ UNCHANGED <<auditLock, sent, receiverVars, tmux, transcript, paneVars>>

(* Variant for SenderBindsId: a failed send frees the ID on the sender.    *)
conflicting_unless_failed(m, r) ==
    /\ sent[m][r.id] # None
    /\ sent[m][r.id].status # "failed"
    /\ sent[m][r.id].fingerprint # recipient_fingerprint(r)

(* The prior sent record of the ID is of another recipient or message.     *)
conflicting_prior(m, r) ==
    /\ sent[m][r.id] # None
    /\ sent[m][r.id].fingerprint # recipient_fingerprint(r)

(* `send` takes sent.lock, refuses an ID bound to another message, writes  *)
(* the Sending record and only then starts the exchange.                   *)
BeginSend(a) ==
    LET m == machine[a]
        r == request[a]
        record == [fingerprint |-> Fp(a), status |-> "sending"]
    IN
    /\ send[a] = "audit"
    /\ auditLock[m] = None
    /\ ~conflicting_prior(m, r)
    /\ write_sent(m, r.id, record)
    /\ auditLock' = [auditLock EXCEPT ![m] = a]
    /\ send' = [send EXCEPT ![a] = "exchange"]
    /\ deliver' = [deliver EXCEPT ![a] =
           IF m = Owner THEN "lock" ELSE "flight"]
    /\ UNCHANGED <<machine, request, deliveryLock, claims, answer, stuck, tmux,
                   transcript, paneVars>>

(* `send` ends before any exchange: the ID is bound to another message, or *)
(* the Sending record could not be written.                                *)
AbandonSend(a) ==
    LET m == machine[a]
        r == request[a]
        record == [fingerprint |-> Fp(a), status |-> "sending"]
    IN
    /\ send[a] = "audit"
    /\ auditLock[m] = None
    /\ \/ conflicting_prior(m, r) /\ UNCHANGED sent
       \/ /\ "io" \in Faults
          /\ ~conflicting_prior(m, r)
          /\ maybe_write_sent(m, r.id, record)
    /\ send' = [send EXCEPT ![a] = "done"]
    /\ UNCHANGED <<machine, request, auditLock, receiverVars, tmux,
                   transcript, paneVars>>

(* finish_report: record the outcome and, on return, drop sent.lock.       *)
finish_report(a, status) ==
    LET m == machine[a] IN
    /\ LET record == [fingerprint |-> Fp(a), status |-> status] IN
           IF "io" \in Faults
           THEN maybe_write_sent(m, request[a].id, record)
           ELSE write_sent(m, request[a].id, record)
    /\ auditLock' = [auditLock EXCEPT ![m] = None]
    /\ send' = [send EXCEPT ![a] = "done"]
    /\ UNCHANGED <<machine, request, receiverVars, tmux, transcript, paneVars>>

(* The response reached the sender.                                        *)
ReceiveAnswer(a) ==
    /\ send[a] = "exchange"
    /\ deliver[a] = "done"
    /\ finish_report(a, classify(answer[a]))

(* control_output failed: SSH ended without a response or the ten-second   *)
(* deadline passed.  Killing the SSH client does not stop the process on   *)
(* the owning machine, nor a request already on its way.                   *)
GiveUp(a) ==
    /\ send[a] = "exchange"
    /\ machine[a] # Owner
    /\ "loss" \in Faults \/ deliver[a] = "crashed"
    /\ finish_report(a, "unconfirmed")

(* The sending process is killed in the exchange (killed earlier, it left  *)
(* nothing behind).  A local delivery dies with it.                        *)
CrashSender(a) ==
    LET m == machine[a]
        local == m = Owner /\ deliver[a] \in Delivering \cup {"lock"}
    IN
    /\ "crash" \in Faults
    /\ send[a] = "exchange"
    /\ send' = [send EXCEPT ![a] = "crashed"]
    /\ auditLock' = [auditLock EXCEPT ![m] = None]
    /\ deliver' = [deliver EXCEPT ![a] = IF local THEN "crashed" ELSE @]
    /\ deliveryLock' =
           IF local /\ deliveryLock = a THEN None ELSE deliveryLock
    /\ stuck' = IF local THEN stuck_if_claimed(a) ELSE stuck
    /\ UNCHANGED <<machine, request, sent, claims, answer, tmux, transcript,
                   paneVars>>

-----------------------------------------------------------------------------
(* The receiver: deliver_with_submission, in the sending process for a     *)
(* local route and under `serve` in a remote-handoff process otherwise.    *)

(* Return a response; the lock is dropped with it if it was held.          *)
respond(a, response) ==
    /\ answer' = [answer EXCEPT ![a] = response]
    /\ deliver' = [deliver EXCEPT ![a] = "done"]
    /\ deliveryLock' = IF deliveryLock = a THEN None ELSE deliveryLock

(* The remote process starts and reads the request.                        *)
Serve(a) ==
    /\ deliver[a] = "flight"
    /\ deliver' = [deliver EXCEPT ![a] = "lock"]
    /\ UNCHANGED <<senderVars, deliveryLock, claims, answer, stuck, tmux,
                   transcript, paneVars>>

(* The peer speaks another version, or has no remote-handoff operation.    *)
ServeUnsupported(a) ==
    /\ "skew" \in Faults
    /\ deliver[a] = "flight"
    /\ respond(a, "unsupported")
    /\ UNCHANGED <<senderVars, claims, stuck, tmux, transcript, paneVars>>

(* Variant for SentRecordsAreTruthful: the claim's message is not compared.*)
AnswerFromClaimOfAnyMessage(a) ==
    LET prior == claims[request[a].id] IN
    /\ deliver[a] = "lock"
    /\ deliveryLock = None
    /\ prior # None
    /\ respond(a, IF prior.state = "Delivered" THEN "duplicate"
                  ELSE "uncertain")
    /\ UNCHANGED <<senderVars, claims, stuck, tmux, transcript, paneVars>>

(* The ID has a claim: answer from it and paste nothing.                   *)
AnswerFromClaim(a) ==
    LET prior == claims[request[a].id] IN
    /\ deliver[a] = "lock"
    /\ deliveryLock = None
    /\ prior # None
    /\ respond(a, IF prior.fingerprint # Fp(a) THEN "rejected"
                  ELSE IF prior.state = "Delivered" THEN "duplicate"
                  ELSE "uncertain")
    /\ UNCHANGED <<senderVars, claims, stuck, tmux, transcript, paneVars>>

(* Variant for AtMostOncePaste: a retry takes over a pending claim, whose  *)
(* process must be gone since the lock is free.                            *)
TakeOverClaim(a) ==
    LET i == request[a].id IN
    /\ deliver[a] = "lock"
    /\ deliveryLock = None
    /\ IF claims[i] = None THEN TRUE ELSE claims[i].state = "Pending"
    /\ claims' = [claims EXCEPT ![i] =
           [fingerprint |-> Fp(a), state |-> "Pending"]]
    /\ deliveryLock' = a
    /\ deliver' = [deliver EXCEPT ![a] = "stage"]
    /\ UNCHANGED <<senderVars, answer, stuck, tmux, transcript, paneVars>>

(* The ID is free: take delivery.lock and write its pending claim.         *)
ClaimId(a) ==
    /\ deliver[a] = "lock"
    /\ deliveryLock = None
    /\ claims[request[a].id] = None
    /\ claims' = [claims EXCEPT ![request[a].id] =
           [fingerprint |-> Fp(a), state |-> "Pending"]]
    /\ deliveryLock' = a
    /\ deliver' = [deliver EXCEPT ![a] = "stage"]
    /\ UNCHANGED <<senderVars, answer, stuck, tmux, transcript, paneVars>>

(* A directory, the lock file or the claim cannot be opened, read or       *)
(* written.  A write that failed after its rename leaves the claim.        *)
FailClaim(a) ==
    /\ "io" \in Faults
    /\ deliver[a] = "lock"
    /\ \/ UNCHANGED <<claims, stuck>>
       \/ /\ deliveryLock = None
          /\ claims[request[a].id] = None
          /\ claims' = [claims EXCEPT ![request[a].id] =
                 [fingerprint |-> Fp(a), state |-> "Pending"]]
          /\ stuck' = stuck \cup {request[a].id}
    /\ respond(a, "rejected")
    /\ UNCHANGED <<senderVars, tmux, transcript, paneVars>>

(* Remove the claim of a delivery that typed nothing and reject it.  The   *)
(* removal may itself fail, which leaves the claim pending.                *)
withdraw(a) ==
    /\ \/ claims' = [claims EXCEPT ![request[a].id] = None] /\ UNCHANGED stuck
       \/ /\ "io" \in Faults
          /\ stuck' = stuck \cup {request[a].id}
          /\ UNCHANGED claims
    /\ respond(a, "rejected")
    /\ UNCHANGED <<senderVars, tmux, transcript, paneVars>>

(* prepare_paste: stage the text and load it into a tmux buffer.           *)
Stage(a) ==
    /\ deliver[a] = "stage"
    /\ deliver' = [deliver EXCEPT ![a] = "scan"]
    /\ UNCHANGED <<senderVars, deliveryLock, claims, answer, stuck, tmux,
                   transcript, paneVars>>

FailStage(a) ==
    /\ "io" \in Faults
    /\ deliver[a] = "stage"
    /\ withdraw(a)

(* Scan after staging; if the target is still the one requested, give the  *)
(* guarded paste to the tmux server.                                       *)
ScanAndSubmit(a) ==
    /\ deliver[a] = "scan"
    /\ validate(request[a], target)
    /\ deliver' = [deliver EXCEPT ![a] = "submit"]
    /\ tmux' = [tmux EXCEPT ![a] = "queued"]
    /\ UNCHANGED <<senderVars, deliveryLock, claims, answer, stuck, transcript,
                   paneVars>>

RefuseTarget(a) ==
    /\ deliver[a] = "scan"
    /\ ~validate(request[a], target) \/ "io" \in Faults
    /\ withdraw(a)

(* The tmux server executes the guard and, in the same queue item, the     *)
(* paste and Enter.  The client that asked may be dead by now.             *)
TmuxPaste(a) ==
    /\ tmux[a] = "queued"
    /\ IF paste_guard(request[a], target)
       THEN /\ tmux' = [tmux EXCEPT ![a] = "submitted"]
            /\ transcript' = transcript \cup
                   {[by |-> a, pane |-> target.pane, proc |-> target.proc,
                     mode |-> target.mode]}
       ELSE /\ tmux' = [tmux EXCEPT ![a] = "refused"]
            /\ UNCHANGED transcript
    /\ UNCHANGED <<senderVars, receiverVars, paneVars>>

(* Variant for KeepsPromise: the claim is marked before tmux confirms.     *)
ConfirmUnconfirmed(a) ==
    /\ deliver[a] = "submit"
    /\ claims' = [claims EXCEPT ![request[a].id].state = "Delivered"]
    /\ respond(a, "delivered")
    /\ UNCHANGED <<senderVars, stuck, tmux, transcript, paneVars>>

(* tmux confirmed the paste: mark the claim delivered.                     *)
ConfirmDelivery(a) ==
    /\ deliver[a] = "submit"
    /\ tmux[a] = "submitted"
    /\ claims' = [claims EXCEPT ![request[a].id].state = "Delivered"]
    /\ respond(a, "delivered")
    /\ UNCHANGED <<senderVars, stuck, tmux, transcript, paneVars>>

(* Variant for PendingHasReason: a refusal is reported and no more.        *)
ReportRefusal(a) ==
    /\ deliver[a] = "submit"
    /\ tmux[a] = "refused"
    /\ respond(a, "rejected")
    /\ UNCHANGED <<senderVars, claims, stuck, tmux, transcript, paneVars>>

(* tmux refused: only its explicit refusal proves that nothing was typed.  *)
RefusedByTmux(a) ==
    /\ deliver[a] = "submit"
    /\ tmux[a] = "refused"
    /\ withdraw(a)

(* Variant for RejectedTypedNothing: a failed tmux command is taken for a  *)
(* refusal.                                                                *)
RejectUnconfirmed(a) ==
    /\ "io" \in Faults
    /\ deliver[a] = "submit"
    /\ withdraw(a)

(* The tmux command failed or did not confirm, or the Delivered claim      *)
(* could not be written (before or after its rename).                      *)
LoseConfirmation(a) ==
    /\ "io" \in Faults
    /\ deliver[a] = "submit"
    /\ \/ UNCHANGED claims
       \/ /\ tmux[a] = "submitted"
          /\ claims' = [claims EXCEPT ![request[a].id].state = "Delivered"]
    /\ stuck' = stuck \cup {request[a].id}
    /\ respond(a, "uncertain")
    /\ UNCHANGED <<senderVars, tmux, transcript, paneVars>>

(* Variant for EveryCallEnds: a lock file whose existence is the lock.     *)
CrashReceiverWithLockFile(a) ==
    /\ "crash" \in Faults
    /\ machine[a] # Owner
    /\ deliver[a] \in Delivering \cup {"lock"}
    /\ deliver' = [deliver EXCEPT ![a] = "crashed"]
    /\ UNCHANGED <<senderVars, deliveryLock, claims, answer, stuck, tmux,
                   transcript, paneVars>>

(* The remote process is killed.  What it gave to tmux stays queued.       *)
CrashReceiver(a) ==
    /\ "crash" \in Faults
    /\ machine[a] # Owner
    /\ deliver[a] \in Delivering \cup {"lock"}
    /\ deliver' = [deliver EXCEPT ![a] = "crashed"]
    /\ deliveryLock' = IF deliveryLock = a THEN None ELSE deliveryLock
    /\ stuck' = stuck_if_claimed(a)
    /\ UNCHANGED <<senderVars, claims, answer, tmux, transcript, paneVars>>

-----------------------------------------------------------------------------
(* The owning machine's tmux server, its user and the agent in the pane.   *)

NewTarget(t) ==
    /\ target' = t
    /\ seen' = seen \cup {<<t.pane, t.proc>>}
    /\ UNCHANGED <<senderVars, receiverVars, tmux, transcript>>

(* The agent works, finishes, stops at a prompt or leaves the pane to the  *)
(* shell.                                                                  *)
AgentMoves ==
    \E s \in TargetState \ {target.state} :
        NewTarget([target EXCEPT !.state = s])

(* Another agent process starts in the same pane.                          *)
AgentRestarts ==
    /\ target.proc < MaxLife
    /\ NewTarget([target EXCEPT !.proc = @ + 1, !.state = "idle"])

(* The pane is recreated, with a new agent process in it.                  *)
PaneRecreated ==
    /\ target.pane < MaxLife
    /\ target.proc < MaxLife
    /\ NewTarget([pane |-> target.pane + 1, proc |-> target.proc + 1,
                  mode |-> FALSE, state |-> "idle"])

(* The user enters or leaves copy mode in the pane.                        *)
ToggleMode == NewTarget([target EXCEPT !.mode = ~@])

-----------------------------------------------------------------------------
Sender(a) ==
    BeginSend(a) \/ AbandonSend(a) \/ ReceiveAnswer(a) \/ GiveUp(a)

Receiver(a) ==
    \/ AnswerFromClaim(a) \/ ClaimId(a) \/ Stage(a)
    \/ ScanAndSubmit(a) \/ RefuseTarget(a)
    \/ ConfirmDelivery(a) \/ RefusedByTmux(a)

ReceiverFailure(a) ==
    \/ FailClaim(a) \/ FailStage(a) \/ LoseConfirmation(a)
    \/ CrashReceiver(a)

Environment == AgentMoves \/ AgentRestarts \/ PaneRecreated \/ ToggleMode

Next ==
    \/ \E a \in Attempt :
           \/ Invoke(a) \/ Sender(a) \/ CrashSender(a)
           \/ Serve(a) \/ ServeUnsupported(a)
           \/ Receiver(a) \/ ReceiverFailure(a) \/ TmuxPaste(a)
    \/ Environment

Spec == Init /\ [][Next]_vars

(* A running process takes its next step, flock wakes a waiter when the    *)
(* lock is free, SSH ends by its deadline, and tmux runs what it is given. *)
(* Nothing makes a request in flight arrive, an operation fail, a process  *)
(* crash or the agent move.                                                *)
Fairness ==
    \A a \in Attempt :
        WF_vars(Sender(a)) /\ WF_vars(Receiver(a)) /\ WF_vars(TmuxPaste(a))

FairSpec == Spec /\ Fairness

-----------------------------------------------------------------------------
(* Properties.                                                             *)

(* An ID is pasted at most once, over all retries, sending machines,       *)
(* crashes and lost answers (the claim protocol of deliver_with_submission *)
(* with the paste executed by another process).                            *)
AtMostOncePaste ==
    \A p, q \in transcript : request[p.by].id = request[q.by].id => p = q

(* A sent record that says delivered or duplicate tells the truth: exactly *)
(* this message was pasted under this ID, by whichever attempt.            *)
SentRecordsAreTruthful ==
    \A m \in Machine, i \in Id :
        (sent[m][i] # None /\ sent[m][i].status \in {"delivered", "duplicate"})
        => \E p \in transcript : Fp(p.by) = sent[m][i].fingerprint

(* A rejected delivery typed nothing and never will: every path that       *)
(* removes a claim and bails (handoff.rs "Only an explicit receiver        *)
(* rejection means nothing was pasted") runs before tmux could paste.      *)
RejectedTypedNothing ==
    \A a \in Attempt :
        answer[a] = "rejected" => tmux[a] \notin {"queued", "submitted"}

(* "Staging/loading never writes terminal input" (handoff.rs:758): whoever *)
(* rejects gives the ID back for another send.  The claim of an ID whose   *)
(* outcome is open blocks it for good, so there is none without a reason:  *)
(* the delivery goes on, it was killed, or a failed file or tmux operation *)
(* left the claim.                                                         *)
PendingHasReason ==
    \A i \in Id :
        claims[i] # None /\ claims[i].state = "Pending" =>
            \/ i \in stuck
            \/ \E a \in Attempt : deliver[a] \in Delivering /\ request[a].id = i

(* The IDs under which a machine has sent.                                 *)
SentFor(m) ==
    {request[a].id : a \in {b \in Attempt :
        machine[b] = m /\ send[b] \notin {"idle", "audit"}}}

(* While the records of all IDs that a machine has sent for fit, it starts *)
(* exchanges for one message only under each ID, also after a rejection    *)
(* freed the ID on the receiver.                                           *)
SenderBindsId ==
    \A m \in Machine :
        Cardinality(SentFor(m)) <= SentLimit =>
            \A a, b \in Attempt :
                /\ machine[a] = m
                /\ machine[b] = m
                /\ deliver[a] # "none"
                /\ deliver[b] # "none"
                /\ request[a].id = request[b].id
                => Fp(a) = Fp(b)

(* What handoff promises, and that its steps keep the promise.             *)
Handing(a) == [by |-> a, id |-> request[a].id, message |-> Fp(a)]

Promise == INSTANCE HandoffPromise WITH
    Message <- HandoffRequest,
    handed <- {Handing(a) : a \in {b \in Attempt :
                                     tmux[b] \in {"queued", "submitted"}}},
    pasted <- {Handing(p.by) : p \in transcript},
    confirmed <- {<<request[a].id, Fp(a)>> : a \in {b \in Attempt :
                                     answer[b] \in {"delivered", "duplicate"}}},
    closed <- {request[a].id : a \in {b \in Attempt : answer[b] = "uncertain"}}

KeepsPromise == Promise!Spec

(* Every send ends, with an outcome or with its process, and so does every *)
(* delivery that reached the owning machine, also when its sender is gone: *)
(* no lock is left behind by an early return or a crash, the sender's      *)
(* sent.lock is held for a bounded exchange, and the two locks are never   *)
(* waited for in a cycle.                                                  *)
EveryCallEnds ==
    \A a \in Attempt :
        /\ send[a] = "audit" ~> send[a] \in {"done", "crashed"}
        /\ deliver[a] = "lock" ~> deliver[a] \in {"done", "crashed"}

=============================================================================
