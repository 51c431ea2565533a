--------------------------- MODULE HandoffProofs ---------------------------
(***************************************************************************)
(* Proofs about Handoff, for every set of attempts, machines, IDs and      *)
(* texts, every bound and every set of faults.                             *)
(***************************************************************************)
EXTENDS Handoff, FiniteSetTheorems, TLAPS

(* The fingerprint of a request is a request with the same ID and pane.    *)
LEMMA FingerprintType ==
    ASSUME NEW r \in HandoffRequest
    PROVE  /\ recipient_fingerprint(r) \in HandoffRequest
           /\ recipient_fingerprint(r).id = r.id
           /\ r.id \in Id
           /\ r.pane \in Life
           /\ r.proc \in Life
  BY DEF recipient_fingerprint, HandoffRequest

(* write_sent sets one record, and keeps or drops every other.             *)
LEMMA WriteSentEffect ==
    ASSUME TypeOK, NEW m \in Machine, NEW i \in Id, NEW record \in SentRecord,
           write_sent(m, i, record) \/ UNCHANGED sent
    PROVE  /\ sent' \in [Machine -> [Id -> SentRecord \cup {None}]]
           /\ \A n \in Machine, j \in Id :
                  \/ n = m /\ j = i /\ sent'[n][j] = record
                  \/ sent'[n][j] = None
                  \/ sent'[n][j] = sent[n][j]
  <1>1. CASE UNCHANGED sent
    BY <1>1 DEF TypeOK
  <1>2. CASE write_sent(m, i, record)
    <2>1. PICK kept :
              sent' = [sent EXCEPT ![m] =
                  [j \in Id |-> IF j = i THEN record
                                ELSE IF j \in kept THEN sent[m][j] ELSE None]]
      BY <1>2 DEF write_sent
    <2> QED
      BY <2>1 DEF TypeOK
  <1> QED
    BY <1>1, <1>2

(* An answer is classified as one of the statuses, a delivery as itself.   *)
LEMMA ClassifyType ==
    ASSUME NEW response \in Answers
    PROVE  /\ classify(response) \in SentStatus
           /\ classify(response) \in {"delivered", "duplicate"}
                => response \in {"delivered", "duplicate"}
  BY DEF classify, Answers, SentStatus

(* The three updates of a claim file.                                      *)
LEMMA ClaimUpdateType ==
    ASSUME TypeOK, NEW i \in Id, NEW f \in HandoffRequest
    PROVE  /\ [claims EXCEPT ![i] = [fingerprint |-> f, state |-> "Pending"]]
                  \in [Id -> Claim \cup {None}]
           /\ [claims EXCEPT ![i] = None] \in [Id -> Claim \cup {None}]
           /\ claims[i] # None =>
                  [claims EXCEPT ![i].state = "Delivered"]
                      \in [Id -> Claim \cup {None}]
  BY DEF TypeOK, Claim, ClaimState

(* Only the claim of one ID is written or marked, and marking it delivered *)
(* keeps its fingerprint.                                                  *)
LEMMA ClaimWritten ==
    ASSUME TypeOK, NEW i \in Id, NEW f \in HandoffRequest,
           claims' = [claims EXCEPT ![i] =
                         [fingerprint |-> f, state |-> "Pending"]]
    PROVE  /\ claims'[i] # None
           /\ claims'[i].fingerprint = f
           /\ claims'[i].state = "Pending"
           /\ \A j \in Id \ {i} : claims'[j] = claims[j]
  <1>1. [fingerprint |-> f, state |-> "Pending"] \in Claim
    BY DEF Claim, ClaimState
  <1> QED
    BY <1>1, HandoffAssumption DEF TypeOK

(* Marking a claim keeps its message and the other claims.                 *)
LEMMA ClaimMarked ==
    ASSUME TypeOK, NEW i \in Id, claims[i] # None,
           claims' = [claims EXCEPT ![i].state = "Delivered"]
    PROVE  /\ claims'[i] # None
           /\ claims'[i].fingerprint = claims[i].fingerprint
           /\ \A j \in Id \ {i} : claims'[j] = claims[j]
  <1>1. claims[i] \in Claim
    BY DEF TypeOK
  <1>2. claims'[i] = [claims[i] EXCEPT !.state = "Delivered"]
    BY DEF TypeOK
  <1>3. claims'[i] \in Claim /\ claims'[i].fingerprint = claims[i].fingerprint
    BY <1>1, <1>2 DEF Claim, ClaimState
  <1> QED
    BY <1>3, HandoffAssumption DEF TypeOK

-----------------------------------------------------------------------------
(* The inductive invariant.  AtMostOncePaste is not inductive: it holds    *)
(* because a claim file stands for every paste that tmux executed or still *)
(* can execute, whoever asked for it and whether or not it is still alive. *)

(* The paste of a was executed or still can be.                            *)
Handed(a) == tmux[a] \in {"queued", "submitted"}

SameId(a, b) == request[a].id = request[b].id

(* Nothing exists of an attempt before it composed its request.            *)
Requested ==
    \A a \in Attempt :
        /\ send[a] # "idle" => request[a] \in HandoffRequest
        /\ send[a] \in {"idle", "audit"} => deliver[a] = "none"

(* A delivery in progress is the holder of delivery.lock, and tmux and the *)
(* answer go with its steps.                                               *)
Phases ==
    \A a \in Attempt :
        /\ deliver[a] \in Delivering <=> deliveryLock = a
        /\ answer[a] # None <=> deliver[a] = "done"
        /\ tmux[a] # "none" => deliver[a] \in {"submit", "done", "crashed"}
        /\ deliver[a] = "submit" => tmux[a] # "none"

(* A claim file of its own message covers every delivery in progress and   *)
(* every paste handed to tmux.                                             *)
ClaimCovers ==
    \A a \in Attempt :
        deliver[a] \in Delivering \/ Handed(a) =>
            /\ claims[request[a].id] # None
            /\ claims[request[a].id].fingerprint = Fp(a)

(* No other attempt of an ID is delivering or handed to tmux once one is   *)
(* handed to tmux.                                                         *)
OneHanded ==
    \A a, b \in Attempt :
        /\ Handed(a)
        /\ deliver[b] \in Delivering \/ Handed(b)
        /\ SameId(a, b)
        => a = b

(* An ID that was answered uncertain keeps its claim for good.             *)
UncertainIsClaimed ==
    \A a \in Attempt :
        answer[a] = "uncertain" =>
            /\ claims[request[a].id] # None
            /\ \A b \in Attempt :
                   deliver[b] \in Delivering => ~SameId(a, b)

(* The transcript is what tmux executed.                                   *)
TranscriptIsTmux ==
    /\ \A p \in transcript :
           tmux[p.by] = "submitted"
    /\ \A p, q \in transcript : p.by = q.by => p = q
    /\ \A a \in Attempt :
           tmux[a] = "submitted" => \E p \in transcript : p.by = a

(* What a claim, an answer or a sent record says is delivered was typed.   *)
Typed(f) == \E b \in Attempt : tmux[b] = "submitted" /\ Fp(b) = f

DeliveredWasTyped ==
    /\ \A i \in Id :
           claims[i] # None /\ claims[i].state = "Delivered"
           => Typed(claims[i].fingerprint)
    /\ \A a \in Attempt :
           answer[a] \in {"delivered", "duplicate"} => Typed(Fp(a))
    /\ \A m \in Machine, i \in Id :
           sent[m][i] # None /\ sent[m][i].status \in {"delivered", "duplicate"}
           => Typed(sent[m][i].fingerprint)

IInv ==
    /\ TypeOK
    /\ Requested
    /\ Phases
    /\ ClaimCovers
    /\ OneHanded
    /\ UncertainIsClaimed
    /\ TranscriptIsTmux
    /\ DeliveredWasTyped
    /\ RejectedTypedNothing

-----------------------------------------------------------------------------
(* The invariant holds at first.                                           *)
LEMMA InitInvariant == Init => IInv
  <1> SUFFICES ASSUME Init PROVE IInv
    OBVIOUS
  <1> USE HandoffAssumption DEF Init
  <1>1. TypeOK
    BY DEF TypeOK, Life, Target, TargetState
  <1>2. Requested /\ Phases
    BY DEF Requested, Phases, Delivering
  <1>3. ClaimCovers /\ OneHanded
    BY DEF ClaimCovers, OneHanded, Handed, Delivering
  <1>4. UncertainIsClaimed
    <2>1. None # "uncertain"
      BY DEF Answers
    <2> QED
      BY <2>1 DEF UncertainIsClaimed
  <1>5. TranscriptIsTmux /\ RejectedTypedNothing
    BY DEF TranscriptIsTmux, RejectedTypedNothing
  <1>6. DeliveredWasTyped
    <2>1. None # "delivered" /\ None # "duplicate"
      BY DEF Answers
    <2> QED
      BY <2>1 DEF DeliveredWasTyped
  <1> QED
    BY <1>1, <1>2, <1>3, <1>4, <1>5, <1>6 DEF IInv

(* The type is kept by every step; a request that was composed has a       *)
(* fingerprint of the right type.                                          *)
LEMMA TypeStep ==
    ASSUME TypeOK, Requested, Phases, ClaimCovers, [Next]_vars
    PROVE  TypeOK'
  <1> USE HandoffAssumption
  <1> USE DEF senderVars, receiverVars, paneVars
  <1>f. ASSUME NEW a \in Attempt, send[a] # "idle"
        PROVE  request[a] \in HandoffRequest /\ request[a].id \in Id
               /\ Fp(a) \in HandoffRequest
    BY <1>f, FingerprintType DEF Requested, Fp
  <1>d. ASSUME NEW a \in Attempt, deliver[a] # "none"
        PROVE  send[a] # "idle"
    BY <1>d DEF Requested
  <1>g. ASSUME NEW a \in Attempt, deliver[a] # "none"
        PROVE  /\ stuck \subseteq Id
               /\ stuck \cup {request[a].id} \subseteq Id
               /\ stuck_if_claimed(a) \subseteq Id
    BY <1>g, <1>d, <1>f DEF TypeOK, stuck_if_claimed
  <1>r. ASSUME NEW a \in Attempt, NEW x \in Answers, respond(a, x)
        PROVE  /\ answer' \in [Attempt -> Answers \cup {None}]
               /\ deliver' \in [Attempt ->
                     {"none", "flight", "lock", "stage", "scan", "submit",
                      "done", "crashed"}]
               /\ deliveryLock' \in Attempt \cup {None}
    BY <1>r DEF TypeOK, respond
  <1>w. ASSUME NEW a \in Attempt, deliver[a] # "none", withdraw(a)
        PROVE  TypeOK'
    <2>1. claims' \in [Id -> Claim \cup {None}]
      BY <1>w, <1>d, <1>f, ClaimUpdateType DEF withdraw, TypeOK
    <2>2. "rejected" \in Answers
      BY DEF Answers
    <2> QED
      BY <1>w, <1>r, <1>g, <2>1, <2>2 DEF withdraw, TypeOK
  <1>s. ASSUME NEW a \in Attempt, NEW status \in SentStatus,
               send[a] # "idle", finish_report(a, status)
        PROVE  TypeOK'
    <2> DEFINE record == [fingerprint |-> Fp(a), status |-> status]
    <2>1. record \in SentRecord
      BY <1>s, <1>f DEF SentRecord
    <2>2. write_sent(machine[a], request[a].id, record) \/ UNCHANGED sent
      BY <1>s DEF finish_report, maybe_write_sent
    <2>3. machine[a] \in Machine /\ request[a].id \in Id
      BY <1>s, <1>f DEF TypeOK
    <2> HIDE DEF record
    <2>4. sent' \in [Machine -> [Id -> SentRecord \cup {None}]]
      BY <2>1, <2>2, <2>3, WriteSentEffect
    <2> QED
      BY <1>s, <2>4 DEF finish_report, TypeOK
  <1>1. ASSUME NEW a \in Attempt, Invoke(a) PROVE TypeOK'
    BY <1>1 DEF Invoke, TypeOK
  <1>2. ASSUME NEW a \in Attempt, BeginSend(a) \/ AbandonSend(a)
        PROVE  TypeOK'
    <2> DEFINE record == [fingerprint |-> Fp(a), status |-> "sending"]
    <2>0. send[a] # "idle"
      BY <1>2 DEF BeginSend, AbandonSend
    <2>1. record \in SentRecord
      BY <2>0, <1>f DEF SentRecord, SentStatus
    <2>2. write_sent(machine[a], request[a].id, record) \/ UNCHANGED sent
      BY <1>2 DEF BeginSend, AbandonSend, maybe_write_sent
    <2>3. machine[a] \in Machine /\ request[a].id \in Id
      BY <2>0, <1>f DEF TypeOK
    <2> HIDE DEF record
    <2>4. sent' \in [Machine -> [Id -> SentRecord \cup {None}]]
      BY <2>1, <2>2, <2>3, WriteSentEffect
    <2>5. CASE BeginSend(a)
      BY <2>5, <2>4 DEF BeginSend, TypeOK
    <2>6. CASE AbandonSend(a)
      BY <2>6, <2>4 DEF AbandonSend, TypeOK
    <2> QED
      BY <1>2, <2>5, <2>6
  <1>3. ASSUME NEW a \in Attempt, ReceiveAnswer(a) PROVE TypeOK'
    <2>1. answer[a] \in Answers
      BY <1>3 DEF ReceiveAnswer, TypeOK, Phases
    <2> QED
      BY <1>3, <1>s, <2>1, ClassifyType DEF ReceiveAnswer
  <1>4. ASSUME NEW a \in Attempt, GiveUp(a) PROVE TypeOK'
    BY <1>4, <1>s DEF GiveUp, SentStatus
  <1>5. ASSUME NEW a \in Attempt, CrashSender(a) PROVE TypeOK'
    <2>1. stuck' \subseteq Id
      BY <1>5, <1>g DEF CrashSender, Delivering, TypeOK
    <2> QED
      BY <1>5, <2>1 DEF CrashSender, TypeOK
  <1>6. ASSUME NEW a \in Attempt, Serve(a) PROVE TypeOK'
    BY <1>6 DEF Serve, TypeOK
  <1>7. ASSUME NEW a \in Attempt, ServeUnsupported(a) PROVE TypeOK'
    <2>1. "unsupported" \in Answers
      BY DEF Answers
    <2> QED
      BY <1>7, <1>r, <2>1 DEF ServeUnsupported, TypeOK
  <1>8. ASSUME NEW a \in Attempt, AnswerFromClaim(a) PROVE TypeOK'
    BY <1>8, <1>r DEF AnswerFromClaim, Answers, TypeOK
  <1>9. ASSUME NEW a \in Attempt, ClaimId(a) PROVE TypeOK'
    <2>1. claims' \in [Id -> Claim \cup {None}]
      BY <1>9, <1>d, <1>f, ClaimUpdateType DEF ClaimId
    <2> QED
      BY <1>9, <2>1 DEF ClaimId, TypeOK
  <1>10. ASSUME NEW a \in Attempt, FailClaim(a) PROVE TypeOK'
    <2>0. request[a].id \in Id /\ Fp(a) \in HandoffRequest
      BY <1>10, <1>d, <1>f DEF FailClaim
    <2>1. claims' \in [Id -> Claim \cup {None}]
      <3>1. CASE UNCHANGED claims
        BY <3>1 DEF TypeOK
      <3>2. CASE claims' = [claims EXCEPT ![request[a].id] =
                     [fingerprint |-> Fp(a), state |-> "Pending"]]
        BY <3>2, <2>0, ClaimUpdateType
      <3> QED
        BY <1>10, <3>1, <3>2 DEF FailClaim
    <2>2. "rejected" \in Answers
      BY DEF Answers
    <2> QED
      BY <1>10, <1>g, <2>1, <2>2, <1>r DEF FailClaim, TypeOK
  <1>11. ASSUME NEW a \in Attempt, Stage(a) PROVE TypeOK'
    BY <1>11 DEF Stage, TypeOK
  <1>12. ASSUME NEW a \in Attempt,
                FailStage(a) \/ RefuseTarget(a) \/ RefusedByTmux(a)
         PROVE  TypeOK'
    BY <1>12, <1>w DEF FailStage, RefuseTarget, RefusedByTmux
  <1>13. ASSUME NEW a \in Attempt, ScanAndSubmit(a) PROVE TypeOK'
    BY <1>13 DEF ScanAndSubmit, TypeOK
  <1>14. ASSUME NEW a \in Attempt, TmuxPaste(a) PROVE TypeOK'
    <2>1. tmux' \in [Attempt -> {"none", "queued", "submitted", "refused"}]
      BY <1>14 DEF TmuxPaste, TypeOK
    <2>2. transcript' \subseteq Paste
      <3>1. [by |-> a, pane |-> target.pane, proc |-> target.proc,
             mode |-> target.mode] \in Paste
        BY DEF TypeOK, Target, Paste
      <3>2. transcript \subseteq Paste
        BY DEF TypeOK
      <3> QED
        BY <1>14, <3>1, <3>2 DEF TmuxPaste
    <2> QED
      BY <1>14, <2>1, <2>2 DEF TmuxPaste, TypeOK
  <1>15. ASSUME NEW a \in Attempt,
                ConfirmDelivery(a) \/ LoseConfirmation(a)
         PROVE  TypeOK'
    <2>0. deliver[a] = "submit"
      BY <1>15 DEF ConfirmDelivery, LoseConfirmation
    <2>c. request[a].id \in Id /\ claims[request[a].id] # None
          /\ Fp(a) \in HandoffRequest
      BY <2>0, <1>d, <1>f DEF ClaimCovers, Delivering
    <2>1. claims' \in [Id -> Claim \cup {None}]
      <3>1. CASE UNCHANGED claims
        BY <3>1 DEF TypeOK
      <3>2. CASE claims' = [claims EXCEPT ![request[a].id].state = "Delivered"]
        BY <3>2, <2>c, ClaimUpdateType
      <3> QED
        BY <1>15, <3>1, <3>2 DEF ConfirmDelivery, LoseConfirmation
    <2>2. "delivered" \in Answers /\ "uncertain" \in Answers
      BY DEF Answers
    <2> QED
      BY <1>15, <2>0, <1>g, <2>1, <2>2, <1>r
      DEF ConfirmDelivery, LoseConfirmation, TypeOK
  <1>16. ASSUME NEW a \in Attempt, CrashReceiver(a) PROVE TypeOK'
    <2>1. stuck' \subseteq Id
      BY <1>16, <1>g DEF CrashReceiver, Delivering
    <2> QED
      BY <1>16, <2>1 DEF CrashReceiver, TypeOK
  <1>17. ASSUME Environment PROVE TypeOK'
    <2>1. ASSUME NEW t \in Target, NewTarget(t) PROVE TypeOK'
      BY <2>1 DEF NewTarget, TypeOK, Target
    <2>2. target \in Target
      BY DEF TypeOK
    <2>3. CASE AgentMoves
      <3>1. PICK x \in TargetState : NewTarget([target EXCEPT !.state = x])
        BY <2>3 DEF AgentMoves
      <3> QED
        BY <3>1, <2>1, <2>2 DEF Target
    <2>4. CASE AgentRestarts
      <3>1. [target EXCEPT !.proc = target.proc + 1, !.state = "idle"]
                \in Target
        <4>1. target.proc + 1 \in Life
          BY <2>4, <2>2 DEF AgentRestarts, Target, Life
        <4>2. "idle" \in TargetState
          BY DEF TargetState
        <4> QED
          BY <4>1, <4>2, <2>2 DEF Target
      <3> QED
        BY <2>4, <3>1, <2>1 DEF AgentRestarts
    <2>5. CASE PaneRecreated
      <3>1. [pane |-> target.pane + 1, proc |-> target.proc + 1,
             mode |-> FALSE, state |-> "idle"] \in Target
        BY <2>5, <2>2 DEF PaneRecreated, Target, TargetState, Life
      <3> QED
        BY <2>5, <3>1, <2>1 DEF PaneRecreated
    <2>6. CASE ToggleMode
      <3>1. [target EXCEPT !.mode = ~target.mode] \in Target
        BY <2>2 DEF Target
      <3> QED
        BY <2>6, <3>1, <2>1 DEF ToggleMode
    <2> QED
      BY <1>17, <2>3, <2>4, <2>5, <2>6 DEF Environment
  <1>18. ASSUME UNCHANGED vars PROVE TypeOK'
    BY <1>18 DEF vars, TypeOK
  <1> QED
    BY <1>1, <1>2, <1>3, <1>4, <1>5, <1>6, <1>7, <1>8, <1>9, <1>10, <1>11,
       <1>12, <1>13, <1>14, <1>15, <1>16, <1>17, <1>18
    DEF Next, Sender, Receiver, ReceiverFailure

(* What PhaseStep establishes of a step.                                   *)
PhaseFacts ==
    /\ Requested' /\ Phases'
    /\ \A b \in Attempt :
           /\ send[b] # "idle" => request'[b] = request[b]
           /\ tmux[b] = "submitted" => tmux'[b] = "submitted"

(* A delivery, its answer and its paste command advance together; a        *)
(* composed request and an executed paste stay.                            *)
LEMMA PhaseStep ==
    ASSUME IInv, TypeOK', [Next]_vars
    PROVE  PhaseFacts
  <1> USE HandoffAssumption
  <1> USE DEF PhaseFacts, IInv, TypeOK, Requested, Phases, Answers, Delivering,
              senderVars, receiverVars, paneVars
  <1>1. ASSUME NEW a \in Attempt, Invoke(a) PROVE PhaseFacts
    BY <1>1 DEF Invoke
  <1>2. ASSUME NEW a \in Attempt, BeginSend(a) PROVE PhaseFacts
    BY <1>2 DEF BeginSend
  <1>3. ASSUME NEW a \in Attempt, AbandonSend(a) PROVE PhaseFacts
    BY <1>3 DEF AbandonSend
  <1>4. ASSUME NEW a \in Attempt, ReceiveAnswer(a) PROVE PhaseFacts
    BY <1>4 DEF ReceiveAnswer, finish_report
  <1>5. ASSUME NEW a \in Attempt, GiveUp(a) PROVE PhaseFacts
    BY <1>5 DEF GiveUp, finish_report
  <1>6. ASSUME NEW a \in Attempt, CrashSender(a) PROVE PhaseFacts
    BY <1>6 DEF CrashSender
  <1>7. ASSUME NEW a \in Attempt, Serve(a) PROVE PhaseFacts
    BY <1>7 DEF Serve
  <1>8. ASSUME NEW a \in Attempt, ServeUnsupported(a) PROVE PhaseFacts
    BY <1>8 DEF ServeUnsupported, respond
  <1>9. ASSUME NEW a \in Attempt, AnswerFromClaim(a) PROVE PhaseFacts
    BY <1>9 DEF AnswerFromClaim, respond
  <1>10. ASSUME NEW a \in Attempt, ClaimId(a) PROVE PhaseFacts
    BY <1>10 DEF ClaimId
  <1>11. ASSUME NEW a \in Attempt, FailClaim(a) PROVE PhaseFacts
    BY <1>11 DEF FailClaim, respond
  <1>12. ASSUME NEW a \in Attempt, Stage(a) PROVE PhaseFacts
    BY <1>12 DEF Stage
  <1>13. ASSUME NEW a \in Attempt, FailStage(a) PROVE PhaseFacts
    BY <1>13 DEF FailStage, withdraw, respond
  <1>14. ASSUME NEW a \in Attempt, ScanAndSubmit(a) PROVE PhaseFacts
    BY <1>14, SMTT(30) DEF ScanAndSubmit
  <1>15. ASSUME NEW a \in Attempt, RefuseTarget(a) PROVE PhaseFacts
    BY <1>15 DEF RefuseTarget, withdraw, respond
  <1>16. ASSUME NEW a \in Attempt, TmuxPaste(a) PROVE PhaseFacts
    BY <1>16 DEF TmuxPaste, paste_guard
  <1>17. ASSUME NEW a \in Attempt, ConfirmDelivery(a) PROVE PhaseFacts
    BY <1>17 DEF ConfirmDelivery, respond
  <1>18. ASSUME NEW a \in Attempt, RefusedByTmux(a) PROVE PhaseFacts
    BY <1>18 DEF RefusedByTmux, withdraw, respond
  <1>19. ASSUME NEW a \in Attempt, LoseConfirmation(a) PROVE PhaseFacts
    BY <1>19 DEF LoseConfirmation, respond
  <1>20. ASSUME NEW a \in Attempt, CrashReceiver(a) PROVE PhaseFacts
    BY <1>20 DEF CrashReceiver
  <1>21. ASSUME Environment \/ UNCHANGED vars PROVE PhaseFacts
    BY <1>21
    DEF Environment, AgentMoves, AgentRestarts, PaneRecreated, ToggleMode,
        NewTarget, vars, TypeOK
  <1> QED
    BY <1>1, <1>2, <1>3, <1>4, <1>5, <1>6, <1>7, <1>8, <1>9,
       <1>10, <1>11, <1>12, <1>13, <1>14, <1>15, <1>16, <1>17, <1>18,
       <1>19, <1>20, <1>21
    DEF Next, Sender, Receiver, ReceiverFailure

(* The claim protocol: a claim is removed only by the delivery that wrote  *)
(* it, under delivery.lock, and only when tmux will never execute its      *)
(* paste.                                                                  *)
LEMMA ClaimStep ==
    ASSUME IInv, TypeOK', PhaseFacts, [Next]_vars
    PROVE  ClaimCovers' /\ OneHanded' /\ UncertainIsClaimed'
  <1> DEFINE Goal == ClaimCovers' /\ OneHanded' /\ UncertainIsClaimed'
  <1> USE HandoffAssumption
  <1> USE DEF senderVars, receiverVars, paneVars
  <1>r. ASSUME NEW a \in Attempt, deliver[a] # "none"
        PROVE  /\ send[a] # "idle"
               /\ request[a].id \in Id
               /\ Fp(a) \in HandoffRequest
    BY <1>r, FingerprintType DEF IInv, Requested, Fp
  <1>i. ASSUME NEW b \in Attempt, deliver[b] # "none" \/ tmux[b] # "none"
        PROVE  /\ request[b].id \in Id
               /\ request'[b] = request[b]
               /\ Fp(b)' = Fp(b)
    <2>1. deliver[b] # "none"
      BY <1>i DEF IInv, Phases
    <2> QED
      BY <2>1, <1>r DEF PhaseFacts, Fp
  <1>k. ASSUME UNCHANGED <<claims, tmux>>,
               \A b \in Attempt :
                   /\ deliver'[b] \in Delivering => deliver[b] \in Delivering
                   /\ answer'[b] = "uncertain" => answer[b] = "uncertain"
        PROVE  Goal
    <2>1. ClaimCovers'
      BY <1>k, <1>i DEF IInv, ClaimCovers, Handed, Delivering
    <2>2. OneHanded'
      BY <1>k, <1>i DEF IInv, OneHanded, Handed, SameId, Delivering
    <2>3. UncertainIsClaimed'
      <3>1. \A b \in Attempt :
                answer'[b] = "uncertain" =>
                    deliver[b] = "done" /\ claims[request[b].id] # None
        BY <1>k DEF IInv, UncertainIsClaimed, Phases, Answers
      <3> QED
        BY <3>1, <1>k, <1>i DEF IInv, UncertainIsClaimed, SameId, Delivering
    <2> QED
      BY <2>1, <2>2, <2>3
  <1>w. ASSUME NEW a \in Attempt, deliver[a] \in Delivering, ~Handed(a),
               withdraw(a)
        PROVE  Goal
    <2>0. /\ request[a].id \in Id
          /\ deliveryLock = a
          /\ \A b \in Attempt \ {a} : deliver[b] \notin Delivering
      BY <1>w, <1>i DEF IInv, Phases, Delivering
    <2>1. CASE UNCHANGED claims
      <3>1. /\ UNCHANGED tmux
            /\ \A b \in Attempt :
                   /\ deliver'[b] \in Delivering => deliver[b] \in Delivering
                   /\ answer'[b] = "uncertain" => answer[b] = "uncertain"
        BY <1>w DEF withdraw, respond, IInv, TypeOK, Delivering
      <3> QED
        BY <2>1, <3>1, <1>k
    <2>2. CASE claims' = [claims EXCEPT ![request[a].id] = None]
      <3>1. \A b \in Attempt :
                deliver'[b] \notin Delivering /\ Handed(b)' = Handed(b)
        BY <1>w, <2>0 DEF withdraw, respond, IInv, TypeOK, Delivering, Handed
      <3>2. \A j \in Id : j # request[a].id => claims'[j] = claims[j]
        BY <2>2 DEF IInv, TypeOK
      <3>3. ClaimCovers'
        <4> SUFFICES ASSUME NEW b \in Attempt, Handed(b)
                     PROVE  /\ claims'[request'[b].id] # None
                            /\ claims'[request'[b].id].fingerprint = Fp(b)'
          BY <3>1 DEF ClaimCovers
        <4>1. b # a /\ ~SameId(b, a)
          BY <1>w DEF IInv, OneHanded
        <4>2. claims'[request[b].id] = claims[request[b].id]
          BY <4>1, <3>2, <1>i DEF SameId, Handed
        <4> QED
          BY <4>2, <1>i DEF IInv, ClaimCovers, Handed
      <3>4. OneHanded'
        BY <3>1, <1>i DEF IInv, OneHanded, SameId, Handed
      <3>5. UncertainIsClaimed'
        <4> SUFFICES ASSUME NEW b \in Attempt, answer'[b] = "uncertain"
                     PROVE  claims'[request'[b].id] # None
          BY <3>1 DEF UncertainIsClaimed
        <4>1. b # a /\ answer[b] = "uncertain"
          BY <1>w DEF withdraw, respond, IInv, TypeOK
        <4>2. deliver[b] = "done"
          BY <4>1 DEF IInv, Phases, Answers
        <4>3. ~SameId(b, a) /\ claims[request[b].id] # None
          BY <4>1, <1>w DEF IInv, UncertainIsClaimed
        <4> QED
          BY <4>2, <4>3, <3>2, <1>i DEF SameId
      <3> QED
        BY <3>3, <3>4, <3>5
    <2> QED
      BY <1>w, <2>1, <2>2 DEF withdraw
  <1>m. ASSUME NEW a \in Attempt, deliver[a] = "submit",
               \/ UNCHANGED claims
               \/ claims' = [claims EXCEPT ![request[a].id].state = "Delivered"],
               UNCHANGED tmux,
               NEW x \in {"delivered", "uncertain"}, respond(a, x)
        PROVE  Goal
    <2>0. /\ request[a].id \in Id
          /\ claims[request[a].id] # None
          /\ deliveryLock = a
      BY <1>m, <1>i DEF IInv, Phases, ClaimCovers, Delivering
    <2>1. \A j \in Id :
              /\ claims[j] # None => claims'[j] # None
              /\ claims[j] # None =>
                     claims'[j].fingerprint = claims[j].fingerprint
      BY <1>m, <2>0, ClaimMarked DEF IInv
    <2>2. \A b \in Attempt :
              /\ deliver'[b] \notin Delivering
              /\ Handed(b)' = Handed(b)
              /\ answer'[b] = "uncertain" => b = a \/ answer[b] = "uncertain"
      BY <1>m, <2>0
      DEF respond, IInv, TypeOK, Phases, Delivering, Handed
    <2>3. ClaimCovers'
      BY <2>1, <2>2, <1>i DEF IInv, ClaimCovers, Handed
    <2>4. OneHanded'
      BY <2>2, <1>i DEF IInv, OneHanded, SameId, Handed
    <2>5. UncertainIsClaimed'
      <3> SUFFICES ASSUME NEW b \in Attempt, answer'[b] = "uncertain"
                   PROVE  claims'[request'[b].id] # None
        BY <2>2 DEF UncertainIsClaimed
      <3>1. CASE b = a
        BY <3>1, <2>0, <2>1, <1>m, <1>i
      <3>2. CASE answer[b] = "uncertain"
        <4>1. deliver[b] = "done" /\ claims[request[b].id] # None
          BY <3>2 DEF IInv, Phases, Answers, UncertainIsClaimed
        <4> QED
          BY <4>1, <2>1, <1>i
      <3> QED
        BY <2>2, <3>1, <3>2
    <2> QED
      BY <2>3, <2>4, <2>5
  <1>p. ASSUME NEW a \in Attempt, deliver[a] = "lock",
               deliveryLock = None, claims[request[a].id] = None,
               claims' = [claims EXCEPT ![request[a].id] =
                             [fingerprint |-> Fp(a), state |-> "Pending"]],
               UNCHANGED tmux,
               \A b \in Attempt :
                   /\ b # a => deliver'[b] = deliver[b]
                   /\ answer'[b] = "uncertain" => answer[b] = "uncertain"
        PROVE  Goal
    <2>0. request[a].id \in Id /\ Fp(a) \in HandoffRequest
      BY <1>p, <1>r
    <2>1. /\ claims'[request[a].id] # None
          /\ claims'[request[a].id].fingerprint = Fp(a)
          /\ \A j \in Id \ {request[a].id} : claims'[j] = claims[j]
      BY <1>p, <2>0, ClaimWritten DEF IInv
    <2>2. \A b \in Attempt :
              /\ deliver[b] \notin Delivering
              /\ deliver'[b] \in Delivering => b = a
              /\ Handed(b)' = Handed(b)
              /\ Handed(b) => ~SameId(b, a)
      BY <1>p
      DEF IInv, Phases, Delivering, Handed, SameId, ClaimCovers
    <2>3. ClaimCovers'
      <3> SUFFICES ASSUME NEW b \in Attempt, b = a \/ Handed(b)
                   PROVE  /\ claims'[request'[b].id] # None
                          /\ claims'[request'[b].id].fingerprint = Fp(b)'
        BY <2>2 DEF ClaimCovers
      <3>1. CASE b = a
        BY <3>1, <2>1, <1>i, <1>p
      <3>2. CASE Handed(b)
        <4>1. claims'[request[b].id] = claims[request[b].id]
          BY <3>2, <2>1, <2>2, <1>i DEF SameId, Handed
        <4> QED
          BY <3>2, <4>1, <1>i DEF IInv, ClaimCovers, Handed
      <3> QED
        BY <3>1, <3>2
    <2>4. OneHanded'
      BY <2>2, <1>i, <1>p DEF IInv, OneHanded, SameId, Handed
    <2>5. UncertainIsClaimed'
      <3> SUFFICES ASSUME NEW b \in Attempt, answer[b] = "uncertain"
                   PROVE  /\ claims'[request'[b].id] # None
                          /\ \A c \in Attempt :
                                 deliver'[c] \in Delivering => ~SameId(b, c)'
        BY <1>p DEF UncertainIsClaimed
      <3>1. deliver[b] = "done" /\ claims[request[b].id] # None
        BY DEF IInv, Phases, Answers, UncertainIsClaimed
      <3>2. /\ request[b].id # request[a].id
            /\ request'[b] = request[b]
            /\ request'[a] = request[a]
            /\ request[b].id \in Id
        BY <3>1, <1>p, <1>i
      <3> QED
        BY <3>1, <3>2, <2>1, <2>2 DEF SameId
    <2> QED
      BY <2>3, <2>4, <2>5
  <1>1. ASSUME NEW a \in Attempt, Invoke(a) PROVE Goal
    BY <1>1, <1>k DEF Invoke, IInv, TypeOK, Delivering
  <1>2. ASSUME NEW a \in Attempt, BeginSend(a) PROVE Goal
    BY <1>2, <1>k DEF BeginSend, IInv, TypeOK, Delivering
  <1>3. ASSUME NEW a \in Attempt, AbandonSend(a) PROVE Goal
    BY <1>3, <1>k DEF AbandonSend, IInv, TypeOK, Delivering
  <1>4. ASSUME NEW a \in Attempt, ReceiveAnswer(a) PROVE Goal
    BY <1>4, <1>k DEF ReceiveAnswer, finish_report, IInv, TypeOK, Delivering
  <1>5. ASSUME NEW a \in Attempt, GiveUp(a) PROVE Goal
    BY <1>5, <1>k DEF GiveUp, finish_report, IInv, TypeOK, Delivering
  <1>6. ASSUME NEW a \in Attempt, CrashSender(a) PROVE Goal
    BY <1>6, <1>k DEF CrashSender, IInv, TypeOK, Delivering
  <1>7. ASSUME NEW a \in Attempt, Serve(a) PROVE Goal
    BY <1>7, <1>k DEF Serve, IInv, TypeOK, Delivering
  <1>8. ASSUME NEW a \in Attempt, ServeUnsupported(a) PROVE Goal
    BY <1>8, <1>k DEF ServeUnsupported, respond, IInv, TypeOK, Delivering
  <1>9. ASSUME NEW a \in Attempt, Stage(a) PROVE Goal
    BY <1>9, <1>k DEF Stage, IInv, TypeOK, Delivering
  <1>10. ASSUME NEW a \in Attempt, CrashReceiver(a) PROVE Goal
    BY <1>10, <1>k DEF CrashReceiver, IInv, TypeOK, Delivering
  <1>11. ASSUME NEW a \in Attempt, AnswerFromClaim(a) PROVE Goal
    <2>0. /\ request[a].id \in Id
          /\ claims[request[a].id] # None
          /\ UNCHANGED <<claims, tmux>>
          /\ \A b \in Attempt :
                 /\ deliver[b] \notin Delivering
                 /\ deliver'[b] \notin Delivering
                 /\ answer'[b] = "uncertain" => b = a \/ answer[b] = "uncertain"
      BY <1>11, <1>i
      DEF AnswerFromClaim, respond, IInv, TypeOK, Phases, Delivering
    <2>1. ClaimCovers'
      BY <2>0, <1>i DEF IInv, ClaimCovers, Handed
    <2>2. OneHanded'
      BY <2>0, <1>i DEF IInv, OneHanded, SameId, Handed
    <2>3. UncertainIsClaimed'
      <3> SUFFICES ASSUME NEW b \in Attempt, answer'[b] = "uncertain"
                   PROVE  claims'[request'[b].id] # None
        BY <2>0 DEF UncertainIsClaimed
      <3>1. CASE b = a
        BY <3>1, <2>0, <1>11, <1>i DEF AnswerFromClaim
      <3>2. CASE answer[b] = "uncertain"
        <4>1. deliver[b] = "done" /\ claims[request[b].id] # None
          BY <3>2 DEF IInv, Phases, Answers, UncertainIsClaimed
        <4> QED
          BY <4>1, <2>0, <1>i
      <3> QED
        BY <2>0, <3>1, <3>2
    <2> QED
      BY <2>1, <2>2, <2>3
  <1>12. ASSUME NEW a \in Attempt, ClaimId(a) PROVE Goal
    BY <1>12, <1>p DEF ClaimId, IInv, TypeOK
  <1>13. ASSUME NEW a \in Attempt, FailClaim(a) PROVE Goal
    <2>1. /\ deliver[a] = "lock"
          /\ UNCHANGED tmux
          /\ \A b \in Attempt :
                 /\ b # a => deliver'[b] = deliver[b]
                 /\ answer'[b] = "uncertain" => answer[b] = "uncertain"
                 /\ deliver'[b] \in Delivering => deliver[b] \in Delivering
      BY <1>13 DEF FailClaim, respond, IInv, TypeOK, Delivering
    <2>2. CASE UNCHANGED claims
      BY <2>1, <2>2, <1>k
    <2>3. CASE ~ UNCHANGED claims
      BY <1>13, <2>1, <2>3, <1>p DEF FailClaim
    <2> QED
      BY <2>2, <2>3
  <1>14. ASSUME NEW a \in Attempt,
                FailStage(a) \/ RefuseTarget(a) \/ RefusedByTmux(a)
         PROVE  Goal
    <2>1. deliver[a] \in Delivering /\ ~Handed(a) /\ withdraw(a)
      BY <1>14
      DEF FailStage, RefuseTarget, RefusedByTmux, Delivering, Handed, IInv,
          Phases, TypeOK
    <2> QED
      BY <2>1, <1>w
  <1>15. ASSUME NEW a \in Attempt, ScanAndSubmit(a) PROVE Goal
    <2>0. /\ deliver[a] = "scan"
          /\ deliveryLock = a
          /\ UNCHANGED <<claims, answer>>
          /\ \A b \in Attempt :
                 /\ deliver[b] \in Delivering <=> b = a
                 /\ deliver'[b] \in Delivering <=> b = a
                 /\ Handed(b)' <=> b = a \/ Handed(b)
      BY <1>15
      DEF ScanAndSubmit, IInv, TypeOK, Phases, Delivering, Handed
    <2>1. ClaimCovers'
      BY <2>0, <1>i DEF IInv, ClaimCovers, Handed
    <2>2. OneHanded'
      BY <2>0, <1>i DEF IInv, OneHanded, SameId, Handed
    <2>3. UncertainIsClaimed'
      BY <2>0, <1>i DEF IInv, UncertainIsClaimed, SameId, Phases, Answers
    <2> QED
      BY <2>1, <2>2, <2>3
  <1>16. ASSUME NEW a \in Attempt, TmuxPaste(a) PROVE Goal
    <2>0. /\ UNCHANGED <<claims, answer, deliver>>
          /\ \A b \in Attempt : Handed(b)' => Handed(b)
      BY <1>16 DEF TmuxPaste, IInv, TypeOK, Handed
    <2>1. ClaimCovers'
      BY <2>0, <1>i DEF IInv, ClaimCovers, Handed, Delivering
    <2>2. OneHanded'
      BY <2>0, <1>i DEF IInv, OneHanded, SameId, Handed, Delivering
    <2>3. UncertainIsClaimed'
      BY <2>0, <1>i
      DEF IInv, UncertainIsClaimed, SameId, Phases, Answers, Delivering
    <2> QED
      BY <2>1, <2>2, <2>3
  <1>17. ASSUME NEW a \in Attempt, ConfirmDelivery(a) PROVE Goal
    BY <1>17, <1>m DEF ConfirmDelivery
  <1>18. ASSUME NEW a \in Attempt, LoseConfirmation(a) PROVE Goal
    BY <1>18, <1>m DEF LoseConfirmation
  <1>19. ASSUME Environment \/ UNCHANGED vars PROVE Goal
    BY <1>19, <1>k
    DEF Environment, AgentMoves, AgentRestarts, PaneRecreated, ToggleMode,
        NewTarget, vars
  <1> QED
    BY <1>1, <1>2, <1>3, <1>4, <1>5, <1>6, <1>7, <1>8, <1>9,
       <1>10, <1>11, <1>12, <1>13, <1>14, <1>15, <1>16, <1>17, <1>18,
       <1>19
    DEF Next, Sender, Receiver, ReceiverFailure

(* The transcript is what tmux executed, and a rejected delivery has       *)
(* nothing in tmux.                                                        *)
LEMMA TranscriptStep ==
    ASSUME IInv, TypeOK', PhaseFacts, [Next]_vars
    PROVE  TranscriptIsTmux' /\ RejectedTypedNothing'
  <1> DEFINE Goal == TranscriptIsTmux' /\ RejectedTypedNothing'
  <1> USE HandoffAssumption
  <1> USE DEF senderVars, receiverVars, paneVars
  <1>i. ASSUME NEW b \in Attempt, tmux[b] # "none"
        PROVE  request'[b] = request[b]
    BY <1>i DEF IInv, Phases, Requested, PhaseFacts
  <1>k. ASSUME UNCHANGED <<tmux, transcript>>,
               \A b \in Attempt : answer'[b] = "rejected" =>
                   answer[b] = "rejected" \/ ~Handed(b)
        PROVE  Goal
    <2>1. TranscriptIsTmux'
      <3>1. \A p \in transcript :
                p.by \in Attempt /\ request'[p.by] = request[p.by]
        BY <1>i DEF IInv, TypeOK, Paste, TranscriptIsTmux
      <3>2. TranscriptIsTmux
        BY DEF IInv
      <3> QED
        BY <1>k, <3>1, <3>2 DEF TranscriptIsTmux
    <2>2. RejectedTypedNothing'
      BY <1>k DEF IInv, RejectedTypedNothing, Handed
    <2> QED
      BY <2>1, <2>2
  <1>m. ASSUME NEW b \in Attempt, deliver[b] \notin {"submit", "done", "crashed"}
        PROVE  ~Handed(b)
    BY <1>m DEF IInv, Phases, Handed
  <1>n. ASSUME NEW b \in Attempt, NEW s, UNCHANGED <<tmux, transcript>>,
               answer' = [answer EXCEPT ![b] = s],
               s = "rejected" => ~Handed(b)
        PROVE  Goal
    <2>1. \A c \in Attempt : answer'[c] = "rejected" =>
              answer[c] = "rejected" \/ ~Handed(c)
      BY <1>n DEF IInv, TypeOK
    <2> QED
      BY <2>1, <1>n, <1>k
  <1>1. ASSUME NEW a \in Attempt, Invoke(a) PROVE Goal
    BY <1>1, <1>k DEF Invoke, IInv, TypeOK, Phases, Handed
  <1>2. ASSUME NEW a \in Attempt, BeginSend(a) PROVE Goal
    BY <1>2, <1>k DEF BeginSend, IInv, TypeOK, Phases, Handed
  <1>3. ASSUME NEW a \in Attempt, AbandonSend(a) PROVE Goal
    BY <1>3, <1>k DEF AbandonSend, IInv, TypeOK, Phases, Handed
  <1>4. ASSUME NEW a \in Attempt, ReceiveAnswer(a) PROVE Goal
    BY <1>4, <1>k DEF ReceiveAnswer, finish_report, IInv, TypeOK, Phases, Handed
  <1>5. ASSUME NEW a \in Attempt, GiveUp(a) PROVE Goal
    BY <1>5, <1>k DEF GiveUp, finish_report, IInv, TypeOK, Phases, Handed
  <1>6. ASSUME NEW a \in Attempt, CrashSender(a) PROVE Goal
    BY <1>6, <1>k DEF CrashSender, IInv, TypeOK, Phases, Handed
  <1>7. ASSUME NEW a \in Attempt, Serve(a) PROVE Goal
    BY <1>7, <1>k DEF Serve, IInv, TypeOK, Phases, Handed
  <1>8. ASSUME NEW a \in Attempt, ServeUnsupported(a) PROVE Goal
    BY <1>8, <1>n DEF ServeUnsupported, respond
  <1>9. ASSUME NEW a \in Attempt, AnswerFromClaim(a) PROVE Goal
    BY <1>9, <1>n, <1>m DEF AnswerFromClaim, respond
  <1>10. ASSUME NEW a \in Attempt, ClaimId(a) PROVE Goal
    BY <1>10, <1>k DEF ClaimId, IInv, TypeOK, Phases, Handed
  <1>11. ASSUME NEW a \in Attempt, FailClaim(a) PROVE Goal
    BY <1>11, <1>n, <1>m DEF FailClaim, respond
  <1>12. ASSUME NEW a \in Attempt, Stage(a) PROVE Goal
    BY <1>12, <1>k DEF Stage, IInv, TypeOK, Phases, Handed
  <1>13. ASSUME NEW a \in Attempt, FailStage(a) PROVE Goal
    BY <1>13, <1>n, <1>m DEF FailStage, withdraw, respond
  <1>14. ASSUME NEW a \in Attempt, RefuseTarget(a) PROVE Goal
    BY <1>14, <1>n, <1>m DEF RefuseTarget, withdraw, respond
  <1>15. ASSUME NEW a \in Attempt, ConfirmDelivery(a) PROVE Goal
    BY <1>15, <1>n DEF ConfirmDelivery, respond
  <1>16. ASSUME NEW a \in Attempt, RefusedByTmux(a) PROVE Goal
    BY <1>16, <1>n DEF RefusedByTmux, withdraw, respond, Handed
  <1>17. ASSUME NEW a \in Attempt, LoseConfirmation(a) PROVE Goal
    BY <1>17, <1>n DEF LoseConfirmation, respond
  <1>18. ASSUME NEW a \in Attempt, CrashReceiver(a) PROVE Goal
    BY <1>18, <1>k DEF CrashReceiver, IInv, TypeOK, Phases, Handed
  <1>19. ASSUME NEW a \in Attempt, ScanAndSubmit(a) PROVE Goal
    <2>0. /\ deliver[a] = "scan"
          /\ tmux[a] = "none"
          /\ answer[a] = None
          /\ UNCHANGED <<answer, transcript>>
          /\ tmux' = [tmux EXCEPT ![a] = "queued"]
      BY <1>19 DEF ScanAndSubmit, IInv, TypeOK, Phases
    <2>1. TranscriptIsTmux'
      BY <2>0, <1>i DEF IInv, TypeOK, Paste, TranscriptIsTmux
    <2>2. RejectedTypedNothing'
      BY <2>0 DEF IInv, TypeOK, RejectedTypedNothing, Answers
    <2> QED
      BY <2>1, <2>2
  <1>20. ASSUME NEW a \in Attempt, TmuxPaste(a) PROVE Goal
    <2>0. /\ tmux[a] = "queued"
          /\ UNCHANGED <<answer, request>>
          /\ request[a] = request'[a]
          /\ answer[a] # "rejected"
      BY <1>20, <1>i DEF TmuxPaste, IInv, RejectedTypedNothing
    <2>1. CASE paste_guard(request[a], target)
      <3> DEFINE p == [by |-> a, pane |-> target.pane, proc |-> target.proc,
                       mode |-> target.mode]
      <3>1. /\ transcript' = transcript \cup {p}
            /\ tmux' = [tmux EXCEPT ![a] = "submitted"]
        BY <1>20, <2>1 DEF TmuxPaste
      <3>2. p.by = a
        OBVIOUS
      <3>3. \A q \in transcript : q.by \in Attempt /\ q.by # a
        BY <2>0 DEF IInv, TypeOK, Paste, TranscriptIsTmux
      <3> HIDE DEF p
      <3>4. TranscriptIsTmux'
        BY <2>0, <3>1, <3>2, <3>3 DEF IInv, TypeOK, TranscriptIsTmux
      <3>5. RejectedTypedNothing'
        BY <2>0, <3>1 DEF IInv, TypeOK, RejectedTypedNothing
      <3> QED
        BY <3>4, <3>5
    <2>2. CASE ~paste_guard(request[a], target)
      <3>1. UNCHANGED transcript /\ tmux' = [tmux EXCEPT ![a] = "refused"]
        BY <1>20, <2>2 DEF TmuxPaste
      <3>2. TranscriptIsTmux'
        BY <2>0, <3>1 DEF IInv, TypeOK, Paste, TranscriptIsTmux
      <3>3. RejectedTypedNothing'
        BY <2>0, <3>1 DEF IInv, TypeOK, RejectedTypedNothing
      <3> QED
        BY <3>2, <3>3
    <2> QED
      BY <2>1, <2>2
  <1>21. ASSUME Environment \/ UNCHANGED vars PROVE Goal
    BY <1>21, <1>k
    DEF Environment, AgentMoves, AgentRestarts, PaneRecreated, ToggleMode,
        NewTarget, vars
  <1> QED
    BY <1>1, <1>2, <1>3, <1>4, <1>5, <1>6, <1>7, <1>8, <1>9,
       <1>10, <1>11, <1>12, <1>13, <1>14, <1>15, <1>16, <1>17, <1>18,
       <1>19, <1>20, <1>21
    DEF Next, Sender, Receiver, ReceiverFailure

(* What is said to be delivered was typed, and typed text stays typed.     *)
LEMMA DeliveredStep ==
    ASSUME IInv, TypeOK', PhaseFacts, [Next]_vars
    PROVE  DeliveredWasTyped'
  <1> DEFINE
        Confirming == {"delivered", "duplicate"}
        ClaimsTrue ==
            \A i \in Id : claims'[i] # None /\ claims'[i].state = "Delivered"
                          => Typed(claims'[i].fingerprint)
        AnswersTrue ==
            \A b \in Attempt : answer'[b] \in Confirming
                               => send[b] # "idle" /\ Typed(Fp(b))
        SentTrue ==
            \A m \in Machine, i \in Id :
                sent'[m][i] # None /\ sent'[m][i].status \in Confirming
                => Typed(sent'[m][i].fingerprint)
        Goal == ClaimsTrue /\ AnswersTrue /\ SentTrue
  <1> USE HandoffAssumption
  <1> USE DEF senderVars, receiverVars, paneVars
  <1>r. ASSUME NEW a \in Attempt, deliver[a] # "none"
        PROVE  /\ send[a] # "idle"
               /\ request[a].id \in Id
               /\ Fp(a) \in HandoffRequest
    BY <1>r, FingerprintType DEF IInv, Requested, Fp
  <1>q. ASSUME NEW a \in Attempt, send[a] # "idle"
        PROVE  /\ machine[a] \in Machine
               /\ request[a].id \in Id
               /\ Fp(a) \in HandoffRequest
    BY <1>q, FingerprintType DEF IInv, TypeOK, Requested, Fp
  <1>t. ASSUME NEW f, Typed(f) PROVE Typed(f)'
    <2>1. PICK b \in Attempt : tmux[b] = "submitted" /\ Fp(b) = f
      BY <1>t DEF Typed
    <2>2. send[b] # "idle"
      BY <2>1 DEF IInv, Phases, Requested
    <2>3. tmux'[b] = "submitted" /\ Fp(b)' = f
      BY <2>1, <2>2 DEF PhaseFacts, Fp
    <2> QED
      BY <2>3 DEF Typed
  <1>c. ASSUME UNCHANGED claims PROVE ClaimsTrue
    BY <1>c DEF IInv, DeliveredWasTyped
  <1>a. ASSUME NEW a \in Attempt, deliver[a] # "none",
               NEW x, respond(a, x), x \in Confirming => Typed(Fp(a))
        PROVE  AnswersTrue
    <2> SUFFICES ASSUME NEW b \in Attempt, answer'[b] \in Confirming
                 PROVE  send[b] # "idle" /\ Typed(Fp(b))
      OBVIOUS
    <2>1. CASE b = a
      BY <2>1, <1>a, <1>r DEF respond, IInv, TypeOK
    <2>2. CASE b # a
      <3>1. answer[b] \in Confirming
        BY <2>2, <1>a DEF respond, IInv, TypeOK
      <3>2. deliver[b] = "done"
        BY <3>1 DEF IInv, Phases, Answers
      <3> QED
        BY <3>1, <3>2, <1>r DEF IInv, DeliveredWasTyped
    <2> QED
      BY <2>1, <2>2
  <1>u. ASSUME UNCHANGED answer PROVE AnswersTrue
    <2> SUFFICES ASSUME NEW b \in Attempt, answer[b] \in Confirming
                 PROVE  send[b] # "idle" /\ Typed(Fp(b))
      BY <1>u
    <2>1. deliver[b] = "done"
      BY DEF IInv, Phases, Answers
    <2> QED
      BY <2>1, <1>r DEF IInv, DeliveredWasTyped
  <1>s. ASSUME UNCHANGED sent PROVE SentTrue
    BY <1>s DEF IInv, DeliveredWasTyped
  <1>v. ASSUME NEW a \in Attempt, send[a] # "idle", NEW status \in SentStatus,
               status \in Confirming => Typed(Fp(a)),
               LET record == [fingerprint |-> Fp(a), status |-> status]
               IN  \/ write_sent(machine[a], request[a].id, record)
                   \/ UNCHANGED sent
        PROVE  SentTrue
    <2> DEFINE record == [fingerprint |-> Fp(a), status |-> status]
    <2>1. record \in SentRecord
      BY <1>v, <1>q DEF SentRecord
    <2>2. /\ record.status = status
          /\ record.fingerprint = Fp(a)
      OBVIOUS
    <2>3. write_sent(machine[a], request[a].id, record) \/ UNCHANGED sent
      BY <1>v
    <2> HIDE DEF record
    <2>4. \A n \in Machine, j \in Id :
              sent'[n][j] = record \/ sent'[n][j] = None
              \/ sent'[n][j] = sent[n][j]
      BY <2>1, <2>3, <1>v, <1>q, WriteSentEffect DEF IInv
    <2> QED
      BY <2>2, <2>4, <1>v DEF IInv, DeliveredWasTyped
  <1>w. ASSUME NEW a \in Attempt, deliver[a] # "none", withdraw(a) PROVE Goal
    <2>1. ClaimsTrue
      <3>1. CASE UNCHANGED claims
        BY <3>1, <1>c
      <3>2. CASE claims' = [claims EXCEPT ![request[a].id] = None]
        <4>1. \A j \in Id : claims'[j] = None \/ claims'[j] = claims[j]
          BY <3>2 DEF IInv, TypeOK
        <4> QED
          BY <4>1 DEF IInv, DeliveredWasTyped
      <3> QED
        BY <1>w, <3>1, <3>2 DEF withdraw
    <2> QED
      BY <1>w, <2>1, <1>a, <1>s DEF withdraw
  <1>p. ASSUME NEW a \in Attempt, deliver[a] # "none",
               claims' = [claims EXCEPT ![request[a].id] =
                             [fingerprint |-> Fp(a), state |-> "Pending"]]
        PROVE  ClaimsTrue
    <2>1. /\ claims'[request[a].id].state = "Pending"
          /\ \A j \in Id \ {request[a].id} : claims'[j] = claims[j]
      BY <1>p, <1>r, ClaimWritten DEF IInv
    <2> QED
      BY <2>1 DEF IInv, DeliveredWasTyped
  <1>m. ASSUME NEW a \in Attempt, deliver[a] = "submit",
               tmux[a] = "submitted",
               claims' = [claims EXCEPT ![request[a].id].state = "Delivered"]
        PROVE  ClaimsTrue
    <2>1. claims[request[a].id] # None
          /\ claims[request[a].id].fingerprint = Fp(a)
      BY <1>m DEF IInv, ClaimCovers, Delivering
    <2>2. /\ claims'[request[a].id].fingerprint = Fp(a)
          /\ \A j \in Id \ {request[a].id} : claims'[j] = claims[j]
      BY <1>m, <1>r, <2>1, ClaimMarked DEF IInv
    <2>3. Typed(Fp(a))
      BY <1>m DEF Typed
    <2> QED
      BY <2>2, <2>3 DEF IInv, DeliveredWasTyped
  <1>1. ASSUME NEW a \in Attempt, Invoke(a) PROVE Goal
    BY <1>1, <1>c, <1>u, <1>s DEF Invoke
  <1>2. ASSUME NEW a \in Attempt, CrashSender(a) PROVE Goal
    BY <1>2, <1>c, <1>u, <1>s DEF CrashSender
  <1>3. ASSUME NEW a \in Attempt, Serve(a) PROVE Goal
    BY <1>3, <1>c, <1>u, <1>s DEF Serve
  <1>4. ASSUME NEW a \in Attempt, Stage(a) PROVE Goal
    BY <1>4, <1>c, <1>u, <1>s DEF Stage
  <1>5. ASSUME NEW a \in Attempt, ScanAndSubmit(a) PROVE Goal
    BY <1>5, <1>c, <1>u, <1>s DEF ScanAndSubmit
  <1>6. ASSUME NEW a \in Attempt, TmuxPaste(a) PROVE Goal
    BY <1>6, <1>c, <1>u, <1>s DEF TmuxPaste
  <1>7. ASSUME NEW a \in Attempt, CrashReceiver(a) PROVE Goal
    BY <1>7, <1>c, <1>u, <1>s DEF CrashReceiver
  <1>8. ASSUME NEW a \in Attempt, BeginSend(a) \/ AbandonSend(a) PROVE Goal
    <2>1. send[a] # "idle" /\ UNCHANGED <<claims, answer>>
      BY <1>8 DEF BeginSend, AbandonSend
    <2>2. LET record == [fingerprint |-> Fp(a), status |-> "sending"]
          IN  \/ write_sent(machine[a], request[a].id, record)
              \/ UNCHANGED sent
      BY <1>8 DEF BeginSend, AbandonSend, maybe_write_sent
    <2>3. "sending" \in SentStatus
      BY DEF SentStatus
    <2>4. SentTrue
      BY <2>1, <2>2, <2>3, <1>v
    <2> QED
      BY <2>1, <2>4, <1>c, <1>u
  <1>9. ASSUME NEW a \in Attempt, ReceiveAnswer(a) PROVE Goal
    <2>1. /\ send[a] # "idle"
          /\ answer[a] \in Answers
          /\ UNCHANGED <<claims, answer>>
      BY <1>9 DEF ReceiveAnswer, finish_report, IInv, TypeOK, Phases
    <2> DEFINE status == classify(answer[a])
    <2>2. status \in SentStatus /\ (status \in Confirming => Typed(Fp(a)))
      BY <2>1, ClassifyType DEF IInv, DeliveredWasTyped
    <2>3. LET record == [fingerprint |-> Fp(a), status |-> status]
          IN  \/ write_sent(machine[a], request[a].id, record)
              \/ UNCHANGED sent
      BY <1>9 DEF ReceiveAnswer, finish_report, maybe_write_sent
    <2> HIDE DEF status
    <2>4. SentTrue
      BY <2>1, <2>2, <2>3, <1>v
    <2> QED
      BY <2>1, <2>4, <1>c, <1>u
  <1>10. ASSUME NEW a \in Attempt, GiveUp(a) PROVE Goal
    <2>1. send[a] # "idle" /\ UNCHANGED <<claims, answer>>
      BY <1>10 DEF GiveUp, finish_report
    <2>2. LET record == [fingerprint |-> Fp(a), status |-> "unconfirmed"]
          IN  \/ write_sent(machine[a], request[a].id, record)
              \/ UNCHANGED sent
      BY <1>10 DEF GiveUp, finish_report, maybe_write_sent
    <2>3. "unconfirmed" \in SentStatus
      BY DEF SentStatus
    <2>4. SentTrue
      BY <2>1, <2>2, <2>3, <1>v
    <2> QED
      BY <2>1, <2>4, <1>c, <1>u
  <1>11. ASSUME NEW a \in Attempt, ServeUnsupported(a) PROVE Goal
    BY <1>11, <1>a, <1>c, <1>s DEF ServeUnsupported
  <1>12. ASSUME NEW a \in Attempt, AnswerFromClaim(a) PROVE Goal
    <2> DEFINE prior == claims[request[a].id]
               x == IF prior.fingerprint # Fp(a) THEN "rejected"
                    ELSE IF prior.state = "Delivered" THEN "duplicate"
                    ELSE "uncertain"
    <2>1. /\ deliver[a] # "none" /\ prior # None /\ respond(a, x)
          /\ UNCHANGED <<claims, sent>>
      BY <1>12 DEF AnswerFromClaim
    <2>2. request[a].id \in Id
      BY <2>1, <1>r
    <2>3. x \in Confirming => Typed(Fp(a))
      BY <2>1, <2>2 DEF IInv, DeliveredWasTyped
    <2> HIDE DEF x
    <2> QED
      BY <2>1, <2>3, <1>a, <1>c, <1>s
  <1>13. ASSUME NEW a \in Attempt, ClaimId(a) PROVE Goal
    BY <1>13, <1>p, <1>u, <1>s DEF ClaimId
  <1>14. ASSUME NEW a \in Attempt, FailClaim(a) PROVE Goal
    BY <1>14, <1>c, <1>p, <1>a, <1>s DEF FailClaim
  <1>15. ASSUME NEW a \in Attempt,
                FailStage(a) \/ RefuseTarget(a) \/ RefusedByTmux(a)
         PROVE  Goal
    BY <1>15, <1>w DEF FailStage, RefuseTarget, RefusedByTmux
  <1>16. ASSUME NEW a \in Attempt, ConfirmDelivery(a) PROVE Goal
    <2>1. Typed(Fp(a))
      BY <1>16 DEF ConfirmDelivery, Typed
    <2> QED
      BY <1>16, <2>1, <1>m, <1>a, <1>s DEF ConfirmDelivery
  <1>17. ASSUME NEW a \in Attempt, LoseConfirmation(a) PROVE Goal
    BY <1>17, <1>c, <1>m, <1>a, <1>s DEF LoseConfirmation
  <1>18. ASSUME Environment \/ UNCHANGED vars PROVE Goal
    BY <1>18, <1>c, <1>u, <1>s
    DEF Environment, AgentMoves, AgentRestarts, PaneRecreated, ToggleMode,
        NewTarget, vars
  <1>19. Goal
    BY <1>1, <1>2, <1>3, <1>4, <1>5, <1>6, <1>7, <1>8, <1>9,
       <1>10, <1>11, <1>12, <1>13, <1>14, <1>15, <1>16, <1>17, <1>18
    DEF Next, Sender, Receiver, ReceiverFailure
  <1>20. ASSUME NEW b \in Attempt, answer'[b] \in Confirming
         PROVE  Typed(Fp(b))'
    <2>1. send[b] # "idle" /\ Typed(Fp(b))
      BY <1>19, <1>20
    <2>2. Fp(b)' = Fp(b)
      BY <2>1 DEF PhaseFacts, Fp
    <2>3. PICK c \in Attempt : tmux[c] = "submitted" /\ Fp(c) = Fp(b)
      BY <2>1 DEF Typed
    <2>4. send[c] # "idle"
      BY <2>3 DEF IInv, Phases, Requested
    <2>5. tmux'[c] = "submitted" /\ Fp(c)' = Fp(c)
      BY <2>3, <2>4 DEF PhaseFacts, Fp
    <2> QED
      BY <2>2, <2>3, <2>5 DEF Typed
  <1> QED
    BY <1>19, <1>20, <1>t DEF DeliveredWasTyped

(* A delivery ends with its claim removed or marked, or leaves it for a     *)
(* reason.                                                                 *)
LEMMA PendingStep ==
    ASSUME IInv, PhaseFacts, PendingHasReason, [Next]_vars
    PROVE  PendingHasReason'
  <1> DEFINE Goal == PendingHasReason'
  <1> USE HandoffAssumption
  <1> USE DEF senderVars, receiverVars, paneVars
  <1>t. TypeOK
    BY DEF IInv
  <1>q. ASSUME NEW a \in Attempt, deliver[a] # "none"
        PROVE  request[a].id \in Id /\ request'[a] = request[a]
               /\ Fp(a) \in HandoffRequest
    <2>1. request[a] \in HandoffRequest /\ send[a] # "idle"
      BY <1>q DEF IInv, Requested
    <2> QED
      BY <2>1, FingerprintType DEF PhaseFacts, Fp
  <1>k. ASSUME UNCHANGED <<claims, stuck>>,
               \A b \in Attempt : deliver[b] \in Delivering => deliver'[b] \in Delivering
        PROVE  Goal
    BY <1>k, <1>q DEF PendingHasReason, Delivering
  <1>e. ASSUME NEW a \in Attempt, deliver[a] # "none",
               \A b \in Attempt \ {a} : deliver'[b] = deliver[b],
               \A i \in Id \ {request[a].id} : claims'[i] = claims[i],
               stuck \subseteq stuck',
               \/ claims'[request[a].id] = None
               \/ claims'[request[a].id].state = "Delivered"
               \/ request[a].id \in stuck'
               \/ deliver'[a] \in Delivering
        PROVE  Goal
    <2> SUFFICES ASSUME NEW i \in Id, claims'[i] # None,
                        claims'[i].state = "Pending", i \notin stuck'
                 PROVE  \E b \in Attempt :
                            deliver'[b] \in Delivering /\ request'[b].id = i
      BY DEF PendingHasReason
    <2>1. CASE i = request[a].id
      BY <1>e, <1>q, <2>1
    <2>2. CASE i # request[a].id
      <3>1. PICK b \in Attempt : deliver[b] \in Delivering /\ request[b].id = i
        BY <1>e, <2>2 DEF PendingHasReason
      <3>2. b # a
        BY <2>2, <3>1
      <3> QED
        BY <1>e, <1>q, <3>1, <3>2 DEF Delivering
    <2> QED
      BY <2>1, <2>2
  <1>x. ASSUME NEW a \in Attempt, deliver[a] # "none", UNCHANGED claims,
               stuck' = stuck_if_claimed(a),
               \A b \in Attempt \ {a} : deliver'[b] = deliver[b]
        PROVE  Goal
    <2>1. CASE deliver[a] \in Delivering
      BY <1>x, <1>e, <2>1 DEF stuck_if_claimed
    <2>2. CASE deliver[a] \notin Delivering
      BY <1>x, <1>k, <2>2 DEF stuck_if_claimed
    <2> QED
      BY <2>1, <2>2
  <1>r. ASSUME NEW a \in Attempt, deliver[a] \notin Delivering, UNCHANGED <<claims, stuck>>,
               NEW x, respond(a, x)
        PROVE  Goal
    BY <1>r, <1>t, <1>k DEF respond, TypeOK
  <1>w. ASSUME NEW a \in Attempt, deliver[a] \in Delivering, withdraw(a)
        PROVE  Goal
    <2>1. /\ deliver[a] # "none" /\ request[a].id \in Id
          /\ \A b \in Attempt \ {a} : deliver'[b] = deliver[b]
      BY <1>w, <1>t, <1>q DEF withdraw, respond, TypeOK, Delivering
    <2>2. CASE claims' = [claims EXCEPT ![request[a].id] = None] /\ UNCHANGED stuck
      BY <2>1, <2>2, <1>t, <1>e DEF TypeOK
    <2>3. CASE stuck' = stuck \cup {request[a].id} /\ UNCHANGED claims
      BY <2>1, <2>3, <1>e
    <2> QED
      BY <1>w, <2>2, <2>3 DEF withdraw
  <1>1. ASSUME NEW a \in Attempt,
               Invoke(a) \/ AbandonSend(a) \/ ReceiveAnswer(a) \/ GiveUp(a)
        PROVE  Goal
    BY <1>1, <1>k DEF Invoke, AbandonSend, ReceiveAnswer, GiveUp, finish_report
  <1>2. ASSUME NEW a \in Attempt, BeginSend(a) \/ Serve(a) PROVE Goal
    BY <1>2, <1>k, <1>t DEF BeginSend, Serve, IInv, Requested, TypeOK, Delivering
  <1>3. ASSUME NEW a \in Attempt, CrashSender(a) PROVE Goal
    <2>1. CASE machine[a] = Owner /\ deliver[a] \in Delivering \cup {"lock"}
      <3>1. deliver[a] # "none"
        BY <2>1 DEF Delivering
      <3>2. UNCHANGED claims /\ stuck' = stuck_if_claimed(a)
        BY <1>3, <2>1 DEF CrashSender
      <3>3. \A b \in Attempt \ {a} : deliver'[b] = deliver[b]
        BY <1>3, <1>t DEF CrashSender, TypeOK
      <3> QED
        BY <3>1, <3>2, <3>3, <1>x
    <2>2. CASE ~(machine[a] = Owner /\ deliver[a] \in Delivering \cup {"lock"})
      BY <1>3, <2>2, <1>t, <1>k DEF CrashSender, TypeOK
    <2> QED
      BY <2>1, <2>2
  <1>4. ASSUME NEW a \in Attempt, CrashReceiver(a) PROVE Goal
    <2>1. /\ deliver[a] # "none"
          /\ UNCHANGED claims /\ stuck' = stuck_if_claimed(a)
          /\ \A b \in Attempt \ {a} : deliver'[b] = deliver[b]
      BY <1>4, <1>t DEF CrashReceiver, Delivering, TypeOK
    <2> QED
      BY <2>1, <1>x
  <1>5. ASSUME NEW a \in Attempt, ServeUnsupported(a) \/ AnswerFromClaim(a)
        PROVE  Goal
    BY <1>5, <1>r DEF ServeUnsupported, AnswerFromClaim, Delivering
  <1>6. ASSUME NEW a \in Attempt, ClaimId(a) PROVE Goal
    <2>1. /\ deliver[a] # "none" /\ request[a].id \in Id
          /\ \A i \in Id \ {request[a].id} : claims'[i] = claims[i]
          /\ \A b \in Attempt \ {a} : deliver'[b] = deliver[b]
          /\ deliver'[a] \in Delivering /\ UNCHANGED stuck
      BY <1>6, <1>t, <1>q DEF ClaimId, TypeOK, Delivering
    <2> QED
      BY <2>1, <1>e
  <1>7. ASSUME NEW a \in Attempt, FailClaim(a) PROVE Goal
    <2>1. /\ deliver[a] = "lock" /\ request[a].id \in Id
          /\ respond(a, "rejected")
          /\ \A b \in Attempt \ {a} : deliver'[b] = deliver[b]
      BY <1>7, <1>t, <1>q DEF FailClaim, respond, TypeOK
    <2>2. CASE UNCHANGED <<claims, stuck>>
      BY <2>1, <2>2, <1>r DEF Delivering
    <2>3. CASE /\ claims' = [claims EXCEPT ![request[a].id] =
                     [fingerprint |-> Fp(a), state |-> "Pending"]]
               /\ stuck' = stuck \cup {request[a].id}
      BY <2>1, <2>3, <1>t, <1>e DEF TypeOK
    <2> QED
      BY <1>7, <2>2, <2>3 DEF FailClaim
  <1>8. ASSUME NEW a \in Attempt, FailStage(a) \/ RefuseTarget(a) \/ RefusedByTmux(a)
        PROVE  Goal
    BY <1>8, <1>w DEF FailStage, RefuseTarget, RefusedByTmux, Delivering
  <1>9. ASSUME NEW a \in Attempt, Stage(a) \/ ScanAndSubmit(a) PROVE Goal
    BY <1>9, <1>t, <1>k DEF Stage, ScanAndSubmit, TypeOK, Delivering
  <1>10. ASSUME NEW a \in Attempt, ConfirmDelivery(a) \/ LoseConfirmation(a)
         PROVE  Goal
    <2>1. /\ deliver[a] = "submit" /\ deliver[a] # "none"
          /\ request[a].id \in Id /\ claims[request[a].id] # None
          /\ \A b \in Attempt \ {a} : deliver'[b] = deliver[b]
          /\ stuck \subseteq stuck'
      BY <1>10, <1>t, <1>q
      DEF ConfirmDelivery, LoseConfirmation, respond, TypeOK, IInv, ClaimCovers,
          Delivering
    <2>2. claims[request[a].id] \in Claim
      BY <2>1, <1>t DEF TypeOK
    <2>3. \A i \in Id \ {request[a].id} : claims'[i] = claims[i]
      BY <1>10, <1>t DEF ConfirmDelivery, LoseConfirmation, TypeOK
    <2>4. CASE LoseConfirmation(a)
      BY <2>1, <2>3, <2>4, <1>e DEF LoseConfirmation
    <2>5. CASE ConfirmDelivery(a)
      <3>1. claims'[request[a].id] = [claims[request[a].id] EXCEPT !.state = "Delivered"]
        BY <2>1, <2>5, <1>t DEF ConfirmDelivery, TypeOK
      <3>2. claims'[request[a].id].state = "Delivered"
        BY <3>1, <2>2 DEF Claim
      <3> QED
        BY <2>1, <2>3, <3>2, <1>e
    <2> QED
      BY <1>10, <2>4, <2>5
  <1>11. ASSUME NEW a \in Attempt, TmuxPaste(a) PROVE Goal
    BY <1>11, <1>k DEF TmuxPaste
  <1>12. ASSUME Environment \/ UNCHANGED vars PROVE Goal
    BY <1>12, <1>k
    DEF Environment, AgentMoves, AgentRestarts, PaneRecreated, ToggleMode,
        NewTarget, vars
  <1> QED
    BY <1>1, <1>2, <1>3, <1>4, <1>5, <1>6, <1>7, <1>8, <1>9, <1>10, <1>11, <1>12
    DEF Next, Sender, Receiver, ReceiverFailure

-----------------------------------------------------------------------------
(* The invariant holds of every behaviour, and with it the properties.     *)
THEOREM Invariance == Spec => []IInv
  <1>1. Init => IInv
    BY InitInvariant
  <1>2. IInv /\ [Next]_vars => IInv'
    <2> SUFFICES ASSUME IInv, [Next]_vars PROVE IInv'
      OBVIOUS
    <2>1. TypeOK'
      BY TypeStep DEF IInv
    <2>2. PhaseFacts
      BY <2>1, PhaseStep
    <2>3. ClaimCovers' /\ OneHanded' /\ UncertainIsClaimed'
      BY <2>1, <2>2, ClaimStep
    <2>4. TranscriptIsTmux' /\ RejectedTypedNothing'
      BY <2>1, <2>2, TranscriptStep
    <2>5. DeliveredWasTyped'
      BY <2>1, <2>2, DeliveredStep
    <2> QED
      BY <2>1, <2>2, <2>3, <2>4, <2>5 DEF IInv, PhaseFacts
  <1> QED
    BY <1>1, <1>2, PTL DEF Spec

(* Every variable keeps its type.                                          *)
THEOREM TypeCorrect == Spec => []TypeOK
  BY Invariance, PTL DEF IInv

(* An ID is pasted at most once, whatever fails, is killed or is retried.  *)
THEOREM AtMostOnce == Spec => []AtMostOncePaste
  <1>1. IInv => AtMostOncePaste
    BY DEF IInv, TypeOK, Paste, AtMostOncePaste, TranscriptIsTmux, OneHanded,
           Handed, SameId
  <1> QED
    BY <1>1, Invariance, PTL

(* A sent record that says delivered or duplicate names a typed message.   *)
THEOREM TruthfulSentRecords == Spec => []SentRecordsAreTruthful
  <1>1. IInv => SentRecordsAreTruthful
    <2> SUFFICES ASSUME IInv, NEW m \in Machine, NEW i \in Id,
                        sent[m][i] # None,
                        sent[m][i].status \in {"delivered", "duplicate"}
                 PROVE  \E p \in transcript :
                            Fp(p.by) = sent[m][i].fingerprint
      BY DEF SentRecordsAreTruthful
    <2>1. PICK b \in Attempt : /\ tmux[b] = "submitted"
                               /\ Fp(b) = sent[m][i].fingerprint
      BY DEF IInv, DeliveredWasTyped, Typed
    <2> QED
      BY <2>1 DEF IInv, TranscriptIsTmux
  <1> QED
    BY <1>1, Invariance, PTL

(* A rejected delivery typed nothing and never will.                       *)
THEOREM RejectionIsSafe == Spec => []RejectedTypedNothing
  BY Invariance, PTL DEF IInv

(* An ID is blocked only by a delivery that goes on, was killed or failed: *)
(* every rejection gives it back.                                          *)
THEOREM RejectionFreesId == Spec => []PendingHasReason
  <1>1. Init => PendingHasReason
    BY DEF Init, PendingHasReason
  <1>2. IInv /\ IInv' /\ PendingHasReason /\ [Next]_vars => PendingHasReason'
    <2> SUFFICES ASSUME IInv, IInv', PendingHasReason, [Next]_vars
                 PROVE  PendingHasReason'
      OBVIOUS
    <2>1. TypeOK'
      BY DEF IInv
    <2> QED
      BY <2>1, PhaseStep, PendingStep
  <1> QED
    BY <1>1, <1>2, Invariance, PTL DEF Spec

-----------------------------------------------------------------------------
(* The sender's records.  SenderBindsId is not inductive: an ID stays      *)
(* bound because its record survives every other write as long as the      *)
(* records of all IDs sent for fit.                                        *)

Begun(a) == send[a] \notin {"idle", "audit"}

(* The record of every exchange is kept, and is of its message.            *)
Recorded(m) ==
    \A a \in Attempt :
        machine[a] = m /\ deliver[a] # "none" =>
            /\ sent[m][request[a].id] # None
            /\ sent[m][request[a].id].fingerprint = Fp(a)

SentInv ==
    /\ \A a \in Attempt : send[a] = "exchange" => deliver[a] # "none"
    /\ \A m \in Machine, i \in Id : sent[m][i] # None => i \in SentFor(m)
    /\ \A m \in Machine : Cardinality(SentFor(m)) <= SentLimit => Recorded(m)

(* The records written and the exchanges begun in a step: none, or those   *)
(* of one attempt, whose ID is free or bound to its message.               *)
WritesFor(a) ==
    \E status \in SentStatus :
        /\ send[a] # "idle" /\ Begun(a)'
        /\ write_sent(machine[a], request[a].id,
                      [fingerprint |-> Fp(a), status |-> status])
        /\ deliver[a] # "none" \/ ~conflicting_prior(machine[a], request[a])
        /\ \A b \in Attempt \ {a} : deliver'[b] # "none" => deliver[b] # "none"

WritesNothing ==
    /\ UNCHANGED sent
    /\ \A b \in Attempt : deliver'[b] # "none" => deliver[b] # "none"

Proceeds ==
    \A b \in Attempt :
        /\ send[b] # "idle" => request'[b] = request[b] /\ machine'[b] = machine[b]
        /\ Begun(b) => Begun(b)'
        /\ send'[b] = "exchange" => deliver'[b] # "none"

(* What every step does to the sender's records.                           *)
LEMMA SenderStep ==
    ASSUME IInv, SentInv, [Next]_vars
    PROVE  Proceeds /\ (WritesNothing \/ \E a \in Attempt : WritesFor(a))
  <1> DEFINE Goal == Proceeds /\ (WritesNothing \/ \E a \in Attempt : WritesFor(a))
  <1> USE HandoffAssumption
  <1> USE DEF senderVars, receiverVars, paneVars
  <1>t. TypeOK
    BY DEF IInv
  <1>e. \A b \in Attempt : send[b] = "exchange" => deliver[b] # "none"
    BY DEF SentInv
  <1>q. ASSUME UNCHANGED senderVars,
               \A b \in Attempt : deliver'[b] = "none" <=> deliver[b] = "none"
        PROVE  Goal
    BY <1>q, <1>e DEF Proceeds, WritesNothing, Begun
  <1>r. ASSUME NEW a \in Attempt, NEW phase \in {"lock", "stage", "scan", "submit",
                                                 "done", "crashed"},
               UNCHANGED senderVars, deliver[a] # "none",
               deliver' = [deliver EXCEPT ![a] = phase]
        PROVE  Goal
    BY <1>r, <1>t, <1>q DEF TypeOK
  <1>w. ASSUME NEW a \in Attempt, UNCHANGED senderVars, deliver[a] # "none",
               withdraw(a) \/ \E response \in Answers : respond(a, response)
        PROVE  Goal
    BY <1>w, <1>r DEF withdraw, respond
  <1>f. ASSUME NEW a \in Attempt, NEW status \in SentStatus, send[a] = "exchange",
               finish_report(a, status)
        PROVE  Goal
    <2>1. Proceeds
      BY <1>f, <1>t, <1>e DEF finish_report, Proceeds, Begun, TypeOK
    <2>2. CASE UNCHANGED sent
      BY <1>f, <2>1, <2>2 DEF finish_report, WritesNothing
    <2>3. CASE write_sent(machine[a], request[a].id,
                          [fingerprint |-> Fp(a), status |-> status])
      <3>1. Begun(a)'
        BY <1>f, <2>1 DEF Proceeds, Begun
      <3>2. WritesFor(a)
        BY <1>f, <1>e, <2>3, <3>1 DEF finish_report, WritesFor
      <3> QED
        BY <2>1, <3>2
    <2> QED
      BY <1>f, <2>2, <2>3 DEF finish_report, maybe_write_sent
  <1>1. ASSUME NEW a \in Attempt, Invoke(a) PROVE Goal
    <2>1. send[a] = "idle" /\ UNCHANGED <<sent, deliver>>
      BY <1>1 DEF Invoke
    <2>2. \A b \in Attempt \ {a} :
              send'[b] = send[b] /\ request'[b] = request[b] /\ machine'[b] = machine[b]
      BY <1>1, <1>t DEF Invoke, TypeOK
    <2>3. send'[a] = "audit"
      BY <1>1, <1>t DEF Invoke, TypeOK
    <2> QED
      BY <2>1, <2>2, <2>3, <1>e DEF Proceeds, WritesNothing, Begun
  <1>2. ASSUME NEW a \in Attempt, BeginSend(a) PROVE Goal
    <2>1. /\ send[a] = "audit" /\ send'[a] = "exchange" /\ deliver'[a] # "none"
          /\ \A b \in Attempt \ {a} : send'[b] = send[b] /\ deliver'[b] = deliver[b]
          /\ UNCHANGED <<request, machine>>
      BY <1>2, <1>t DEF BeginSend, TypeOK
    <2>2. Proceeds
      BY <2>1, <1>e DEF Proceeds, Begun
    <2>3. /\ write_sent(machine[a], request[a].id,
                        [fingerprint |-> Fp(a), status |-> "sending"])
          /\ ~conflicting_prior(machine[a], request[a])
      BY <1>2 DEF BeginSend
    <2>4. Begun(a)'
      BY <2>1 DEF Begun
    <2>5. "sending" \in SentStatus
      BY DEF SentStatus
    <2>6. WritesFor(a)
      BY <2>1, <2>3, <2>4, <2>5 DEF WritesFor
    <2> QED
      BY <2>2, <2>6
  <1>3. ASSUME NEW a \in Attempt, AbandonSend(a) PROVE Goal
    <2>1. /\ send[a] = "audit" /\ send'[a] = "done"
          /\ \A b \in Attempt \ {a} : send'[b] = send[b]
          /\ UNCHANGED <<request, machine, deliver>>
      BY <1>3, <1>t DEF AbandonSend, TypeOK
    <2>2. Proceeds
      BY <2>1, <1>e DEF Proceeds, Begun
    <2>3. CASE UNCHANGED sent
      BY <2>1, <2>2, <2>3 DEF WritesNothing
    <2>4. CASE ~UNCHANGED sent
      <3>1. /\ write_sent(machine[a], request[a].id,
                          [fingerprint |-> Fp(a), status |-> "sending"])
            /\ ~conflicting_prior(machine[a], request[a])
        BY <1>3, <2>4 DEF AbandonSend, maybe_write_sent
      <3>2. Begun(a)' /\ "sending" \in SentStatus
        BY <2>1 DEF Begun, SentStatus
      <3>3. WritesFor(a)
        BY <2>1, <3>1, <3>2 DEF WritesFor
      <3> QED
        BY <2>2, <3>3
    <2> QED
      BY <2>3, <2>4
  <1>4. ASSUME NEW a \in Attempt, ReceiveAnswer(a) PROVE Goal
    <2>1. answer[a] \in Answers
      BY <1>4, <1>t DEF ReceiveAnswer, IInv, Phases, TypeOK
    <2>2. classify(answer[a]) \in SentStatus
      BY <2>1, ClassifyType
    <2> QED
      BY <1>4, <1>f, <2>2 DEF ReceiveAnswer
  <1>5. ASSUME NEW a \in Attempt, GiveUp(a) PROVE Goal
    <2>1. "unconfirmed" \in SentStatus
      BY DEF SentStatus
    <2> QED
      BY <1>5, <1>f, <2>1 DEF GiveUp
  <1>6. ASSUME NEW a \in Attempt, CrashSender(a) PROVE Goal
    <2>1. /\ send[a] = "exchange" /\ send'[a] = "crashed"
          /\ \A b \in Attempt \ {a} : send'[b] = send[b]
          /\ \A b \in Attempt : deliver'[b] = "none" <=> deliver[b] = "none"
          /\ UNCHANGED <<request, machine, sent>>
      BY <1>6, <1>t DEF CrashSender, TypeOK, Delivering
    <2> QED
      BY <2>1, <1>e DEF Proceeds, WritesNothing, Begun
  <1>7. ASSUME NEW a \in Attempt, Serve(a) \/ ClaimId(a) \/ Stage(a) \/ ScanAndSubmit(a)
                                  \/ CrashReceiver(a)
        PROVE  Goal
    BY <1>7, <1>r DEF Serve, ClaimId, Stage, ScanAndSubmit, CrashReceiver, Delivering
  <1>8. ASSUME NEW a \in Attempt, FailStage(a) \/ RefuseTarget(a) \/ RefusedByTmux(a)
        PROVE  Goal
    BY <1>8, <1>w DEF FailStage, RefuseTarget, RefusedByTmux, withdraw
  <1>9. ASSUME NEW a \in Attempt,
               ServeUnsupported(a) \/ FailClaim(a) \/ ConfirmDelivery(a)
               \/ LoseConfirmation(a) \/ AnswerFromClaim(a)
        PROVE  Goal
    <2>1. /\ UNCHANGED senderVars /\ deliver[a] # "none"
          /\ deliver' = [deliver EXCEPT ![a] = "done"]
      BY <1>9 DEF ServeUnsupported, FailClaim, ConfirmDelivery, LoseConfirmation,
                  AnswerFromClaim, respond
    <2> QED
      BY <2>1, <1>r
  <1>10. ASSUME NEW a \in Attempt, TmuxPaste(a) PROVE Goal
    BY <1>10, <1>q DEF TmuxPaste
  <1>11. ASSUME Environment \/ UNCHANGED vars PROVE Goal
    BY <1>11, <1>q
    DEF Environment, AgentMoves, AgentRestarts, PaneRecreated, ToggleMode,
        NewTarget, vars
  <1> QED
    BY <1>1, <1>2, <1>3, <1>4, <1>5, <1>6, <1>7, <1>8, <1>9, <1>10, <1>11
    DEF Next, Sender, Receiver, ReceiverFailure

(* A machine never forgets that it sent for an ID.                         *)
LEMMA SentForGrows ==
    ASSUME TypeOK, TypeOK', Requested, Requested', Proceeds, NEW m \in Machine
    PROVE  /\ SentFor(m) \subseteq SentFor(m)'
           /\ IsFiniteSet(SentFor(m)) /\ IsFiniteSet(SentFor(m)')
           /\ Cardinality(SentFor(m)) \in Nat /\ Cardinality(SentFor(m)') \in Nat
           /\ Cardinality(SentFor(m)) <= Cardinality(SentFor(m)')
  <1>1. SentFor(m) \subseteq Id /\ SentFor(m)' \subseteq Id
    BY DEF SentFor, Requested, HandoffRequest
  <1>2. SentFor(m) \subseteq SentFor(m)'
    BY DEF SentFor, Proceeds, Begun
  <1>3. IsFiniteSet(SentFor(m)) /\ IsFiniteSet(SentFor(m)')
    BY <1>1, IdAssumption, FS_Subset
  <1> QED
    BY <1>2, <1>3, FS_Subset, FS_CardinalityType

(* A write keeps every other record when all of them fit.                  *)
LEMMA WriteKeepsAll ==
    ASSUME TypeOK, NEW m \in Machine, NEW i \in Id, NEW record \in SentRecord,
           NEW S, IsFiniteSet(S), Cardinality(S) <= SentLimit, i \in S,
           \A j \in Id : sent[m][j] # None => j \in S,
           write_sent(m, i, record)
    PROVE  /\ sent'[m][i] = record
           /\ \A n \in Machine, j \in Id :
                  (n # m \/ j # i) => sent'[n][j] = sent[n][j]
  <1> DEFINE others == {j \in Id \ {i} : sent[m][j] # None}
  <1>1. PICK kept \in SUBSET others :
            /\ kept = others \/ Cardinality(kept) = SentLimit - 1
            /\ Cardinality(kept) < SentLimit
            /\ sent' = [sent EXCEPT ![m] =
                   [j \in Id |-> IF j = i THEN record
                                 ELSE IF j \in kept THEN sent[m][j] ELSE None]]
    BY DEF write_sent
  <1>2. /\ IsFiniteSet(S \ {i}) /\ Cardinality(S \ {i}) = Cardinality(S) - 1
        /\ Cardinality(S) \in Nat
    BY FS_RemoveElement, FS_CardinalityType
  <1>3. others \in SUBSET (S \ {i})
    OBVIOUS
  <1>4. /\ IsFiniteSet(others) /\ Cardinality(others) \in Nat
        /\ Cardinality(others) <= Cardinality(S) - 1
    BY <1>2, <1>3, FS_Subset, FS_CardinalityType
  <1>5. /\ Cardinality(kept) <= Cardinality(others) /\ Cardinality(kept) \in Nat
        /\ Cardinality(others) = Cardinality(kept) => others = kept
    BY <1>4, FS_Subset, FS_CardinalityType
  <1>6. SentLimit \in Nat
    BY HandoffAssumption
  <1>7. kept = others
    <2> HIDE DEF others
    <2>1. Cardinality(kept) = SentLimit - 1 => Cardinality(others) = Cardinality(kept)
      BY <1>2, <1>4, <1>5, <1>6
    <2> QED
      BY <1>1, <1>5, <2>1
  <1>8. \A j \in Id \ {i} : (IF j \in kept THEN sent[m][j] ELSE None) = sent[m][j]
    BY <1>7
  <1>9. sent \in [Machine -> [Id -> SentRecord \cup {None}]]
    BY DEF TypeOK
  <1> HIDE DEF others
  <1>10. sent'[m] = [j \in Id |-> IF j = i THEN record
                                  ELSE IF j \in kept THEN sent[m][j] ELSE None]
         /\ \A n \in Machine \ {m} : sent'[n] = sent[n]
    BY <1>1, <1>9
  <1> QED
    BY <1>8, <1>10

(* The record of an exchange stays while the records fit.                  *)
LEMMA SentInvStep ==
    ASSUME IInv, IInv', SentInv, [Next]_vars
    PROVE  SentInv'
  <1>0. /\ TypeOK /\ TypeOK' /\ Requested /\ Requested'
        /\ Proceeds /\ (WritesNothing \/ \E a \in Attempt : WritesFor(a))
    BY SenderStep DEF IInv
  <1>1. \A a \in Attempt : send'[a] = "exchange" => deliver'[a] # "none"
    BY <1>0 DEF Proceeds
  <1>2. \A m \in Machine :
            /\ SentFor(m) \subseteq SentFor(m)'
            /\ IsFiniteSet(SentFor(m)')
            /\ Cardinality(SentFor(m)') <= SentLimit
                   => Cardinality(SentFor(m)) <= SentLimit
    BY <1>0, SentForGrows, HandoffAssumption
  <1>b. ASSUME NEW b \in Attempt, deliver[b] # "none"
        PROVE  /\ machine'[b] = machine[b] /\ request'[b] = request[b] /\ Fp(b)' = Fp(b)
               /\ request[b].id \in Id
    <2>1. send[b] # "idle"
      BY <1>0, <1>b DEF Requested
    <2> QED
      BY <1>0, <2>1 DEF Proceeds, Fp, Requested, HandoffRequest
  <1>3. CASE WritesNothing
    <2>1. \A m \in Machine, i \in Id : sent'[m][i] # None => i \in SentFor(m)'
      BY <1>2, <1>3 DEF WritesNothing, SentInv
    <2>2. ASSUME NEW m \in Machine, Cardinality(SentFor(m)') <= SentLimit
          PROVE  Recorded(m)'
      <3>1. Recorded(m)
        BY <1>2, <2>2 DEF SentInv
      <3> QED
        BY <1>3, <1>b, <3>1 DEF Recorded, WritesNothing
    <2> QED
      BY <1>1, <2>1, <2>2 DEF SentInv
  <1>4. ASSUME NEW a \in Attempt, WritesFor(a) PROVE SentInv'
    <2>m. PICK m \in Machine, i \in Id : m = machine[a] /\ i = request[a].id
      BY <1>0, <1>4 DEF WritesFor, TypeOK, Requested, HandoffRequest
    <2>1. PICK status \in SentStatus :
              /\ send[a] # "idle" /\ Begun(a)'
              /\ write_sent(m, i, [fingerprint |-> Fp(a), status |-> status])
              /\ deliver[a] # "none" \/ ~conflicting_prior(m, request[a])
              /\ \A b \in Attempt \ {a} : deliver'[b] # "none" => deliver[b] # "none"
      BY <1>4, <2>m DEF WritesFor
    <2> DEFINE record == [fingerprint |-> Fp(a), status |-> status]
    <2>2. /\ m \in Machine /\ i \in Id /\ Fp(a) \in HandoffRequest
          /\ machine'[a] = m /\ request'[a] = request[a] /\ Fp(a)' = Fp(a)
      BY <1>0, <2>m, <2>1, FingerprintType DEF Requested, Proceeds, Fp
    <2>3. record \in SentRecord /\ record.fingerprint = Fp(a) /\ record # None
      BY <2>2, HandoffAssumption DEF SentRecord
    <2>4. i \in SentFor(m)'
      BY <2>m, <2>1, <2>2 DEF SentFor, Begun
    <2> HIDE DEF record
    <2>5. write_sent(m, i, record)
      BY <2>1 DEF record
    <2>6. ASSUME NEW n \in Machine, NEW j \in Id, sent'[n][j] # None
          PROVE  j \in SentFor(n)'
      <3>1. (n = m /\ j = i) \/ sent[n][j] # None
        BY <1>0, <2>2, <2>3, <2>5, <2>6, WriteSentEffect
      <3> QED
        BY <1>2, <2>4, <3>1 DEF SentInv
    <2>7. ASSUME NEW n \in Machine, Cardinality(SentFor(n)') <= SentLimit
          PROVE  Recorded(n)'
      <3>1. Recorded(n)
        BY <1>2, <2>7 DEF SentInv
      <3>2. n = m => sent'[m][i] = record
        <4>1. \A j \in Id : sent[m][j] # None => j \in SentFor(m)'
          BY <1>2, <2>2 DEF SentInv
        <4> QED
          BY <1>0, <1>2, <2>2, <2>3, <2>4, <2>5, <2>7, <4>1, WriteKeepsAll
      <3>3. \A j \in Id : (n # m \/ j # i) => sent'[n][j] = sent[n][j]
        <4>1. CASE n # m
          BY <2>2, <2>5, <4>1, <1>0 DEF write_sent, TypeOK
        <4>2. CASE n = m
          <5>1. \A j \in Id : sent[m][j] # None => j \in SentFor(m)'
            BY <1>2, <2>2 DEF SentInv
          <5> QED
            BY <1>0, <1>2, <2>2, <2>3, <2>4, <2>5, <2>7, <4>2, <5>1, WriteKeepsAll
        <4> QED
          BY <4>1, <4>2
      <3>4. ASSUME NEW b \in Attempt, machine'[b] = n, deliver'[b] # "none"
            PROVE  /\ sent'[n][request'[b].id] # None
                   /\ sent'[n][request'[b].id].fingerprint = Fp(b)'
        <4>1. CASE b = a
          BY <2>m, <2>2, <2>3, <3>2, <3>4, <4>1
        <4>2. CASE b # a
          <5>1. deliver[b] # "none"
            BY <2>1, <3>4, <4>2
          <5>2. /\ machine[b] = n /\ request'[b] = request[b] /\ Fp(b)' = Fp(b)
                /\ request[b].id \in Id
            BY <1>b, <3>4, <5>1
          <5>3. /\ sent[n][request[b].id] # None
                /\ sent[n][request[b].id].fingerprint = Fp(b)
            BY <3>1, <5>1, <5>2 DEF Recorded
          <5>4. CASE n # m \/ request[b].id # i
            BY <3>3, <5>2, <5>3, <5>4
          <5>5. CASE n = m /\ request[b].id = i
            <6>1. Fp(a) = Fp(b)
              <7>1. CASE deliver[a] # "none"
                BY <2>m, <3>1, <5>3, <5>5, <7>1 DEF Recorded
              <7>2. CASE ~conflicting_prior(m, request[a])
                BY <2>m, <5>3, <5>5, <7>2 DEF conflicting_prior, Fp
              <7> QED
                BY <2>1, <7>1, <7>2
            <6> QED
              BY <2>3, <3>2, <5>2, <5>5, <6>1
          <5> QED
            BY <5>4, <5>5
        <4> QED
          BY <4>1, <4>2
      <3> QED
        BY <3>4 DEF Recorded
    <2> QED
      BY <1>1, <2>6, <2>7 DEF SentInv
  <1> QED
    BY <1>0, <1>3, <1>4

(* The IDs a machine sent for stay bound to their messages as long as its  *)
(* records fit, however many attempts there are.                           *)
THEOREM SenderBinds == Spec => []SenderBindsId
  <1>1. Init => SentInv
    BY HandoffAssumption DEF Init, SentInv, Recorded
  <1>2. IInv /\ IInv' /\ SentInv /\ [Next]_vars => SentInv'
    BY SentInvStep
  <1>3. SentInv => SenderBindsId
    BY DEF SentInv, Recorded, SenderBindsId
  <1> QED
    BY <1>1, <1>2, <1>3, Invariance, PTL DEF Spec

-----------------------------------------------------------------------------
(* Handoff implements HandoffPromise.                                      *)

handedBar == {Handing(a) : a \in {b \in Attempt : Handed(b)}}
pastedBar == {Handing(p.by) : p \in transcript}
confirmedBar ==
    {<<request[a].id, Fp(a)>> : a \in {b \in Attempt :
                              answer[b] \in {"delivered", "duplicate"}}}
closedBar ==
    {request[a].id : a \in {b \in Attempt : answer[b] = "uncertain"}}

Confirmed(a) == answer[a] \in {"delivered", "duplicate"}

(* The first state is one of the promise.                                  *)
LEMMA InitMapped == Init => Promise!Init
  <1> SUFFICES ASSUME Init PROVE Promise!Init
    OBVIOUS
  <1>1. None \notin {"delivered", "duplicate", "uncertain"}
    BY HandoffAssumption DEF Answers
  <1> QED
    BY <1>1 DEF Init, Promise!Init

(* Every step of Handoff is a step of HandoffPromise or changes nothing    *)
(* that it speaks of.                                                      *)
LEMMA StepMapped ==
    ASSUME IInv, TypeOK', PhaseFacts, [Next]_vars
    PROVE  [Promise!Next]_(Promise!vars)
  <1> DEFINE Goal == [Promise!Next]_(Promise!vars)
  <1> USE HandoffAssumption
  <1> USE DEF senderVars, receiverVars, paneVars
  <1>i. ASSUME NEW b \in Attempt, deliver[b] # "none" \/ tmux[b] # "none"
        PROVE  /\ request[b] \in HandoffRequest
               /\ request[b].id \in Id
               /\ request'[b] = request[b]
               /\ Fp(b)' = Fp(b)
               /\ Handing(b)' = Handing(b)
               /\ Handing(b) \in [by : Attempt, id : Id, message : HandoffRequest]
    <2>1. send[b] # "idle"
      BY <1>i DEF IInv, Phases, Requested
    <2>2. request[b] \in HandoffRequest /\ request'[b] = request[b]
      BY <2>1 DEF IInv, Requested, PhaseFacts
    <2>3. request[b].id \in Id /\ Fp(b) \in HandoffRequest
      BY <2>2, FingerprintType DEF Fp
    <2> QED
      BY <2>2, <2>3 DEF Fp, Handing
  <1>n. ASSUME NEW b \in Attempt, answer[b] \in Answers
        PROVE  deliver[b] # "none"
    BY <1>n DEF IInv, Phases
  <1>p. \A p \in transcript : p.by \in Attempt /\ tmux[p.by] = "submitted"
    BY DEF IInv, TypeOK, Paste, TranscriptIsTmux
  <1>b. Promise!vars = <<handedBar, pastedBar, confirmedBar, closedBar>>
    BY DEF Promise!vars, handedBar, pastedBar, confirmedBar, closedBar, Handed
  (* Every step of the promise is a step of its next-state relation.       *)
  <1>x. ASSUME NEW h \in [by : Attempt, id : Id, message : HandoffRequest],
               \/ Promise!Hand(h)
               \/ Promise!Refuse(h)
               \/ Promise!Paste(h)
               \/ Promise!Confirm(h)
        PROVE  Goal
    <2>1. h \in Promise!Handing
      BY DEF Promise!Handing
    <2>2. Promise!Next
      BY <1>x, <2>1, Zenon DEF Promise!Next
    <2> QED
      BY <2>2
  <1>y. ASSUME NEW i \in Id, Promise!Close(i) PROVE Goal
    <2>1. Promise!Next
      BY <1>y, Zenon DEF Promise!Next
    <2> QED
      BY <2>1
  (* Each of the four mapped variables, under what it depends on.          *)
  <1>h. ASSUME \A b \in Attempt : Handed(b)' <=> Handed(b)
        PROVE  handedBar' = handedBar
    <2>1. \A b \in Attempt : Handed(b) => Handing(b)' = Handing(b)
      BY <1>i DEF Handed
    <2> QED
      BY <2>1, <1>h DEF handedBar
  <1>t. ASSUME UNCHANGED transcript
        PROVE  pastedBar' = pastedBar
    <2>1. \A p \in transcript : Handing(p.by)' = Handing(p.by)
      BY <1>p, <1>i, <1>t
    <2> QED
      BY <2>1, <1>t DEF pastedBar, Handing
  <1>c. ASSUME \A b \in Attempt : Confirmed(b)' <=> Confirmed(b)
        PROVE  confirmedBar' = confirmedBar
    <2>1. \A b \in Attempt : Confirmed(b) =>
              request'[b] = request[b] /\ Fp(b)' = Fp(b)
      BY <1>i, <1>n DEF Confirmed, Answers
    <2> QED
      BY <2>1, <1>c DEF confirmedBar, Confirmed
  <1>u. ASSUME \A b \in Attempt :
                   answer'[b] = "uncertain" <=> answer[b] = "uncertain"
        PROVE  closedBar' = closedBar
    <2>1. \A b \in Attempt : answer[b] = "uncertain" => request'[b] = request[b]
      BY <1>i, <1>n DEF Answers
    <2> QED
      BY <2>1, <1>u DEF closedBar
  <1>k. ASSUME UNCHANGED <<tmux, transcript>>,
               \A b \in Attempt :
                   /\ Confirmed(b)' <=> Confirmed(b)
                   /\ answer'[b] = "uncertain" <=> answer[b] = "uncertain"
        PROVE  Goal
    <2>1. handedBar' = handedBar
      BY <1>k, <1>h DEF Handed
    <2>2. pastedBar' = pastedBar
      BY <1>k, <1>t
    <2>3. confirmedBar' = confirmedBar /\ closedBar' = closedBar
      BY <1>k, <1>c, <1>u
    <2> QED
      BY <1>b, <2>1, <2>2, <2>3
      DEF Promise!vars, handedBar, pastedBar, confirmedBar, closedBar, Handed
  <1>f. ASSUME NEW a \in Attempt, deliver[a] \in {"lock", "submit"},
               NEW x \in {"delivered", "duplicate"}, respond(a, x),
               Typed(Fp(a)), UNCHANGED <<tmux, transcript>>
        PROVE  Goal
    <2>0. PICK b \in Attempt : tmux[b] = "submitted" /\ Fp(b) = Fp(a)
      BY <1>f DEF Typed
    <2>1. PICK p \in transcript : p.by = b
      BY <2>0 DEF IInv, TranscriptIsTmux
    <2>2. Handing(b) \in pastedBar
      BY <2>1 DEF pastedBar
    <2>3. Handing(b).id = request[a].id /\ Handing(b).message = Fp(a)
      BY <2>0, <1>f, <1>i, FingerprintType DEF Handing, Fp
    <2>4. /\ handedBar' = handedBar
          /\ pastedBar' = pastedBar
          /\ closedBar' = closedBar
      <3>1. \A c \in Attempt :
                answer'[c] = "uncertain" <=> answer[c] = "uncertain"
        BY <1>f DEF respond, IInv, TypeOK, Phases, Answers
      <3> QED
        BY <3>1, <1>f, <1>h, <1>t, <1>u DEF Handed
    <2>5. confirmedBar' = confirmedBar \cup {<<request[a].id, Fp(a)>>}
      <3>1. \A c \in Attempt : Confirmed(c)' <=> c = a \/ Confirmed(c)
        BY <1>f DEF respond, IInv, TypeOK, Confirmed
      <3>2. \A c \in Attempt : Confirmed(c) \/ c = a =>
                request'[c] = request[c] /\ Fp(c)' = Fp(c)
        BY <1>f, <1>i, <1>n DEF Confirmed, Answers
      <3> QED
        BY <3>1, <3>2 DEF confirmedBar, Confirmed
    <2>6. PICK h \in [by : Attempt, id : Id, message : HandoffRequest] :
              h = Handing(b)
      BY <2>0, <1>i
    <2>7. Promise!Confirm(h)
      BY <2>2, <2>3, <2>4, <2>5, <2>6
      DEF Promise!Confirm, handedBar, pastedBar, confirmedBar, closedBar,
          Handed
    <2> QED
      BY <2>7, <1>x
  <1>g. ASSUME NEW a \in Attempt, deliver[a] \in {"lock", "submit"},
               respond(a, "uncertain"), UNCHANGED <<tmux, transcript>>
        PROVE  Goal
    <2>1. /\ handedBar' = handedBar
          /\ pastedBar' = pastedBar
          /\ confirmedBar' = confirmedBar
      <3>1. \A c \in Attempt : Confirmed(c)' <=> Confirmed(c)
        BY <1>g DEF respond, IInv, TypeOK, Phases, Answers, Confirmed
      <3> QED
        BY <3>1, <1>g, <1>h, <1>t, <1>c DEF Handed
    <2>2. closedBar' = closedBar \cup {request[a].id}
      <3>1. \A c \in Attempt :
                answer'[c] = "uncertain" <=> c = a \/ answer[c] = "uncertain"
        BY <1>g DEF respond, IInv, TypeOK
      <3>2. \A c \in Attempt : answer[c] = "uncertain" \/ c = a =>
                request'[c] = request[c]
        BY <1>g, <1>i, <1>n DEF Answers
      <3> QED
        BY <3>1, <3>2 DEF closedBar
    <2>3. PICK i \in Id : i = request[a].id
      BY <1>g, <1>i
    <2>4. Promise!Close(i)
      BY <2>1, <2>2, <2>3
      DEF Promise!Close, handedBar, pastedBar, confirmedBar, closedBar, Handed
    <2> QED
      BY <2>4, <1>y
  <1>1. ASSUME NEW a \in Attempt, Invoke(a) PROVE Goal
    BY <1>1, <1>k
    DEF Invoke, IInv, TypeOK, Phases, Answers, Confirmed
  <1>2. ASSUME NEW a \in Attempt, BeginSend(a) PROVE Goal
    BY <1>2, <1>k
    DEF BeginSend, IInv, TypeOK, Phases, Answers, Confirmed
  <1>3. ASSUME NEW a \in Attempt, AbandonSend(a) PROVE Goal
    BY <1>3, <1>k
    DEF AbandonSend, IInv, TypeOK, Phases, Answers, Confirmed
  <1>4. ASSUME NEW a \in Attempt, ReceiveAnswer(a) PROVE Goal
    BY <1>4, <1>k
    DEF ReceiveAnswer, finish_report, IInv, TypeOK, Phases, Answers, Confirmed
  <1>5. ASSUME NEW a \in Attempt, GiveUp(a) PROVE Goal
    BY <1>5, <1>k
    DEF GiveUp, finish_report, IInv, TypeOK, Phases, Answers, Confirmed
  <1>6. ASSUME NEW a \in Attempt, CrashSender(a) PROVE Goal
    BY <1>6, <1>k
    DEF CrashSender, IInv, TypeOK, Phases, Answers, Confirmed
  <1>7. ASSUME NEW a \in Attempt, Serve(a) PROVE Goal
    BY <1>7, <1>k
    DEF Serve, IInv, TypeOK, Phases, Answers, Confirmed
  <1>8. ASSUME NEW a \in Attempt, ServeUnsupported(a) PROVE Goal
    BY <1>8, <1>k
    DEF ServeUnsupported, respond, IInv, TypeOK, Phases, Answers, Confirmed
  <1>9. ASSUME NEW a \in Attempt, ClaimId(a) PROVE Goal
    BY <1>9, <1>k
    DEF ClaimId, IInv, TypeOK, Phases, Answers, Confirmed
  <1>10. ASSUME NEW a \in Attempt, FailClaim(a) PROVE Goal
    BY <1>10, <1>k
    DEF FailClaim, respond, IInv, TypeOK, Phases, Answers, Confirmed
  <1>11. ASSUME NEW a \in Attempt, Stage(a) PROVE Goal
    BY <1>11, <1>k
    DEF Stage, IInv, TypeOK, Phases, Answers, Confirmed
  <1>12. ASSUME NEW a \in Attempt, FailStage(a) PROVE Goal
    BY <1>12, <1>k
    DEF FailStage, withdraw, respond, IInv, TypeOK, Phases, Answers, Confirmed
  <1>13. ASSUME NEW a \in Attempt, RefuseTarget(a) PROVE Goal
    BY <1>13, <1>k
    DEF RefuseTarget, withdraw, respond, IInv, TypeOK, Phases, Answers, Confirmed
  <1>14. ASSUME NEW a \in Attempt, RefusedByTmux(a) PROVE Goal
    BY <1>14, <1>k
    DEF RefusedByTmux, withdraw, respond, IInv, TypeOK, Phases, Answers, Confirmed
  <1>15. ASSUME NEW a \in Attempt, CrashReceiver(a) PROVE Goal
    BY <1>15, <1>k
    DEF CrashReceiver, IInv, TypeOK, Phases, Answers, Confirmed
  <1>16. ASSUME NEW a \in Attempt, AnswerFromClaim(a) PROVE Goal
    <2> DEFINE prior == claims[request[a].id]
    <2>1. /\ deliver[a] = "lock" /\ prior # None
          /\ UNCHANGED <<tmux, transcript>>
      BY <1>16 DEF AnswerFromClaim
    <2>2. request[a].id \in Id
      BY <2>1, <1>i
    <2>3. CASE prior.fingerprint # Fp(a)
      <3>1. respond(a, "rejected")
        BY <1>16, <2>3 DEF AnswerFromClaim
      <3> QED
        BY <2>1, <3>1, <1>k
        DEF respond, IInv, TypeOK, Phases, Answers, Confirmed
    <2>4. CASE prior.fingerprint = Fp(a) /\ prior.state = "Delivered"
      <3>1. respond(a, "duplicate")
        BY <1>16, <2>4 DEF AnswerFromClaim
      <3>2. Typed(Fp(a))
        BY <2>1, <2>2, <2>4 DEF IInv, DeliveredWasTyped
      <3> QED
        BY <2>1, <3>1, <3>2, <1>f
    <2>5. CASE prior.fingerprint = Fp(a) /\ prior.state # "Delivered"
      <3>1. respond(a, "uncertain")
        BY <1>16, <2>5 DEF AnswerFromClaim
      <3> QED
        BY <2>1, <3>1, <1>g
    <2> QED
      BY <2>3, <2>4, <2>5
  <1>17. ASSUME NEW a \in Attempt, ScanAndSubmit(a) PROVE Goal
    <2>0. /\ deliver[a] = "scan" /\ tmux[a] = "none" /\ ~Handed(a)
          /\ UNCHANGED <<answer, transcript>>
          /\ tmux' = [tmux EXCEPT ![a] = "queued"]
      BY <1>17 DEF ScanAndSubmit, IInv, TypeOK, Phases, Handed
    <2>1. request[a].id \notin closedBar
      BY <2>0 DEF IInv, UncertainIsClaimed, closedBar, SameId, Delivering
    <2>2. \A other \in handedBar : other.id # request[a].id
      <3> SUFFICES ASSUME NEW b \in Attempt, Handed(b)
                   PROVE  request[b].id # request[a].id
        BY DEF handedBar, Handing
      <3> QED
        BY <2>0 DEF IInv, OneHanded, SameId, Delivering
    <2>3. handedBar' = handedBar \cup {Handing(a)}
      <3>1. \A b \in Attempt : Handed(b)' <=> b = a \/ Handed(b)
        BY <2>0 DEF IInv, TypeOK, Handed
      <3>2. \A b \in Attempt : b = a \/ Handed(b) => Handing(b)' = Handing(b)
        BY <2>0, <1>i DEF Handed
      <3> QED
        BY <3>1, <3>2 DEF handedBar
    <2>4. /\ pastedBar' = pastedBar
          /\ confirmedBar' = confirmedBar
          /\ closedBar' = closedBar
      BY <2>0, <1>t, <1>c, <1>u DEF Confirmed
    <2>5. Handing(a).id = request[a].id
      BY DEF Handing
    <2>6. PICK h \in [by : Attempt, id : Id, message : HandoffRequest] :
              h = Handing(a)
      BY <2>0, <1>i
    <2>7. Promise!Hand(h)
      BY <2>1, <2>2, <2>3, <2>4, <2>5, <2>6
      DEF Promise!Hand, handedBar, pastedBar, confirmedBar, closedBar, Handed
    <2> QED
      BY <2>7, <1>x
  <1>18. ASSUME NEW a \in Attempt, TmuxPaste(a) PROVE Goal
    <2>0. tmux[a] = "queued" /\ Handed(a) /\ UNCHANGED answer
      BY <1>18 DEF TmuxPaste, Handed
    <2>1. /\ Handing(a) \in [by : Attempt, id : Id, message : HandoffRequest]
          /\ Handing(a)' = Handing(a)
      BY <2>0, <1>i
    <2>2. PICK h \in [by : Attempt, id : Id, message : HandoffRequest] :
              h = Handing(a)
      BY <2>1
    <2>3. Handing(a) \in handedBar \ pastedBar
      <3>1. Handing(a) \in handedBar
        BY <2>0 DEF handedBar
      <3>2. \A p \in transcript : Handing(p.by) # Handing(a)
        BY <2>0, <1>p DEF Handing
      <3> QED
        BY <3>1, <3>2 DEF pastedBar
    <2>4. confirmedBar' = confirmedBar /\ closedBar' = closedBar
      BY <2>0, <1>c, <1>u DEF Confirmed
    <2>5. CASE paste_guard(request[a], target)
      <3> DEFINE new == [by |-> a, pane |-> target.pane, proc |-> target.proc,
                         mode |-> target.mode]
      <3>1. /\ transcript' = transcript \cup {new}
            /\ tmux' = [tmux EXCEPT ![a] = "submitted"]
        BY <1>18, <2>5 DEF TmuxPaste
      <3>2. new.by = a
        OBVIOUS
      <3> HIDE DEF new
      <3>3. handedBar' = handedBar
        BY <2>0, <3>1, <1>h DEF Handed, IInv, TypeOK
      <3>4. \A p \in transcript : Handing(p.by)' = Handing(p.by)
        BY <1>p, <1>i
      <3>5. pastedBar' = pastedBar \cup {Handing(a)}
        BY <3>1, <3>2, <3>4, <2>1 DEF pastedBar, Handing
      <3>6. Promise!Paste(h)
        BY <2>3, <2>4, <3>3, <3>5, <2>2
        DEF Promise!Paste, handedBar, pastedBar, confirmedBar, closedBar,
            Handed
      <3> QED
        BY <3>6, <1>x
    <2>6. CASE ~paste_guard(request[a], target)
      <3>1. UNCHANGED transcript /\ tmux' = [tmux EXCEPT ![a] = "refused"]
        BY <1>18, <2>6 DEF TmuxPaste
      <3>2. \A b \in Attempt : Handed(b)' <=> b # a /\ Handed(b)
        BY <3>1 DEF IInv, TypeOK, Handed
      <3>3. \A b \in Attempt : Handed(b) => Handing(b)' = Handing(b)
        BY <1>i DEF Handed
      <3>4. \A b \in Attempt : Handing(b) = Handing(a) => b = a
        BY DEF Handing
      <3>5. handedBar' = handedBar \ {Handing(a)}
        BY <3>2, <3>3, <3>4 DEF handedBar
      <3>6. pastedBar' = pastedBar
        BY <3>1, <1>t
      <3>7. Promise!Refuse(h)
        BY <2>3, <2>4, <3>5, <3>6, <2>2
        DEF Promise!Refuse, handedBar, pastedBar, confirmedBar, closedBar,
            Handed
      <3> QED
        BY <3>7, <1>x
    <2> QED
      BY <2>5, <2>6
  <1>19. ASSUME NEW a \in Attempt, ConfirmDelivery(a) PROVE Goal
    <2>1. Typed(Fp(a))
      BY <1>19 DEF ConfirmDelivery, Typed
    <2> QED
      BY <1>19, <2>1, <1>f DEF ConfirmDelivery
  <1>20. ASSUME NEW a \in Attempt, LoseConfirmation(a) PROVE Goal
    BY <1>20, <1>g DEF LoseConfirmation
  <1>21. ASSUME Environment \/ UNCHANGED vars PROVE Goal
    BY <1>21, <1>k
    DEF Environment, AgentMoves, AgentRestarts, PaneRecreated, ToggleMode,
        NewTarget, vars, Confirmed
  <1> QED
    BY <1>1, <1>2, <1>3, <1>4, <1>5, <1>6, <1>7, <1>8, <1>9, <1>10, <1>11,
       <1>12, <1>13, <1>14, <1>15, <1>16, <1>17, <1>18, <1>19, <1>20, <1>21
    DEF Next, Sender, Receiver, ReceiverFailure

(* Handoff implements what it promises: at most one paste of an ID, no     *)
(* false confirmation, and no new paste once the outcome is uncertain.     *)
THEOREM Implementation == Spec => KeepsPromise
  <1>1. Init => Promise!Init
    BY InitMapped
  <1>2. IInv /\ IInv' /\ [Next]_vars => [Promise!Next]_(Promise!vars)
    <2> SUFFICES ASSUME IInv, IInv', [Next]_vars
                 PROVE  [Promise!Next]_(Promise!vars)
      OBVIOUS
    <2>1. TypeOK'
      BY DEF IInv
    <2>2. PhaseFacts
      BY <2>1, PhaseStep
    <2> QED
      BY <2>1, <2>2, StepMapped
  <1> QED
    BY <1>1, <1>2, Invariance, PTL DEF Spec, KeepsPromise, Promise!Spec

=============================================================================
