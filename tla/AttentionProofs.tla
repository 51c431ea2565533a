-------------------------- MODULE AttentionProofs --------------------------
(***************************************************************************)
(* What the scanner makes of panes and the daemon of its records: the      *)
(* theorems of Attention, for every set of agents, outcomes and stamps,    *)
(* and those of Observation after them.                                    *)
(*                                                                         *)
(* Attention.  The records that circulate between the scanner, the daemon  *)
(* and the state file never carry a pending notice without a time stamp,   *)
(* which is what lets an acknowledgement be remembered by that stamp.  For *)
(* each agent the invariant relates what is published to what the last     *)
(* publication was made of, and both files to either.                      *)
(***************************************************************************)
EXTENDS Attention, Observation, TLAPS

(* A record whose pending notice, if any, is a stamped terminal outcome.   *)
StampedRecord ==
    {r \in AgentRecord :
        NoticePending(r) => r.goal.at \in Stamp /\ ~Pursuing(r)}

Record == StampedRecord \cup {None}

TypeInv ==
    /\ TypeOK
    /\ previous \in [Agent -> Record]
    /\ local \in [Agent -> Record]
    /\ stateFile \in [Agent -> Record]

(* A time stamp is positive.                                               *)
LEMMA StampsArePositive == \A t \in Stamp : t \in Nat /\ t > 0 /\ t # None
  BY AttentionAssumption

(* The clock always has a time that nothing kept of the agent holds.       *)
LEMMA NowIsStamp ==
    ASSUME TypeInv, NEW a \in Agent
    PROVE  now_ms(a) \in Stamp /\ now_ms(a) \notin StampsHeld(a)
  <1> DEFINE Held(s) == IF s \in Stamp THEN s ELSE 0
             v == Held(StampOf(previous[a]))
             w == Held(StampOf(local[a]))
             x == Held(StampOf(stateFile[a]))
             y == Held(acks[a].goal)
             z == Held(ackFile[a].goal)
  <1>1. PICK t \in Stamp : t \notin {v, w, x, y, z}
    <2>1. v \in Stamp \cup {0} /\ w \in Stamp \cup {0} /\ x \in Stamp \cup {0}
          /\ y \in Stamp \cup {0} /\ z \in Stamp \cup {0}
      OBVIOUS
    <2> HIDE DEF v, w, x, y, z
    <2> QED
      BY <2>1, AttentionAssumption
  <1>2. t \notin StampsHeld(a)
    BY <1>1 DEF StampsHeld
  <1> QED
    BY <1>1, <1>2 DEF now_ms

(* The goal lifecycle yields no goal or one whose notice is stamped.       *)
LEMMA GoalLifecycleType ==
    ASSUME NEW old \in Record, NEW state \in States, NEW now \in Stamp,
           NEW observed \in Outcome \cup {"pursuing", None}
    PROVE  LET goal == goal_lifecycle(old, state, observed, now)
           IN  /\ goal \in GoalInfo \cup {None}
               /\ (goal # None /\ goal.pending)
                      => goal.at \in Stamp /\ goal.outcome # "pursuing"
  <1> DEFINE prior == GoalOf(old)
  <1>1. /\ prior \in GoalInfo \cup {None}
        /\ (prior # None /\ prior.pending)
               => prior.at \in Stamp /\ prior.outcome # "pursuing"
    BY DEF Record, StampedRecord, AgentRecord, NoticePending, Pursuing, GoalOf
  <1>2. WasActive(old) \in BOOLEAN
    BY DEF WasActive
  <1>3. CASE observed = None
    BY <1>1, <1>2, <1>3 DEF goal_lifecycle, remembered_goal, GoalInfo
  <1>4. CASE observed = "pursuing"
    BY <1>4, AttentionAssumption DEF goal_lifecycle, GoalInfo
  <1>5. CASE observed \in Outcome
    BY <1>1, <1>2, <1>5, AttentionAssumption
    DEF goal_lifecycle, terminal_goal, GoalInfo
  <1> QED
    BY <1>3, <1>4, <1>5

(* What a scan makes of a record is a record.                              *)
LEMMA ScanRecordType ==
    ASSUME NEW old \in Record, NEW seen \in Observation \cup {None},
           NEW now \in Stamp
    PROVE  ScanRecord(old, seen, now) \in Record
  <1>1. CASE seen = None
    BY <1>1 DEF ScanRecord, Record
  <1>2. CASE seen # None
    <2> DEFINE goal == goal_lifecycle(old, seen.state, seen.goal, now)
    <2>1. /\ seen.state \in States
          /\ seen.visible \in BOOLEAN
          /\ seen.goal \in Outcome \cup {"pursuing", None}
      BY <1>2 DEF Observation
    <2>2. /\ goal \in GoalInfo \cup {None}
          /\ (goal # None /\ goal.pending)
                 => goal.at \in Stamp /\ goal.outcome # "pursuing"
      BY <2>1, GoalLifecycleType
    <2>3. next_seen(old, seen.state, seen.visible) \in BOOLEAN
      BY DEF next_seen
    <2> HIDE DEF goal
    <2>4. ScanRecord(old, seen, now)
              = [state |-> seen.state, visible |-> seen.visible,
                 seen |-> next_seen(old, seen.state, seen.visible),
                 goal |-> goal]
      BY <1>2 DEF ScanRecord, goal
    <2>5. ScanRecord(old, seen, now) \in AgentRecord
      BY <2>1, <2>2, <2>3, <2>4 DEF AgentRecord
    <2>6. NoticePending(ScanRecord(old, seen, now))
              => goal # None /\ goal.pending
      BY <2>4 DEF NoticePending, GoalOf
    <2> QED
      BY <2>2, <2>4, <2>5, <2>6 DEF Record, StampedRecord, Pursuing
  <1> QED
    BY <1>1, <1>2

(* A scan of every agent leaves records.                                   *)
LEMMA ScannedType ==
    ASSUME TypeInv, NEW old \in [Agent -> Record],
           NEW seen \in [Agent -> Observation \cup {None}]
    PROVE  Scanned(old, seen) \in [Agent -> Record]
  <1>1. \A a \in Agent : ScanRecord(old[a], seen[a], now_ms(a)) \in Record
    BY NowIsStamp, ScanRecordType
  <1> QED
    BY <1>1 DEF Scanned

(* What is kept of an acknowledgement is one.                              *)
LEMMA KeptAckType ==
    ASSUME NEW rec \in Record, NEW ack \in Acknowledgement
    PROVE  KeptAck(rec, ack) \in Acknowledgement
  BY DEF KeptAck, NoAcknowledgement, Acknowledgement

(* Clearing a notice leaves a well-formed goal without one.                *)
LEMMA WithoutNoticeType ==
    ASSUME NEW goal \in GoalInfo \cup {None}
    PROVE  /\ WithoutNotice(goal) \in GoalInfo \cup {None}
           /\ WithoutNotice(goal) = None \/ ~WithoutNotice(goal).pending
  BY DEF WithoutNotice, GoalInfo

(* An acknowledgement on a record leaves a record.                         *)
LEMMA OverlaidType ==
    ASSUME NEW rec \in Record, NEW ack \in Acknowledgement
    PROVE  Overlaid(rec, ack) \in Record
  <1>1. CASE rec = None
    BY <1>1 DEF Overlaid, Record
  <1>2. CASE rec # None
    <2> DEFINE kept == KeptAck(rec, ack)
               goal == IF SameGoal(rec, kept) THEN WithoutNotice(rec.goal)
                                                 ELSE rec.goal
               seen == rec.seen \/ (kept.completion /\ rec.state = "idle")
    <2>1. rec \in StampedRecord /\ rec.goal \in GoalInfo \cup {None}
      BY <1>2 DEF Record, StampedRecord, AgentRecord
    <2>2. goal \in GoalInfo \cup {None}
      BY <2>1, WithoutNoticeType
    <2>3. (goal # None /\ goal.pending) => goal = rec.goal
      BY <2>1, WithoutNoticeType
    <2>4. seen \in BOOLEAN
      BY <2>1 DEF StampedRecord, AgentRecord
    <2> HIDE DEF goal, seen
    <2>5. Overlaid(rec, ack) = [rec EXCEPT !.seen = seen, !.goal = goal]
      BY <1>2 DEF Overlaid, goal, seen
    <2>6. Overlaid(rec, ack) \in AgentRecord
      BY <2>1, <2>2, <2>4, <2>5 DEF StampedRecord, AgentRecord
    <2>7. Overlaid(rec, ack).goal = goal
      BY <2>1, <2>5 DEF StampedRecord, AgentRecord
    <2>8. NoticePending(Overlaid(rec, ack))
              => /\ NoticePending(rec)
                 /\ Overlaid(rec, ack).goal = rec.goal
      BY <1>2, <2>3, <2>7 DEF NoticePending, GoalOf
    <2> QED
      BY <2>1, <2>6, <2>8 DEF Record, StampedRecord, Pursuing
  <1> QED
    BY <1>1, <1>2

(* An acknowledged record is a record.                                     *)
LEMMA AcknowledgedType ==
    ASSUME NEW rec \in Record, NEW ack \in Acknowledgement, rec # None
    PROVE  /\ Acknowledged(rec) \in Record
           /\ Remembered(rec, ack) \in Acknowledgement
  <1>1. rec \in StampedRecord /\ rec.goal \in GoalInfo \cup {None}
    BY DEF Record, StampedRecord, AgentRecord
  <1>2. Acknowledged(rec) \in AgentRecord
    BY <1>1, WithoutNoticeType DEF Acknowledged, StampedRecord, AgentRecord
  <1>3. Acknowledged(rec).goal = WithoutNotice(rec.goal)
    BY <1>1 DEF Acknowledged, StampedRecord, AgentRecord
  <1>4. ~NoticePending(Acknowledged(rec))
    BY <1>1, <1>3, WithoutNoticeType DEF NoticePending, GoalOf
  <1>5. Remembered(rec, ack) \in Acknowledgement
    BY <1>1 DEF Remembered, Acknowledgement, StampedRecord, NoticePending
  <1> QED
    BY <1>2, <1>4, <1>5 DEF Record, StampedRecord

(* The invariant holds at first.                                           *)
LEMMA InitTypes == Init => TypeInv
  BY DEF Init, TypeInv, TypeOK, Record, NoAcknowledgement, Acknowledgement

(* Every action keeps the records stamped and well typed.                  *)
LEMMA StepTypes ==
    ASSUME TypeInv, [Next]_vars
    PROVE  TypeInv'
  <1> USE DEF TypeInv, TypeOK
  <1>0. Record \subseteq AgentRecord \cup {None}
    BY DEF Record, StampedRecord
  <1>1. \A a \in Agent : AppliedAcks[a] \in Acknowledgement
    BY KeptAckType DEF AppliedAcks
  <1>2. \A a \in Agent : AppliedRecords[a] \in Record
    BY OverlaidType DEF AppliedRecords
  <1>3. /\ AppliedAcks \in [Agent -> Acknowledgement]
        /\ AppliedRecords \in [Agent -> Record]
    BY <1>1, <1>2 DEF AppliedAcks, AppliedRecords
  <1>4. CASE Boot
    BY <1>0, <1>4, ScannedType DEF Boot
  <1>5. CASE Announce
    BY <1>0, <1>3, <1>5 DEF Announce
  <1>6. CASE Scan
    BY <1>0, <1>6, ScannedType DEF Scan
  <1>7. CASE PublishNothing
    BY <1>3, <1>7 DEF PublishNothing, save_acknowledgements, write_acknowledgements
  <1>8. CASE PublishLocal
    BY <1>0, <1>3, <1>8 DEF PublishLocal, save_acknowledgements, write_acknowledgements
  <1>9. CASE SaveState
    BY <1>0, <1>9 DEF SaveState
  <1>10. CASE mark_all_read
    <2>1. \A a \in acknowledgement_targets :
              /\ Acknowledged(local[a]) \in Record
              /\ Remembered(local[a], acks[a]) \in Acknowledgement
      BY AcknowledgedType DEF acknowledgement_targets
    <2>2. local' \in [Agent -> Record] /\ acks' \in [Agent -> Acknowledgement]
      BY <1>10, <2>1 DEF mark_all_read
    <2> QED
      BY <1>0, <1>10, <2>2 DEF mark_all_read, write_acknowledgements
  <1>11. ASSUME NEW a \in Agent, acknowledge(a) PROVE TypeInv'
    <2>1. /\ Acknowledged(local[a]) \in Record
          /\ Remembered(local[a], acks[a]) \in Acknowledgement
      BY <1>11, AcknowledgedType DEF acknowledge
    <2>2. local' \in [Agent -> Record] /\ acks' \in [Agent -> Acknowledgement]
      BY <1>11, <2>1 DEF acknowledge
    <2> QED
      BY <1>0, <1>11, <2>2 DEF acknowledge, write_acknowledgements
  <1>12. CASE Crash
    <2>1. None \in Record /\ NoAcknowledgement \in Acknowledgement
      BY DEF Record, NoAcknowledgement, Acknowledgement
    <2> QED
      BY <1>0, <1>12, <2>1 DEF Crash
  <1>13. CASE UNCHANGED vars
    BY <1>13 DEF vars
  <1> QED
    BY <1>4, <1>5, <1>6, <1>7, <1>8, <1>9, <1>10, <1>11, <1>12, <1>13 DEF Next

-----------------------------------------------------------------------------
(* Published records, acknowledgements and files.                          *)

(* What the scanner always does: a visible agent and one at work are seen, *)
(* and a pursuit is no notice.                                             *)
Sound(rec) ==
    rec # None =>
        /\ rec.visible \/ rec.state = "working" => rec.seen
        /\ Pursuing(rec) => ~rec.goal.pending /\ rec.goal.at = 0

(* The goal that is published of a record under an acknowledgement.        *)
ShownGoal(rec, ack) ==
    IF SameGoal(rec, KeptAck(rec, ack)) THEN WithoutNotice(rec.goal)
                                              ELSE rec.goal

(* The published record shown can be told from the scanner's record and    *)
(* the acknowledgement.                                                    *)
Rebuilds(rec, ack, shown) ==
    \/ rec = None /\ shown = None
    \/ /\ rec # None /\ shown # None
       /\ shown.state = rec.state /\ shown.visible = rec.visible
       /\ shown.goal = ShownGoal(rec, ack)
       /\ rec.seen => shown.seen
       /\ shown.seen /\ shown.state = "idle" => rec.seen \/ ack.completion

(* What is acknowledged shows in the published record.                     *)
InStep(shown, ack) ==
    /\ ack.goal # None => ack.completion
    /\ shown # None /\ ack.completion =>
           IF shown.state = "idle" THEN shown.seen /\ ~NewGoal(shown, ack)
                                   ELSE ack.goal # None

(* A scan makes the record next of an agent whose record was old.          *)
Follows(old, next) ==
    \E seen \in Observation \cup {None}, now \in Stamp :
        next = ScanRecord(old, seen, now)

(* The published goal differs from the scanner's by the notice only.       *)
LEMMA ShownGoalFacts ==
    ASSUME NEW r \in StampedRecord, NEW ack \in Acknowledgement
    PROVE  LET goal == ShownGoal(r, ack)
               covered == SameGoal(r, ack) /\ ~Retired(r, ack)
           IN  /\ ~covered => goal = r.goal
               /\ covered => goal = [r.goal EXCEPT !.pending = FALSE]
               /\ covered => r.goal \in GoalInfo /\ r.goal # None
  <1>1. r \in AgentRecord /\ r # None /\ r.goal \in GoalInfo \cup {None}
    BY NoneAssumption DEF StampedRecord, AgentRecord
  <1>2. CASE Retired(r, ack)
    <2>1. KeptAck(r, ack).goal = None
      BY <1>1, <1>2 DEF KeptAck, NoAcknowledgement
    <2>2. ~SameGoal(r, KeptAck(r, ack))
      BY <1>1, <2>1, AttentionAssumption DEF SameGoal, CurrentGoal, GoalInfo
    <2>3. QED
      BY <1>2, <2>2 DEF ShownGoal
  <1>3. CASE ~Retired(r, ack)
    <2>1. KeptAck(r, ack) = ack
      BY <1>3 DEF KeptAck
    <2>2. SameGoal(r, ack) => r.goal \in GoalInfo /\ r.goal # None
      BY <1>1 DEF SameGoal, CurrentGoal
    <2>3. QED
      BY <1>3, <2>1, <2>2 DEF ShownGoal, WithoutNotice
  <1>4. QED
    BY <1>2, <1>3

(* The overlay, field by field.                                            *)
LEMMA OverlaidFields ==
    ASSUME NEW r \in StampedRecord, NEW ack \in Acknowledgement
    PROVE  LET shown == Overlaid(r, ack)
           IN  /\ shown \in AgentRecord /\ shown # None
               /\ shown.state = r.state /\ shown.visible = r.visible
               /\ shown.goal = ShownGoal(r, ack)
               /\ shown.seen <=> \/ r.seen
                                 \/ /\ ack.completion /\ ~Retired(r, ack)
                                    /\ r.state = "idle"
  <1>1. r \in AgentRecord /\ r # None
    BY NoneAssumption DEF StampedRecord
  <1>2. Overlaid(r, ack) =
            [r EXCEPT !.seen = @ \/ (KeptAck(r, ack).completion /\ r.state = "idle"),
                      !.goal = ShownGoal(r, ack)]
    BY <1>1 DEF Overlaid, ShownGoal
  <1>3. Overlaid(r, ack) \in Record
    BY OverlaidType DEF Record
  <1>4. KeptAck(r, ack).completion <=> ack.completion /\ ~Retired(r, ack)
    BY <1>1 DEF KeptAck, NoAcknowledgement
  <1>5. Overlaid(r, ack) = [state |-> r.state, visible |-> r.visible,
                            seen |-> r.seen \/ (KeptAck(r, ack).completion /\ r.state = "idle"),
                            goal |-> ShownGoal(r, ack)]
    BY <1>1, <1>2 DEF AgentRecord
  <1>6. ShownGoal(r, ack) \in GoalInfo \cup {None}
    BY <1>1, WithoutNoticeType DEF ShownGoal, AgentRecord
  <1>7. Overlaid(r, ack) \in AgentRecord
    BY <1>1, <1>5, <1>6 DEF AgentRecord
  <1>8. Overlaid(r, ack) # None
    BY <1>7, NoneAssumption
  <1> DEFINE seen == r.seen \/ (KeptAck(r, ack).completion /\ r.state = "idle")
  <1>9. /\ Overlaid(r, ack).state = r.state
        /\ Overlaid(r, ack).visible = r.visible
        /\ Overlaid(r, ack).goal = ShownGoal(r, ack)
        /\ Overlaid(r, ack).seen = seen
    <2> HIDE DEF seen
    <2>1. Overlaid(r, ack) = [state |-> r.state, visible |-> r.visible,
                              seen |-> seen, goal |-> ShownGoal(r, ack)]
      BY <1>5 DEF seen
    <2>2. QED
      BY <2>1
  <1>10. QED
    BY <1>4, <1>7, <1>8, <1>9

(* What is published of a scan can be rebuilt from it and what remains of  *)
(* the acknowledgement, and shows that.                                    *)
LEMMA PublishedRebuilds ==
    ASSUME NEW r \in Record, NEW ack \in Acknowledgement,
           ack.goal # None => ack.completion
    PROVE  /\ Rebuilds(r, KeptAck(r, ack), Overlaid(r, ack))
           /\ InStep(Overlaid(r, ack), KeptAck(r, ack))
  <1> DEFINE kept == KeptAck(r, ack)
             shown == Overlaid(r, ack)
  <1>0. NoAcknowledgement \in Acknowledgement /\ NoAcknowledgement.goal = None
        /\ NoAcknowledgement.completion = FALSE
    BY DEF NoAcknowledgement, Acknowledgement
  <1>1. CASE r = None
    <2>1. shown = None /\ kept = ack
      BY <1>1 DEF Overlaid, KeptAck
    <2>2. QED
      BY <1>1, <2>1 DEF Rebuilds, InStep
  <1>2. CASE r # None
    <2>1. r \in StampedRecord /\ r \in AgentRecord
      BY <1>2 DEF Record, StampedRecord
    <2>2. /\ shown \in AgentRecord /\ shown # None
          /\ shown.state = r.state /\ shown.visible = r.visible
          /\ shown.goal = ShownGoal(r, ack)
          /\ shown.seen <=> \/ r.seen
                            \/ ack.completion /\ ~Retired(r, ack) /\ r.state = "idle"
      BY <2>1, OverlaidFields
    <2>3. kept \in Acknowledgement /\ KeptAck(r, kept) = kept
      BY <1>0, <1>2, KeptAckType DEF KeptAck
    <2>4. ShownGoal(r, kept) = ShownGoal(r, ack)
      BY <2>3 DEF ShownGoal
    <2>5. kept.completion <=> ack.completion /\ ~Retired(r, ack)
      BY <1>0, <1>2 DEF KeptAck
    <2>6. Rebuilds(r, kept, shown)
      BY <1>2, <2>2, <2>4, <2>5 DEF Rebuilds
    <2>7. kept.goal # None => kept.completion
      BY <1>0, <1>2 DEF KeptAck
    <2>8. ASSUME kept.completion
          PROVE  IF shown.state = "idle" THEN shown.seen /\ ~NewGoal(shown, kept)
                                         ELSE kept.goal # None
      <3>1. kept = ack /\ ~Retired(r, ack) /\ ack.completion
        BY <2>5, <2>8, <1>2 DEF KeptAck
      <3>2. CASE shown.state = "idle"
        <4>1. ~NewGoal(r, ack)
          BY <2>2, <3>1, <3>2 DEF Retired, Active
        <4>2. shown.goal = r.goal \/ (r.goal # None /\ r.goal \in GoalInfo
                                      /\ shown.goal = [r.goal EXCEPT !.pending = FALSE])
          BY <2>1, <2>2, ShownGoalFacts
        <4>3. CASE shown.goal = r.goal
          BY <2>2, <3>1, <3>2, <4>1, <4>3 DEF NewGoal, CurrentGoal, Pursuing
        <4>4. CASE /\ r.goal # None /\ r.goal \in GoalInfo
                   /\ shown.goal = [r.goal EXCEPT !.pending = FALSE]
          <5>1. /\ shown.goal \in GoalInfo /\ shown.goal # None
                /\ shown.goal.outcome = r.goal.outcome
                /\ shown.goal.at = r.goal.at /\ ~shown.goal.pending
            BY <4>4, NoneAssumption DEF GoalInfo
          <5>2. NewGoal(shown, ack) => NewGoal(r, ack)
            BY <4>4, <5>1, NoneAssumption DEF NewGoal, CurrentGoal, Pursuing
          <5>3. QED
            BY <2>2, <3>1, <3>2, <4>1, <5>2
        <4>5. QED
          BY <4>2, <4>3, <4>4
      <3>3. CASE shown.state # "idle"
        <4>1. r.state \in Active
          BY <2>1, <2>2, <3>3 DEF AgentRecord, States, Active
        <4>2. SameGoal(r, ack)
          BY <3>1, <4>1 DEF Retired
        <4>3. /\ r.goal \in GoalInfo /\ r.goal.at > 0
              /\ ack.goal = r.goal.at
          BY <2>1, <4>2 DEF SameGoal, CurrentGoal, AgentRecord
        <4>4. ack.goal # None
          BY <4>3, AttentionAssumption DEF GoalInfo
        <4>5. QED
          BY <3>1, <3>3, <4>4
      <3>4. QED
        BY <3>2, <3>3
    <2>9. QED
      BY <2>2, <2>6, <2>7, <2>8 DEF InStep
  <1>3. QED
    BY <1>1, <1>2

(* What acknowledging an agent leaves of its acknowledgement.              *)
Taken(shown, ack) ==
    IF shown.state = "idle" \/ NoticePending(shown) THEN Remembered(shown, ack) ELSE ack

(* A goal without a notice is not changed by taking its notice away.       *)
LEMMA NoNotice ==
    ASSUME NEW goal \in GoalInfo, ~goal.pending
    PROVE  [goal EXCEPT !.pending = FALSE] = goal
  BY DEF GoalInfo

(* Acknowledging keeps record, acknowledgement and publication in step.    *)
LEMMA TakenRebuilds ==
    ASSUME NEW r \in Record, NEW ack \in Acknowledgement, NEW shown \in Record,
           shown # None, Rebuilds(r, ack, shown), InStep(shown, ack)
    PROVE  /\ Rebuilds(r, Taken(shown, ack), Acknowledged(shown))
           /\ InStep(Acknowledged(shown), Taken(shown, ack))
  <1> DEFINE new == Taken(shown, ack)
             then == Acknowledged(shown)
             covered(k) == SameGoal(r, k) /\ ~Retired(r, k)
  <1>1. /\ r \in StampedRecord /\ r \in AgentRecord /\ r # None
        /\ shown \in StampedRecord /\ shown \in AgentRecord
        /\ shown.goal \in GoalInfo \cup {None} /\ r.goal \in GoalInfo \cup {None}
    BY NoneAssumption DEF Rebuilds, Record, StampedRecord, AgentRecord
  <1>2. /\ shown.state = r.state /\ shown.visible = r.visible
        /\ shown.goal = ShownGoal(r, ack)
    BY <1>1 DEF Rebuilds
  <1>3. /\ then \in AgentRecord /\ then # None
        /\ then.state = shown.state /\ then.visible = shown.visible
        /\ then.seen = TRUE /\ then.goal = WithoutNotice(shown.goal)
    <2>1. WithoutNotice(shown.goal) \in GoalInfo \cup {None}
      BY <1>1, WithoutNoticeType
    <2>2. then \in AgentRecord
      BY <1>1, <2>1 DEF Acknowledged, AgentRecord
    <2>3. QED
      BY <1>1, <2>2, NoneAssumption DEF Acknowledged, AgentRecord
  <1>4. new \in Acknowledgement
    BY <1>1, AcknowledgedType DEF Taken
  <1>5. ASSUME NEW k \in Acknowledgement
        PROVE  /\ ~covered(k) => ShownGoal(r, k) = r.goal
               /\ covered(k) => /\ ShownGoal(r, k) = [r.goal EXCEPT !.pending = FALSE]
                                /\ r.goal \in GoalInfo /\ r.goal # None
    BY <1>1, ShownGoalFacts
  <1>6. CASE NoticePending(shown)
    <2>1. /\ shown.goal # None /\ shown.goal \in GoalInfo /\ shown.goal.pending
          /\ shown.goal.at \in Stamp /\ shown.goal.outcome # "pursuing"
      BY <1>1, <1>6 DEF NoticePending, GoalOf, StampedRecord, Pursuing
    <2>2. r.goal = shown.goal
      <3>1. ~covered(ack)
        BY <1>2, <1>5, <2>1 DEF GoalInfo
      <3>2. QED
        BY <1>2, <1>5, <3>1
    <2>3. new = [completion |-> TRUE, goal |-> r.goal.at]
      BY <1>6, <2>2 DEF Taken, Remembered
    <2>4. new.completion /\ new.goal = r.goal.at /\ r.goal.at # None
      BY <2>1, <2>2, <2>3, AttentionAssumption
    <2>5. CurrentGoal(r) = r.goal
      <3>1. r.goal.at > 0
        BY <2>1, <2>2, StampsArePositive
      <3>2. QED
        BY <2>1, <2>2, <3>1 DEF CurrentGoal, Pursuing
    <2>6. SameGoal(r, new)
      BY <2>1, <2>2, <2>4, <2>5 DEF SameGoal
    <2>7. ~Retired(r, new)
      BY <2>1, <2>2, <2>4, <2>5, <2>6 DEF Retired, NewGoal, Pursuing
    <2>8. then.goal = ShownGoal(r, new)
      BY <1>3, <1>4, <1>5, <2>1, <2>2, <2>6, <2>7 DEF WithoutNotice
    <2>9. Rebuilds(r, new, then)
      BY <1>1, <1>2, <1>3, <2>4, <2>8 DEF Rebuilds
    <2>10. ~NewGoal(then, new)
      <3>1. then.goal.at = r.goal.at
        BY <1>3, <2>1, <2>2 DEF WithoutNotice, GoalInfo
      <3>2. CurrentGoal(then) # None => CurrentGoal(then) = then.goal
        BY DEF CurrentGoal
      <3>3. QED
        BY <2>4, <3>1, <3>2 DEF NewGoal
    <2>11. QED
      BY <1>3, <2>4, <2>9, <2>10 DEF InStep
  <1>7. CASE ~NoticePending(shown)
    <2>1. WithoutNotice(shown.goal) = shown.goal
      BY <1>1, <1>7, NoNotice DEF WithoutNotice, NoticePending, GoalOf
    <2>2. shown.goal # None => shown.goal \in GoalInfo /\ ~shown.goal.pending
      BY <1>1, <1>7 DEF NoticePending, GoalOf
    <2>3. CASE shown.state = "idle"
      <3>1. new = [completion |-> TRUE, goal |-> ack.goal]
        BY <1>7, <2>3 DEF Taken, Remembered
      <3>2. new.completion /\ new.goal = ack.goal
        BY <3>1
      <3>3. ShownGoal(r, new) = shown.goal
        <4>1. CASE covered(ack)
          <5>1. ack.goal # None /\ SameGoal(r, new)
            BY <1>1, <3>2, <4>1, AttentionAssumption
            DEF SameGoal, CurrentGoal, GoalInfo
          <5>2. ~NewGoal(r, new)
            BY <3>2, <4>1, <5>1 DEF NewGoal, SameGoal
          <5>3. ~Retired(r, new)
            BY <1>2, <2>3, <4>1, <5>2 DEF Retired, Active
          <5>4. QED
            BY <1>2, <1>4, <1>5, <4>1, <5>1, <5>3
        <4>2. CASE ~covered(ack)
          <5>1. shown.goal = r.goal
            BY <1>2, <1>5, <4>2
          <5>2. QED
            BY <1>4, <1>5, <2>2, <5>1, NoNotice
        <4>3. QED
          BY <4>1, <4>2
      <3>4. Rebuilds(r, new, then)
        BY <1>1, <1>2, <1>3, <2>1, <3>2, <3>3 DEF Rebuilds
      <3>5. ~NewGoal(then, new)
        <4>1. then.goal = shown.goal
          BY <1>3, <2>1
        <4>2. CASE ack.goal = None
          BY <2>2, <3>2, <4>1, <4>2 DEF NewGoal, CurrentGoal
        <4>3. CASE ack.goal # None
          <5>1. ~NewGoal(shown, ack)
            BY <2>3, <4>3 DEF InStep
          <5>2. QED
            BY <3>2, <4>1, <4>3, <5>1 DEF NewGoal, CurrentGoal, Pursuing
        <4>4. QED
          BY <4>2, <4>3
      <3>6. QED
        BY <1>3, <2>3, <3>2, <3>4, <3>5 DEF InStep
    <2>4. CASE shown.state # "idle"
      <3>1. new = ack
        BY <1>7, <2>4 DEF Taken
      <3>2. Rebuilds(r, new, then)
        BY <1>1, <1>2, <1>3, <2>1, <2>4, <3>1 DEF Rebuilds
      <3>3. QED
        BY <1>3, <2>4, <3>1, <3>2 DEF InStep
    <2>5. QED
      BY <2>3, <2>4
  <1>8. QED
    BY <1>6, <1>7

-----------------------------------------------------------------------------
(* A scan after a publication.                                             *)

(* The goal of a scan's record when its outcome is that of the record      *)
(* before: a notice is pending only if it was, and stays when the agent    *)
(* did not go to work.                                                     *)
LEMMA SameOutcome ==
    ASSUME NEW old \in Record, NEW state \in States, NEW now \in Stamp,
           NEW observed \in Outcome \cup {"pursuing", None},
           GoalOf(old) # None, Sound(old),
           goal_lifecycle(old, state, observed, now) # None,
           goal_lifecycle(old, state, observed, now).outcome = old.goal.outcome
    PROVE  LET goal == goal_lifecycle(old, state, observed, now)
           IN  /\ goal.at = old.goal.at
               /\ goal.pending => old.goal.pending
               /\ (state = old.state) => goal.pending = old.goal.pending
  <1>1. /\ old # None /\ old \in StampedRecord /\ old \in AgentRecord
        /\ old.goal # None /\ old.goal \in GoalInfo /\ GoalOf(old) = old.goal
    BY DEF Record, StampedRecord, AgentRecord, GoalOf
  <1>2. old.goal.outcome = "pursuing" => ~old.goal.pending /\ old.goal.at = 0
    BY <1>1 DEF Sound, Pursuing
  <1>3. old.state \in States /\ old.goal.pending \in BOOLEAN
    BY <1>1 DEF AgentRecord, GoalInfo
  <1>4. WasActive(old) <=> old.state \in Active
    BY <1>1 DEF WasActive
  <1>5. CASE observed = None
    <2>1. old.goal.outcome # "pursuing"
      BY <1>1, <1>5 DEF goal_lifecycle, remembered_goal
    <2>2. goal_lifecycle(old, state, observed, now) =
              [old.goal EXCEPT !.pending = @ /\ (state \in Active => WasActive(old))]
      BY <1>1, <1>5, <2>1 DEF goal_lifecycle, remembered_goal
    <2>3. QED
      BY <1>1, <1>3, <1>4, <2>2 DEF GoalInfo
  <1>6. CASE observed = "pursuing"
    <2>1. goal_lifecycle(old, state, observed, now)
              = [outcome |-> "pursuing", pending |-> FALSE, at |-> 0]
      BY <1>6, AttentionAssumption DEF goal_lifecycle
    <2>2. /\ goal_lifecycle(old, state, observed, now).outcome = "pursuing"
          /\ goal_lifecycle(old, state, observed, now).pending = FALSE
          /\ goal_lifecycle(old, state, observed, now).at = 0
      BY <2>1
    <2>3. ~old.goal.pending /\ old.goal.at = 0
      BY <1>2, <2>2
    <2>4. old.goal.pending = FALSE
      BY <1>3, <2>3
    <2>5. QED
      BY <2>2, <2>3, <2>4
  <1>7. CASE observed \in Outcome
    <2>1. goal_lifecycle(old, state, observed, now)
              = terminal_goal(old, state, observed, now)
      BY <1>7, AttentionAssumption DEF goal_lifecycle
    <2>2. old.goal.outcome = observed
      BY <2>1 DEF terminal_goal
    <2>3. goal_lifecycle(old, state, observed, now) =
              [outcome |-> observed,
               pending |-> /\ old.goal.pending
                           /\ state \notin Active \/ WasActive(old),
               at |-> old.goal.at]
      BY <1>1, <1>7, <2>1, <2>2 DEF terminal_goal
    <2> DEFINE pending == old.goal.pending /\ (state \notin Active \/ WasActive(old))
    <2>4. /\ goal_lifecycle(old, state, observed, now).pending = pending
          /\ goal_lifecycle(old, state, observed, now).at = old.goal.at
      <3> HIDE DEF pending
      <3>1. goal_lifecycle(old, state, observed, now)
                = [outcome |-> observed, pending |-> pending, at |-> old.goal.at]
        BY <2>3 DEF pending
      <3>2. QED
        BY <3>1
    <2>5. QED
      BY <1>3, <1>4, <2>4
  <1>8. QED
    BY <1>5, <1>6, <1>7

(* What a scan leaves, field by field.                                     *)
LEMMA FollowsFields ==
    ASSUME NEW old \in Record, NEW next \in Record, next # None,
           Follows(old, next)
    PROVE  \E now \in Stamp, observed \in Outcome \cup {"pursuing", None} :
               /\ next.seen <=> next_seen(old, next.state, next.visible)
               /\ next.goal = goal_lifecycle(old, next.state, observed, now)
  <1>1. PICK seen \in Observation \cup {None}, now \in Stamp :
            next = ScanRecord(old, seen, now)
    BY DEF Follows
  <1>2. seen # None /\ seen \in Observation
    BY <1>1 DEF ScanRecord
  <1>3. next = [state |-> seen.state, visible |-> seen.visible,
                seen |-> next_seen(old, seen.state, seen.visible),
                goal |-> goal_lifecycle(old, seen.state, seen.goal, now)]
    BY <1>1, <1>2 DEF ScanRecord
  <1> DEFINE first == next_seen(old, seen.state, seen.visible)
             goal == goal_lifecycle(old, seen.state, seen.goal, now)
  <1>4. /\ next.state = seen.state /\ next.visible = seen.visible
        /\ next.seen = first /\ next.goal = goal
    <2> HIDE DEF first, goal
    <2>1. next = [state |-> seen.state, visible |-> seen.visible,
                  seen |-> first, goal |-> goal]
      BY <1>3 DEF first, goal
    <2>2. QED
      BY <2>1
  <1>5. seen.goal \in Outcome \cup {"pursuing", None}
    BY <1>2 DEF Observation
  <1>6. QED
    BY <1>4, <1>5

(* The scanner's records are sound.                                        *)
LEMMA FollowsSound ==
    ASSUME NEW old \in Record, NEW next \in Record, Follows(old, next)
    PROVE  Sound(next)
  <1> SUFFICES ASSUME next # None PROVE Sound(next)
    BY DEF Sound
  <1>1. PICK now \in Stamp, observed \in Outcome \cup {"pursuing", None} :
            /\ next.seen <=> next_seen(old, next.state, next.visible)
            /\ next.goal = goal_lifecycle(old, next.state, observed, now)
    BY FollowsFields
  <1>2. next.visible \/ next.state = "working" => next.seen
    BY <1>1 DEF next_seen
  <1>3. ASSUME Pursuing(next) PROVE ~next.goal.pending /\ next.goal.at = 0
    <2>1. next.goal # None /\ next.goal.outcome = "pursuing"
      BY <1>3 DEF Pursuing
    <2>2. CASE observed = "pursuing"
      BY <1>1, <2>2, AttentionAssumption DEF goal_lifecycle
    <2>3. CASE observed = None
      <3>1. next.goal = remembered_goal(old, next.state)
        BY <1>1, <2>3 DEF goal_lifecycle
      <3>2. GoalOf(old) # None /\ GoalOf(old).outcome # "pursuing"
        BY <2>1, <3>1 DEF remembered_goal
      <3>3. GoalOf(old) \in GoalInfo
        BY <3>2 DEF GoalOf, Record, StampedRecord, AgentRecord
      <3>4. next.goal.outcome = GoalOf(old).outcome
        BY <3>1, <3>2, <3>3 DEF remembered_goal, GoalInfo
      <3>5. QED
        BY <2>1, <3>2, <3>4
    <2>4. CASE observed \in Outcome
      <3>1. next.goal = terminal_goal(old, next.state, observed, now)
        BY <1>1, <2>4, AttentionAssumption DEF goal_lifecycle
      <3>2. next.goal.outcome = observed
        BY <3>1 DEF terminal_goal
      <3>3. QED
        BY <2>1, <2>4, <3>2, AttentionAssumption
    <2>5. QED
      BY <2>2, <2>3, <2>4
  <1>4. QED
    BY <1>2, <1>3 DEF Sound

(* A publication that shows nothing new comes of a record that is not new. *)
LEMMA NothingNew ==
    ASSUME NEW old \in Record, NEW next \in Record, NEW ack \in Acknowledgement,
           NEW shown \in Record,
           Sound(old), Follows(old, next), Rebuilds(old, ack, shown),
           Overlaid(next, ack) = shown
    PROVE  next = old
  <1>1. CASE next = None
    BY <1>1 DEF Overlaid, Rebuilds
  <1>2. CASE next # None
    <2>1. /\ next \in StampedRecord
          /\ next \in AgentRecord
          /\ next.goal \in GoalInfo \cup {None}
      BY <1>2 DEF Record, StampedRecord, AgentRecord
    <2>2. /\ shown # None /\ shown.state = next.state /\ shown.visible = next.visible
          /\ shown.goal = ShownGoal(next, ack)
      BY <2>1, OverlaidFields
    <2>3. /\ old # None /\ old \in StampedRecord /\ old \in AgentRecord
          /\ old.goal \in GoalInfo \cup {None}
          /\ old.state = next.state /\ old.visible = next.visible
          /\ ShownGoal(old, ack) = ShownGoal(next, ack)
      BY <2>2 DEF Rebuilds, Record, StampedRecord, AgentRecord
    <2>4. PICK now \in Stamp, observed \in Outcome \cup {"pursuing", None} :
              /\ next.seen <=> next_seen(old, next.state, next.visible)
              /\ next.goal = goal_lifecycle(old, next.state, observed, now)
      BY <1>2, FollowsFields
    <2>5. next.seen = old.seen
      <3>1. /\ old.visible \/ old.state = "working" => old.seen
            /\ old.seen \in BOOLEAN /\ next.seen \in BOOLEAN /\ old.state \in States
        BY <2>1, <2>3 DEF Sound, AgentRecord
      <3>2. next.seen <=> old.seen
        BY <2>3, <2>4, <3>1 DEF next_seen, States, Active
      <3>3. QED
        BY <3>1, <3>2
    <2>6. next.goal = old.goal
      <3>1. ASSUME NEW r \in StampedRecord, r.goal \in GoalInfo \cup {None}
            PROVE  /\ ShownGoal(r, ack) = None <=> r.goal = None
                   /\ r.goal # None => ShownGoal(r, ack).outcome = r.goal.outcome
        <4>1. \/ ShownGoal(r, ack) = r.goal
              \/ /\ r.goal \in GoalInfo /\ r.goal # None
                 /\ ShownGoal(r, ack) = [r.goal EXCEPT !.pending = FALSE]
          BY ShownGoalFacts
        <4>2. [r.goal EXCEPT !.pending = FALSE] \in GoalInfo
              \/ r.goal \notin GoalInfo
          BY DEF GoalInfo
        <4>3. CASE ShownGoal(r, ack) = r.goal
          BY <4>3
        <4>4. CASE /\ r.goal \in GoalInfo /\ r.goal # None
                   /\ ShownGoal(r, ack) = [r.goal EXCEPT !.pending = FALSE]
          BY <4>2, <4>4, NoneAssumption DEF GoalInfo
        <4>5. QED
          BY <4>1, <4>3, <4>4
      <3>2. CASE next.goal = None
        BY <2>1, <2>3, <3>1, <3>2
      <3>3. CASE next.goal # None
        <4>1. old.goal # None /\ old.goal.outcome = next.goal.outcome
          BY <2>1, <2>3, <3>1, <3>3
        <4>2. GoalOf(old) # None
          BY <2>3, <4>1 DEF GoalOf
        <4>3. next.state \in States
          BY <2>1 DEF AgentRecord
        <4>4. next.goal.at = old.goal.at /\ next.goal.pending = old.goal.pending
          BY <2>3, <2>4, <3>3, <4>1, <4>2, <4>3, SameOutcome
        <4>5. QED
          BY <2>1, <2>3, <3>3, <4>1, <4>4 DEF GoalInfo
      <3>4. QED
        BY <3>2, <3>3
    <2>7. QED
      BY <2>1, <2>3, <2>5, <2>6 DEF AgentRecord
  <1>3. QED
    BY <1>1, <1>2

-----------------------------------------------------------------------------
(* The invariant of memory and files.                                      *)

(* The scanner has looked since its records were last published.           *)
Ahead == daemon = "starting" \/ scan = "scanned"

(* base is the scanner's record of the agent at the last publication.      *)
Base(base, a) ==
    /\ Sound(base)
    /\ IF Ahead THEN Follows(base, previous[a]) ELSE base = previous[a]
    /\ daemon = "up" \/ local[a] # None => Rebuilds(base, acks[a], local[a])
    /\ (daemon = "up" /\ scan # "published" /\ "state" \notin unsaved)
           => stateFile[a] = base

(* Memory while a daemon runs; without one the files, of those agents of   *)
(* which they hold what the last daemon had published.                     *)
Published(a) ==
    IF daemon = "down"
    THEN local[a] # None => /\ Rebuilds(stateFile[a], ackFile[a], local[a])
                            /\ InStep(local[a], ackFile[a])
    ELSE /\ InStep(local[a], acks[a])
         /\ \E base \in Record : Base(base, a)

Files ==
    /\ daemon = "starting" => acks = ackFile /\ stateFile = previous
    /\ daemon # "up" => scan = "rest" /\ unsaved = {}
    /\ (daemon = "up" /\ "acks" \notin unsaved) => ackFile = acks

AgentInv(a) ==
    /\ Sound(previous[a]) /\ Sound(stateFile[a])
    /\ InStep(None, ackFile[a])
    /\ Published(a)

IInv == TypeInv /\ Files /\ \A a \in Agent : AgentInv(a)

(* The files hold what was published of an agent when the saved            *)
(* acknowledgement is the one in memory and the saved record rebuilds what *)
(* is shown.                                                               *)
LEMMA SavedIsRebuilt ==
    ASSUME TypeInv, NEW a \in Agent
    PROVE  Saved(a) <=> /\ ackFile[a] = acks[a]
                        /\ Rebuilds(stateFile[a], ackFile[a], local[a])
  <1> DEFINE r == stateFile[a]
             ack == ackFile[a]
             shown == local[a]
  <1>1. r \in Record /\ ack \in Acknowledgement /\ shown \in Record
    BY DEF TypeInv, TypeOK
  <1> HIDE DEF r, ack, shown
  <1>2. CASE r = None
    <2>1. Overlaid(r, ack) = None
      BY <1>2 DEF Overlaid
    <2>2. QED
      BY <1>2, <2>1 DEF Saved, Rebuilds, r, ack, shown
  <1>3. CASE r # None /\ shown = None
    <2>1. Overlaid(r, ack) # None
      BY <1>1, <1>3, OverlaidFields DEF Record
    <2>2. QED
      BY <1>3, <2>1 DEF Saved, Rebuilds, r, ack, shown
  <1>4. CASE r # None /\ shown # None
    <2> DEFINE rebuilt == Overlaid(r, ack)
    <2>1. /\ rebuilt \in AgentRecord /\ rebuilt # None
          /\ rebuilt.state = r.state /\ rebuilt.visible = r.visible
          /\ rebuilt.goal = ShownGoal(r, ack)
      BY <1>1, <1>4, OverlaidFields DEF Record
    <2>2. shown \in AgentRecord
      BY <1>1, <1>4 DEF Record, StampedRecord
    <2> HIDE DEF rebuilt
    <2>3. rebuilt = [shown EXCEPT !.seen = rebuilt.seen]
          <=> /\ shown.state = r.state /\ shown.visible = r.visible
              /\ shown.goal = ShownGoal(r, ack)
      BY <2>1, <2>2 DEF AgentRecord
    <2>4. Saved(a) <=> /\ ack = acks[a]
                       /\ rebuilt = [shown EXCEPT !.seen = rebuilt.seen]
                       /\ r.seen => shown.seen
                       /\ (shown.seen /\ shown.state = "idle") => (r.seen \/ ack.completion)
      BY <1>4, <2>1 DEF Saved, r, ack, shown, rebuilt
    <2>5. QED
      BY <1>4, <2>3, <2>4 DEF Rebuilds, r, ack, shown
  <1>5. QED
    BY <1>2, <1>3, <1>4

(* Nothing has been seen or saved at first.                                *)
LEMMA InitIInv == Init => IInv
  <1> SUFFICES ASSUME Init PROVE IInv
    OBVIOUS
  <1>1. TypeInv
    BY InitTypes
  <1>2. Files
    BY DEF Init, Files
  <1>3. ASSUME NEW a \in Agent PROVE AgentInv(a)
    BY DEF Init, AgentInv, Sound, InStep, Published, NoAcknowledgement
  <1>4. QED
    BY <1>1, <1>2, <1>3 DEF IInv

(* A publication of the records at hand leaves memory in step.             *)
LEMMA PublishStep ==
    ASSUME IInv, NEW a \in Agent, daemon # "down",
           local'[a] = AppliedRecords[a], acks'[a] = AppliedAcks[a],
           daemon' = "up", scan' # "scanned", previous' = previous,
           (scan' # "published" /\ "state" \notin unsaved') => stateFile'[a] = previous[a]
    PROVE  Published(a)'
  <1>1. /\ previous[a] \in Record /\ acks[a] \in Acknowledgement
        /\ acks[a].goal # None => acks[a].completion
        /\ Sound(previous[a])
    BY DEF IInv, TypeInv, TypeOK, AgentInv, Published, InStep
  <1>2. /\ local'[a] = Overlaid(previous[a], acks[a])
        /\ acks'[a] = KeptAck(previous[a], acks[a])
    BY DEF AppliedRecords, AppliedAcks
  <1>3. Rebuilds(previous[a], acks'[a], local'[a]) /\ InStep(local'[a], acks'[a])
    BY <1>1, <1>2, PublishedRebuilds
  <1>4. previous'[a] = previous[a] /\ daemon' # "down" /\ ~Ahead'
    BY DEF Ahead
  <1>5. Base(previous[a], a)'
    BY <1>1, <1>3, <1>4 DEF Base
  <1>6. QED
    BY <1>1, <1>3, <1>4, <1>5 DEF Published

(* An acknowledgement of an agent leaves memory in step.                   *)
LEMMA TakeStep ==
    ASSUME IInv, NEW a \in Agent, daemon = "up", local[a] # None,
           local'[a] = Acknowledged(local[a]), acks'[a] = Taken(local[a], acks[a]),
           UNCHANGED <<daemon, scan, previous, stateFile>>,
           "state" \in unsaved <=> "state" \in unsaved'
    PROVE  Published(a)'
  <1>1. PICK base \in Record : Base(base, a)
    BY DEF IInv, AgentInv, Published
  <1>2. /\ Rebuilds(base, acks[a], local[a]) /\ InStep(local[a], acks[a])
        /\ local[a] \in Record /\ acks[a] \in Acknowledgement
    BY <1>1 DEF Base, IInv, TypeInv, TypeOK, AgentInv, Published
  <1>3. Rebuilds(base, acks'[a], local'[a]) /\ InStep(local'[a], acks'[a])
    BY <1>2, TakenRebuilds
  <1>4. Ahead' = Ahead
    BY DEF Ahead
  <1>5. Base(base, a)'
    BY <1>1, <1>3, <1>4 DEF Base
  <1>6. QED
    BY <1>3, <1>5 DEF Published

(* Nothing of an agent changes.                                            *)
LEMMA QuietStep ==
    ASSUME IInv, NEW a \in Agent,
           local'[a] = local[a], acks'[a] = acks[a], ackFile'[a] = ackFile[a]
                                                     \/ daemon # "down",
           UNCHANGED <<daemon, scan, previous, stateFile>>,
           "state" \in unsaved <=> "state" \in unsaved'
    PROVE  Published(a)'
  <1>1. Ahead' = Ahead
    BY DEF Ahead
  <1>2. ASSUME NEW base \in Record, Base(base, a) PROVE Base(base, a)'
    BY <1>1, <1>2 DEF Base
  <1>3. QED
    BY <1>2 DEF IInv, AgentInv, Published

(* Writing the acknowledgements leaves the file in step when it succeeds,  *)
(* and what is known of the records' file alone.                           *)
LEMMA WriteFacts ==
    ASSUME write_acknowledgements \/ save_acknowledgements,
           "acks" \notin unsaved => ackFile = acks
    PROVE  /\ "acks" \notin unsaved' => ackFile' = acks'
           /\ ackFile' = acks' \/ ackFile' = ackFile
           /\ "state" \in unsaved <=> "state" \in unsaved'
  BY DEF write_acknowledgements, save_acknowledgements

(* A goal is never acknowledged without the completion.                    *)
LEMMA AckFileStep ==
    ASSUME IInv, TypeInv', NEW a \in Agent,
           ackFile' = acks' \/ ackFile' = ackFile, daemon' # "down",
           Published(a)'
    PROVE  InStep(None, ackFile[a])'
  BY DEF IInv, AgentInv, Published, InStep

(* Loading the files and the first scan.                                   *)
LEMMA BootStep ==
    ASSUME IInv, TypeInv', Boot
    PROVE  IInv'
  <1>1. PICK seen \in [Agent -> Observation \cup {None}] :
            previous' = Scanned(stateFile, seen)
    BY DEF Boot
  <1>2. /\ daemon = "down" /\ daemon' = "starting" /\ scan = "rest" /\ scan' = "rest"
        /\ stateFile' = previous' /\ acks' = ackFile /\ ackFile' = ackFile
        /\ local' = local /\ unsaved' = {}
    BY DEF Boot, IInv, Files
  <1>3. ASSUME NEW a \in Agent PROVE AgentInv(a)'
    <2>1. /\ stateFile[a] \in Record /\ previous'[a] \in Record
          /\ Sound(stateFile[a]) /\ InStep(None, ackFile[a])
      BY DEF IInv, TypeInv, AgentInv
    <2>2. now_ms(a) \in Stamp
      BY NowIsStamp DEF IInv
    <2>3. previous'[a] = ScanRecord(stateFile[a], seen[a], now_ms(a))
      BY <1>1 DEF Scanned
    <2>4. seen[a] \in Observation \cup {None}
      OBVIOUS
    <2>5. Follows(stateFile[a], previous'[a])
      BY <2>2, <2>3, <2>4 DEF Follows
    <2>6. Sound(previous'[a])
      BY <2>1, <2>5, FollowsSound
    <2>7. local[a] # None => /\ Rebuilds(stateFile[a], ackFile[a], local[a])
                             /\ InStep(local[a], ackFile[a])
      BY <1>2 DEF IInv, AgentInv, Published
    <2>8. InStep(local'[a], acks'[a])
      BY <1>2, <2>1, <2>7
    <2>9. Ahead'
      BY <1>2 DEF Ahead
    <2>10. PICK base \in Record : base = stateFile[a]
      BY <2>1
    <2>11. Base(base, a)'
      BY <1>2, <2>1, <2>5, <2>7, <2>9, <2>10 DEF Base
    <2>12. Published(a)'
      BY <1>2, <2>8, <2>11 DEF Published
    <2>13. QED
      BY <1>2, <2>1, <2>6, <2>12 DEF AgentInv
  <1>4. Files'
    BY <1>2 DEF Files
  <1>5. QED
    BY <1>3, <1>4 DEF IInv

(* The first publication.                                                  *)
LEMMA AnnounceStep ==
    ASSUME IInv, TypeInv', Announce
    PROVE  IInv'
  <1>1. /\ daemon = "starting" /\ daemon' = "up" /\ scan = "rest" /\ scan' = "rest"
        /\ local' = AppliedRecords /\ acks' = AppliedAcks /\ ackFile' = acks'
        /\ previous' = previous /\ stateFile' = stateFile /\ unsaved' = unsaved
        /\ stateFile = previous
    BY DEF Announce, IInv, Files
  <1>2. ASSUME NEW a \in Agent PROVE AgentInv(a)'
    <2>1. Published(a)'
      BY <1>1, PublishStep
    <2>2. InStep(None, ackFile[a])'
      BY <1>1, <2>1, AckFileStep
    <2>3. QED
      BY <1>1, <2>1, <2>2 DEF AgentInv, IInv
  <1>3. Files'
    BY <1>1 DEF Files
  <1>4. QED
    BY <1>2, <1>3 DEF IInv

(* The scan alone.                                                         *)
LEMMA ScanStep ==
    ASSUME IInv, TypeInv', Scan
    PROVE  IInv'
  <1>1. PICK seen \in [Agent -> Observation \cup {None}] :
            previous' = Scanned(previous, seen)
    BY DEF Scan
  <1>2. /\ daemon = "up" /\ daemon' = "up" /\ scan = "rest" /\ scan' = "scanned"
        /\ stateFile' = stateFile /\ acks' = acks /\ ackFile' = ackFile
        /\ local' = local /\ unsaved' = unsaved
    BY DEF Scan
  <1>3. ASSUME NEW a \in Agent PROVE AgentInv(a)'
    <2>1. /\ previous[a] \in Record /\ previous'[a] \in Record
          /\ Sound(previous[a]) /\ Sound(stateFile[a]) /\ InStep(None, ackFile[a])
          /\ InStep(local[a], acks[a])
      BY <1>2 DEF IInv, TypeInv, AgentInv, Published
    <2>2. now_ms(a) \in Stamp
      BY NowIsStamp DEF IInv
    <2>3. previous'[a] = ScanRecord(previous[a], seen[a], now_ms(a))
      BY <1>1 DEF Scanned
    <2>4. Follows(previous[a], previous'[a])
      BY <2>2, <2>3 DEF Follows
    <2>5. Sound(previous'[a])
      BY <2>1, <2>4, FollowsSound
    <2>6. ~Ahead /\ Ahead'
      BY <1>2 DEF Ahead
    <2>7. PICK base \in Record : Base(base, a)
      BY <1>2 DEF IInv, AgentInv, Published
    <2>8. base = previous[a]
      BY <2>6, <2>7 DEF Base
    <2>9. Base(base, a)'
      BY <1>2, <2>4, <2>6, <2>7, <2>8 DEF Base
    <2>10. Published(a)'
      BY <1>2, <2>1, <2>9 DEF Published
    <2>11. QED
      BY <1>2, <2>1, <2>5, <2>10 DEF AgentInv
  <1>4. Files'
    BY <1>2 DEF Files, IInv
  <1>5. QED
    BY <1>3, <1>4 DEF IInv

(* A publication with nothing new to show: the file still holds the        *)
(* scanner's records, for they have not changed either.                    *)
LEMMA PublishNothingStep ==
    ASSUME IInv, TypeInv', PublishNothing
    PROVE  IInv'
  <1>1. /\ daemon = "up" /\ daemon' = "up" /\ scan = "scanned" /\ scan' = "rest"
        /\ AppliedRecords = local /\ acks' = AppliedAcks /\ local' = local
        /\ previous' = previous /\ stateFile' = stateFile
        /\ save_acknowledgements
    BY DEF PublishNothing
  <1>2. /\ "acks" \notin unsaved' => ackFile' = acks'
        /\ ackFile' = acks' \/ ackFile' = ackFile
        /\ "state" \in unsaved <=> "state" \in unsaved'
    BY <1>1, WriteFacts DEF IInv, Files
  <1>3. ASSUME NEW a \in Agent PROVE AgentInv(a)'
    <2>1. PICK base \in Record : Base(base, a)
      BY <1>1 DEF IInv, AgentInv, Published
    <2>2. /\ Sound(base) /\ Follows(base, previous[a])
          /\ Rebuilds(base, acks[a], local[a])
          /\ "state" \notin unsaved => stateFile[a] = base
      BY <1>1, <2>1 DEF Base, Ahead
    <2>3. Overlaid(previous[a], acks[a]) = local[a]
      BY <1>1 DEF AppliedRecords
    <2>4. previous[a] = base
      BY <2>2, <2>3, NothingNew DEF IInv, TypeInv, TypeOK
    <2>5. Published(a)'
      BY <1>1, <1>2, <2>2, <2>4, PublishStep
    <2>6. InStep(None, ackFile[a])'
      BY <1>1, <1>2, <2>5, AckFileStep
    <2>7. QED
      BY <1>1, <2>5, <2>6 DEF AgentInv, IInv
  <1>4. Files'
    BY <1>1, <1>2 DEF Files
  <1>5. QED
    BY <1>3, <1>4 DEF IInv

(* A publication.                                                          *)
LEMMA PublishLocalStep ==
    ASSUME IInv, TypeInv', PublishLocal
    PROVE  IInv'
  <1>1. /\ daemon = "up" /\ daemon' = "up" /\ scan' = "published"
        /\ local' = AppliedRecords /\ acks' = AppliedAcks
        /\ previous' = previous /\ stateFile' = stateFile
        /\ save_acknowledgements
    BY DEF PublishLocal
  <1>2. /\ "acks" \notin unsaved' => ackFile' = acks'
        /\ ackFile' = acks' \/ ackFile' = ackFile
    BY <1>1, WriteFacts DEF IInv, Files
  <1>3. ASSUME NEW a \in Agent PROVE AgentInv(a)'
    <2>1. Published(a)'
      BY <1>1, PublishStep
    <2>2. InStep(None, ackFile[a])'
      BY <1>1, <1>2, <2>1, AckFileStep
    <2>3. QED
      BY <1>1, <2>1, <2>2 DEF AgentInv, IInv
  <1>4. Files'
    BY <1>1, <1>2 DEF Files
  <1>5. QED
    BY <1>3, <1>4 DEF IInv

(* Saving the scanner's records.                                           *)
LEMMA SaveStateStep ==
    ASSUME IInv, TypeInv', SaveState
    PROVE  IInv'
  <1>1. /\ daemon = "up" /\ daemon' = "up" /\ scan = "published" /\ scan' = "rest"
        /\ previous' = previous /\ local' = local /\ acks' = acks /\ ackFile' = ackFile
        /\ stateFile' = previous \/ (stateFile' = stateFile /\ "state" \in unsaved')
        /\ "acks" \in unsaved <=> "acks" \in unsaved'
    BY DEF SaveState
  <1>2. ASSUME NEW a \in Agent PROVE AgentInv(a)'
    <2>1. PICK base \in Record : Base(base, a)
      BY <1>1 DEF IInv, AgentInv, Published
    <2>2. ~Ahead /\ ~Ahead'
      BY <1>1 DEF Ahead
    <2>3. base = previous[a]
      BY <2>1, <2>2 DEF Base
    <2>4. "state" \notin unsaved' => stateFile'[a] = base
      BY <1>1, <2>3
    <2>5. Base(base, a)'
      BY <1>1, <2>1, <2>2, <2>3, <2>4 DEF Base
    <2>6. /\ InStep(local[a], acks[a]) /\ InStep(None, ackFile[a])
          /\ Sound(previous[a]) /\ Sound(stateFile[a])
      BY <1>1 DEF IInv, AgentInv, Published
    <2>7. Published(a)'
      BY <1>1, <2>5, <2>6 DEF Published
    <2>8. QED
      BY <1>1, <2>6, <2>7 DEF AgentInv
  <1>3. Files'
    BY <1>1 DEF Files, IInv
  <1>4. QED
    BY <1>2, <1>3 DEF IInv

(* Acknowledging, of some agents with others left alone.                   *)
LEMMA AcknowledgeStep ==
    ASSUME IInv, TypeInv', daemon = "up",
           UNCHANGED <<daemon, scan, previous, stateFile>>,
           write_acknowledgements \/ (acks' = acks /\ UNCHANGED <<ackFile, unsaved>>),
           \A a \in Agent :
               \/ /\ local[a] # None
                  /\ local'[a] = Acknowledged(local[a])
                  /\ acks'[a] = Taken(local[a], acks[a])
               \/ local'[a] = local[a] /\ acks'[a] = acks[a]
    PROVE  IInv'
  <1>1. /\ "acks" \notin unsaved' => ackFile' = acks'
        /\ ackFile' = acks' \/ ackFile' = ackFile
        /\ "state" \in unsaved <=> "state" \in unsaved'
    BY WriteFacts DEF IInv, Files
  <1>2. ASSUME NEW a \in Agent PROVE AgentInv(a)'
    <2>1. Published(a)'
      <3>1. CASE /\ local[a] # None
                 /\ local'[a] = Acknowledged(local[a])
                 /\ acks'[a] = Taken(local[a], acks[a])
        BY <1>1, <3>1, TakeStep
      <3>2. CASE local'[a] = local[a] /\ acks'[a] = acks[a]
        BY <1>1, <3>2, QuietStep
      <3>3. QED
        BY <3>1, <3>2
    <2>2. InStep(None, ackFile[a])'
      BY <1>1, <2>1, AckFileStep
    <2>3. QED
      BY <2>1, <2>2 DEF AgentInv, IInv
  <1>3. Files'
    BY <1>1 DEF Files
  <1>4. QED
    BY <1>2, <1>3 DEF IInv

(* What the two acknowledging actions do to each agent.                    *)
LEMMA Acknowledges ==
    ASSUME IInv,
           mark_all_read \/ \E b \in Agent : acknowledge(b)
    PROVE  /\ daemon = "up"
           /\ UNCHANGED <<daemon, scan, previous, stateFile>>
           /\ write_acknowledgements \/ (acks' = acks /\ UNCHANGED <<ackFile, unsaved>>)
           /\ \A a \in Agent :
               \/ /\ local[a] # None
                  /\ local'[a] = Acknowledged(local[a])
                  /\ acks'[a] = Taken(local[a], acks[a])
               \/ local'[a] = local[a] /\ acks'[a] = acks[a]
  <1>1. local \in [Agent -> Record] /\ acks \in [Agent -> Acknowledgement]
    BY DEF IInv, TypeInv, TypeOK
  <1>2. CASE mark_all_read
    <2>1. ASSUME NEW a \in Agent
          PROVE  \/ /\ local[a] # None
                    /\ local'[a] = Acknowledged(local[a])
                    /\ acks'[a] = Taken(local[a], acks[a])
                 \/ local'[a] = local[a] /\ acks'[a] = acks[a]
      <3>1. CASE a \in acknowledgement_targets
        <4>1. /\ local[a] # None
              /\ local[a].state = "idle" \/ NoticePending(local[a])
          BY <3>1 DEF acknowledgement_targets
        <4>2. Taken(local[a], acks[a]) = Remembered(local[a], acks[a])
          BY <4>1 DEF Taken
        <4>3. QED
          BY <1>2, <3>1, <4>1, <4>2 DEF mark_all_read
      <3>2. CASE a \notin acknowledgement_targets
        BY <1>2, <3>2 DEF mark_all_read
      <3>3. QED
        BY <3>1, <3>2
    <2>2. QED
      BY <1>2, <2>1 DEF mark_all_read
  <1>3. ASSUME NEW b \in Agent, acknowledge(b)
        PROVE  /\ daemon = "up"
               /\ UNCHANGED <<daemon, scan, previous, stateFile>>
               /\ write_acknowledgements \/ (acks' = acks /\ UNCHANGED <<ackFile, unsaved>>)
               /\ \A a \in Agent :
                   \/ /\ local[a] # None
                      /\ local'[a] = Acknowledged(local[a])
                      /\ acks'[a] = Taken(local[a], acks[a])
                   \/ local'[a] = local[a] /\ acks'[a] = acks[a]
    <2> DEFINE persist == local[b].state = "idle" \/ NoticePending(local[b])
    <2>1. /\ local[b] # None
          /\ local' = [local EXCEPT ![b] = Acknowledged(@)]
          /\ acks' = IF persist THEN [acks EXCEPT ![b] = Remembered(local[b], @)]
                                ELSE acks
          /\ IF persist THEN write_acknowledgements
                        ELSE UNCHANGED <<ackFile, unsaved>>
          /\ daemon = "up"
          /\ UNCHANGED <<daemon, scan, previous, stateFile>>
      BY <1>3 DEF acknowledge
    <2>2. acks'[b] = Taken(local[b], acks[b])
      BY <1>1, <2>1 DEF Taken
    <2>3. \A a \in Agent : a # b => local'[a] = local[a] /\ acks'[a] = acks[a]
      BY <1>1, <2>1
    <2>4. local'[b] = Acknowledged(local[b])
      BY <1>1, <2>1
    <2>5. QED
      BY <2>1, <2>2, <2>3, <2>4
  <1>4. QED
    BY <1>2, <1>3

(* The end of a daemon: what is still remembered of a publication is what  *)
(* the files rebuild.                                                      *)
LEMMA CrashStep ==
    ASSUME IInv, TypeInv', Crash
    PROVE  IInv'
  <1>1. /\ daemon # "down" /\ daemon' = "down" /\ scan' = "rest" /\ unsaved' = {}
        /\ previous' = [a \in Agent |-> None]
        /\ local' = [a \in Agent |-> IF Saved(a) THEN local[a] ELSE None]
        /\ stateFile' = stateFile /\ ackFile' = ackFile
    BY DEF Crash
  <1>2. ASSUME NEW a \in Agent PROVE AgentInv(a)'
    <2>1. /\ InStep(local[a], acks[a]) /\ InStep(None, ackFile[a])
          /\ Sound(stateFile[a])
      BY <1>1 DEF IInv, AgentInv, Published
    <2>2. Sound(previous[a])'
      BY <1>1 DEF Sound
    <2>3. local'[a] # None => /\ Rebuilds(stateFile[a], ackFile[a], local'[a])
                              /\ InStep(local'[a], ackFile[a])
      <3>1. CASE Saved(a)
        <4>1. ackFile[a] = acks[a] /\ Rebuilds(stateFile[a], ackFile[a], local[a])
          BY <3>1, SavedIsRebuilt DEF IInv
        <4>2. QED
          BY <1>1, <2>1, <3>1, <4>1
      <3>2. CASE ~Saved(a)
        BY <1>1, <3>2
      <3>3. QED
        BY <3>1, <3>2
    <2>4. Published(a)'
      BY <1>1, <2>3 DEF Published
    <2>5. QED
      BY <1>1, <2>1, <2>2, <2>4 DEF AgentInv
  <1>3. Files'
    BY <1>1 DEF Files
  <1>4. QED
    BY <1>2, <1>3 DEF IInv

(* Every step keeps memory and files in step.                              *)
LEMMA StepIInv == IInv /\ [Next]_vars => IInv'
  <1> SUFFICES ASSUME IInv, [Next]_vars PROVE IInv'
    OBVIOUS
  <1>1. TypeInv'
    BY StepTypes DEF IInv
  <1>2. CASE Boot
    BY <1>1, <1>2, BootStep
  <1>3. CASE Announce
    BY <1>1, <1>3, AnnounceStep
  <1>4. CASE Scan
    BY <1>1, <1>4, ScanStep
  <1>5. CASE PublishNothing
    BY <1>1, <1>5, PublishNothingStep
  <1>6. CASE PublishLocal
    BY <1>1, <1>6, PublishLocalStep
  <1>7. CASE SaveState
    BY <1>1, <1>7, SaveStateStep
  <1>8. CASE mark_all_read \/ \E a \in Agent : acknowledge(a)
    BY <1>1, <1>8, Acknowledges, AcknowledgeStep
  <1>9. CASE Crash
    BY <1>1, <1>9, CrashStep
  <1>10. CASE UNCHANGED vars
    BY <1>10 DEF vars, IInv, TypeInv, TypeOK, Files, AgentInv, Published, Base, Ahead
  <1>11. QED
    BY <1>2, <1>3, <1>4, <1>5, <1>6, <1>7, <1>8, <1>9, <1>10 DEF Next

-----------------------------------------------------------------------------
(* The theorems.                                                           *)

(* Published records, acknowledgements and the two files stay in step, for *)
(* every set of agents, outcomes and stamps.                               *)
THEOREM AttentionInvariance == Spec => []IInv
  BY InitIInv, StepIInv, PTL DEF Spec

(* Every record and acknowledgement is always of its type, in memory and   *)
(* in the files.                                                           *)
THEOREM AttentionTypeCorrect == Spec => []TypeOK
  <1>1. IInv => TypeOK
    BY DEF IInv, TypeInv
  <1>2. QED
    BY <1>1, AttentionInvariance, PTL

(* Whenever the scan loop rests and no write failed, the two files hold    *)
(* what a restart needs of everything that was published, the publication  *)
(* that changed nothing and saved nothing included.                        *)
THEOREM FilesInStep == Spec => []FilesHoldWhatIsPublished
  <1>1. IInv => FilesHoldWhatIsPublished
    <2> SUFFICES ASSUME IInv, daemon = "up", scan # "published", unsaved = {},
                        NEW a \in Agent
                 PROVE  Saved(a)
      BY DEF FilesHoldWhatIsPublished
    <2>1. PICK base \in Record : Base(base, a)
      BY DEF IInv, AgentInv, Published
    <2>2. stateFile[a] = base /\ Rebuilds(base, acks[a], local[a])
      BY <2>1 DEF Base
    <2>3. ackFile[a] = acks[a]
      BY DEF IInv, Files
    <2>4. QED
      BY <2>2, <2>3, SavedIsRebuilt DEF IInv
  <1>2. QED
    BY <1>1, AttentionInvariance, PTL

-----------------------------------------------------------------------------
(* What a step shows of an agent.                                          *)

(* CompletionIsShown and ReadStaysRead for one agent, whose published      *)
(* record shown becomes then while its acknowledgement ack becomes kept.   *)
ShowsCompletion(shown, then, ack, kept) ==
    /\ IdleHidden(then)
    /\ shown.state \in Active \/ ~shown.seen
    /\ then.seen
    => \/ kept.completion /\ ~ack.completion
       \/ shown.state \in Active /\ ack.goal # None

KeepsRead(shown, then) ==
    /\ /\ shown.state = "idle" /\ shown.seen
       /\ then.state = "idle" /\ ~then.seen
       => \/ Pursuing(then)
          \/ CurrentGoal(then) # None
             /\ CurrentGoal(then) # CurrentGoal(shown)
    /\ /\ NoticePending(then)
       /\ ~NoticePending(shown)
       /\ GoalOf(shown) # None
       => then.goal.outcome # shown.goal.outcome

(* A published goal has the outcome of the scanner's goal.                 *)
LEMMA ShownOutcome ==
    ASSUME NEW r \in StampedRecord, NEW ack \in Acknowledgement
    PROVE  LET goal == ShownGoal(r, ack)
           IN  /\ goal = None <=> r.goal = None
               /\ r.goal # None => goal.outcome = r.goal.outcome
               /\ (goal # None /\ goal.pending) => goal = r.goal
  <1>1. r.goal \in GoalInfo \cup {None}
    BY DEF StampedRecord, AgentRecord
  <1>2. \/ ShownGoal(r, ack) = r.goal
        \/ /\ r.goal \in GoalInfo /\ r.goal # None
           /\ ShownGoal(r, ack) = [r.goal EXCEPT !.pending = FALSE]
    BY ShownGoalFacts
  <1>3. CASE ShownGoal(r, ack) = r.goal
    BY <1>3
  <1>4. CASE /\ r.goal \in GoalInfo /\ r.goal # None
             /\ ShownGoal(r, ack) = [r.goal EXCEPT !.pending = FALSE]
    <2>1. /\ ShownGoal(r, ack) \in GoalInfo
          /\ ShownGoal(r, ack).outcome = r.goal.outcome
          /\ ShownGoal(r, ack).pending = FALSE
      BY <1>4 DEF GoalInfo
    <2>2. ShownGoal(r, ack) # None
      BY <2>1, NoneAssumption
    <2>3. QED
      BY <1>4, <2>1, <2>2
  <1>5. QED
    BY <1>2, <1>3, <1>4

(* A publication hides no completion.                                      *)
LEMMA PublicationShowsCompletion ==
    ASSUME NEW old \in Record, NEW next \in Record, NEW ack \in Acknowledgement,
           NEW shown \in Record, shown # None, Overlaid(next, ack) # None,
           Sound(old), Follows(old, next), Rebuilds(old, ack, shown),
           InStep(shown, ack)
    PROVE  ShowsCompletion(shown, Overlaid(next, ack), ack, KeptAck(next, ack))
  <1> DEFINE then == Overlaid(next, ack)
  <1>1. next # None /\ next \in StampedRecord
    BY DEF Overlaid, Record
  <1>2. /\ then.state = next.state /\ then.visible = next.visible
        /\ then.seen <=> \/ next.seen
                         \/ ack.completion /\ ~Retired(next, ack) /\ next.state = "idle"
    BY <1>1, OverlaidFields
  <1>3. next.seen <=> next_seen(old, next.state, next.visible)
    BY <1>1, FollowsFields
  <1>4. /\ old # None /\ old \in AgentRecord /\ shown \in AgentRecord
        /\ old.state = shown.state
        /\ old.seen => shown.seen
    BY DEF Rebuilds, Record, StampedRecord
  <1>5. shown.state \in States
    BY <1>4 DEF AgentRecord
  <1> SUFFICES ASSUME IdleHidden(then), shown.state \in Active \/ ~shown.seen, then.seen
               PROVE  shown.state \in Active /\ ack.goal # None
    BY DEF ShowsCompletion
  <1>6. next.state = "idle" /\ ~next.visible
    BY <1>2 DEF IdleHidden
  <1>7. ~next.seen
    BY <1>3, <1>4, <1>6 DEF next_seen
  <1>8. ack.completion
    BY <1>2, <1>7
  <1>9. QED
    BY <1>5, <1>8 DEF InStep, States, Active

(* A publication makes nothing unread that was read, but by a goal.        *)
LEMMA PublicationKeepsRead ==
    ASSUME NEW old \in Record, NEW next \in Record, NEW ack \in Acknowledgement,
           NEW shown \in Record, shown # None, Overlaid(next, ack) # None,
           Sound(old), Follows(old, next), Rebuilds(old, ack, shown),
           InStep(shown, ack)
    PROVE  KeepsRead(shown, Overlaid(next, ack))
  <1> DEFINE then == Overlaid(next, ack)
             covered(r) == SameGoal(r, ack) /\ ~Retired(r, ack)
  <1>1. /\ next # None /\ next \in StampedRecord /\ next \in AgentRecord
        /\ next.goal \in GoalInfo \cup {None}
    BY DEF Overlaid, Record, StampedRecord, AgentRecord
  <1>2. /\ then.state = next.state /\ then.visible = next.visible
        /\ then.goal = ShownGoal(next, ack) /\ then # None
        /\ then.seen <=> \/ next.seen
                         \/ ack.completion /\ ~Retired(next, ack) /\ next.state = "idle"
    BY <1>1, OverlaidFields
  <1>3. /\ old # None /\ old \in StampedRecord /\ old \in AgentRecord
        /\ old.goal \in GoalInfo \cup {None}
        /\ old.state = shown.state
        /\ shown.goal = ShownGoal(old, ack)
        /\ shown.seen /\ shown.state = "idle" => old.seen \/ ack.completion
    BY DEF Rebuilds, Record, StampedRecord, AgentRecord
  <1>4. PICK now \in Stamp, observed \in Outcome \cup {"pursuing", None} :
            /\ next.seen <=> next_seen(old, next.state, next.visible)
            /\ next.goal = goal_lifecycle(old, next.state, observed, now)
    BY <1>1, FollowsFields
  <1>5. ASSUME shown.state = "idle", shown.seen, then.state = "idle", ~then.seen
        PROVE  \/ Pursuing(then)
               \/ CurrentGoal(then) # None /\ CurrentGoal(then) # CurrentGoal(shown)
    <2>1. next.state = "idle" /\ ~next.seen
      BY <1>2, <1>5
    <2>2. ~old.seen
      BY <1>3, <1>4, <1>5, <2>1 DEF next_seen, Active
    <2>3. ack.completion
      BY <1>3, <1>5, <2>2
    <2>4. Retired(next, ack)
      BY <1>2, <1>5, <2>1, <2>3
    <2>5. then.goal = next.goal
      BY <1>1, <1>2, <2>4, ShownGoalFacts
    <2>6. Pursuing(next) \/ NewGoal(next, ack)
      BY <2>1, <2>4 DEF Retired, Active
    <2>7. CASE Pursuing(next)
      BY <2>5, <2>7 DEF Pursuing
    <2>8. CASE NewGoal(next, ack)
      <3>1. CurrentGoal(then) = CurrentGoal(next)
        BY <2>5 DEF CurrentGoal, Pursuing
      <3>2. ~NewGoal(shown, ack)
        BY <1>5, <2>3 DEF InStep
      <3>3. QED
        BY <2>8, <3>1, <3>2 DEF NewGoal
    <2>9. QED
      BY <2>6, <2>7, <2>8
  <1>6. ASSUME NoticePending(then), ~NoticePending(shown), GoalOf(shown) # None,
               then.goal.outcome = shown.goal.outcome
        PROVE  FALSE
    <2>1. then.goal # None /\ then.goal.pending
      BY <1>6 DEF NoticePending, GoalOf
    <2>2. next.goal = then.goal /\ next.goal # None /\ next.goal \in GoalInfo
      BY <1>1, <1>2, <2>1, ShownOutcome
    <2>3. shown.goal # None /\ ~shown.goal.pending
      BY <1>6 DEF NoticePending, GoalOf
    <2>4. /\ old.goal # None /\ old.goal \in GoalInfo /\ GoalOf(old) # None
          /\ old.goal.outcome = shown.goal.outcome
      BY <1>3, <2>3, ShownOutcome DEF GoalOf
    <2>5. next.state \in States
      BY <1>1 DEF AgentRecord
    <2>6. next.goal.at = old.goal.at /\ old.goal.pending
      <3>1. next.goal.outcome = old.goal.outcome /\ next.goal.pending
        BY <1>6, <2>1, <2>2, <2>4
      <3> DEFINE goal == goal_lifecycle(old, next.state, observed, now)
      <3>2. goal # None /\ goal.outcome = old.goal.outcome
        BY <1>4, <2>2, <3>1
      <3>3. goal.at = old.goal.at /\ (goal.pending => old.goal.pending)
        BY <2>4, <2>5, <3>2, SameOutcome
      <3>4. QED
        BY <1>4, <3>1, <3>3
    <2>7. covered(old)
      BY <1>3, <2>3, <2>6, ShownGoalFacts
    <2>8. /\ ack.goal = next.goal.at /\ next.goal.at > 0
          /\ next.goal.outcome # "pursuing" /\ ack.goal # None
      <3>1. CurrentGoal(old) # None /\ ack.goal = CurrentGoal(old).at
        BY <2>7 DEF SameGoal
      <3>2. CurrentGoal(old) = old.goal /\ ~Pursuing(old) /\ old.goal.at > 0
        BY <3>1 DEF CurrentGoal
      <3>3. old.goal.outcome # "pursuing"
        BY <2>4, <3>2 DEF Pursuing
      <3>4. next.goal.outcome # "pursuing"
        BY <1>6, <2>2, <2>4, <3>3
      <3>5. next.goal.at \in Stamp
        BY <2>2, <2>6, <3>2 DEF GoalInfo
      <3>6. QED
        BY <2>6, <3>1, <3>2, <3>4, <3>5, StampsArePositive
    <2>9. CurrentGoal(next) = next.goal /\ ~Pursuing(next)
      BY <2>2, <2>8 DEF CurrentGoal, Pursuing
    <2>10. SameGoal(next, ack)
      BY <2>2, <2>8, <2>9 DEF SameGoal
    <2>11. ~Retired(next, ack)
      BY <2>1, <2>2, <2>8, <2>9, <2>10 DEF Retired, NewGoal
    <2>12. then.goal = [next.goal EXCEPT !.pending = FALSE]
      BY <1>1, <1>2, <2>10, <2>11, ShownGoalFacts
    <2>13. then.goal.pending = FALSE
      BY <2>2, <2>12 DEF GoalInfo
    <2>14. QED
      BY <2>1, <2>13
  <1>7. QED
    BY <1>5, <1>6 DEF KeepsRead

(* An acknowledgement hides no completion but the one it remembers, and    *)
(* brings nothing back.                                                    *)
LEMMA AcknowledgementShows ==
    ASSUME NEW ack \in Acknowledgement, NEW shown \in Record, shown # None,
           InStep(shown, ack)
    PROVE  /\ ShowsCompletion(shown, Acknowledged(shown), ack, Taken(shown, ack))
           /\ KeepsRead(shown, Acknowledged(shown))
  <1> DEFINE then == Acknowledged(shown)
  <1>1. shown \in AgentRecord /\ shown.goal \in GoalInfo \cup {None}
    BY DEF Record, StampedRecord, AgentRecord
  <1>2. WithoutNotice(shown.goal) \in GoalInfo \cup {None}
        /\ (WithoutNotice(shown.goal) = None \/ ~WithoutNotice(shown.goal).pending)
    BY <1>1, WithoutNoticeType
  <1>3. then \in AgentRecord
    BY <1>1, <1>2 DEF Acknowledged, AgentRecord
  <1>4. /\ then.state = shown.state /\ then.seen = TRUE
        /\ then.goal = WithoutNotice(shown.goal)
    BY <1>1, <1>3 DEF Acknowledged, AgentRecord
  <1>5. ~NoticePending(then)
    BY <1>2, <1>4 DEF NoticePending, GoalOf
  <1>6. ShowsCompletion(shown, then, ack, Taken(shown, ack))
    <2> SUFFICES ASSUME IdleHidden(then), shown.state \in Active \/ ~shown.seen
                 PROVE  Taken(shown, ack).completion /\ ~ack.completion
      BY DEF ShowsCompletion
    <2>1. shown.state = "idle" /\ ~shown.seen
      BY <1>4 DEF IdleHidden, Active
    <2>2. ~ack.completion
      BY <2>1 DEF InStep
    <2>3. Taken(shown, ack).completion
      BY <2>1 DEF Taken, Remembered
    <2>4. QED
      BY <2>2, <2>3
  <1>7. QED
    BY <1>4, <1>5, <1>6 DEF KeepsRead

(* What every step shows of an agent that was and is published.            *)
LEMMA StepShows ==
    ASSUME IInv, [Next]_vars, NEW a \in Agent, Known(a)
    PROVE  /\ ShowsCompletion(local[a], local'[a], acks[a], acks'[a])
           /\ KeepsRead(local[a], local'[a])
  <1>1. /\ local[a] # None /\ local'[a] # None
        /\ local \in [Agent -> Record] /\ previous[a] \in Record
        /\ acks[a] \in Acknowledgement
    BY DEF Known, IInv, TypeInv, TypeOK
  <1>2. CASE local'[a] = local[a]
    BY <1>2 DEF ShowsCompletion, KeepsRead, IdleHidden, Active
  <1>3. CASE /\ daemon # "down" /\ Ahead
             /\ local' = AppliedRecords /\ acks' = AppliedAcks
    <2>1. PICK base \in Record : Base(base, a)
      BY <1>3 DEF IInv, AgentInv, Published
    <2>2. /\ Sound(base) /\ Follows(base, previous[a])
          /\ Rebuilds(base, acks[a], local[a]) /\ InStep(local[a], acks[a])
      BY <1>1, <1>3, <2>1 DEF Base, IInv, AgentInv, Published
    <2>3. /\ local'[a] = Overlaid(previous[a], acks[a])
          /\ acks'[a] = KeptAck(previous[a], acks[a])
      BY <1>3 DEF AppliedRecords, AppliedAcks
    <2>4. local[a] \in Record
      BY <1>1
    <2>5. QED
      BY <1>1, <2>2, <2>3, <2>4, PublicationShowsCompletion, PublicationKeepsRead
  <1>4. CASE mark_all_read \/ \E b \in Agent : acknowledge(b)
    <2>1. /\ daemon = "up"
          /\ \/ /\ local'[a] = Acknowledged(local[a])
                /\ acks'[a] = Taken(local[a], acks[a])
             \/ local'[a] = local[a]
      BY <1>4, Acknowledges
    <2>2. InStep(local[a], acks[a]) /\ local[a] \in Record
      BY <1>1, <2>1 DEF IInv, AgentInv, Published
    <2>3. QED
      BY <1>1, <1>2, <2>1, <2>2, AcknowledgementShows
  <1>5. CASE Announce \/ PublishLocal \/ PublishNothing
    BY <1>3, <1>5 DEF Announce, PublishLocal, PublishNothing, Ahead
  <1>6. CASE Boot \/ Scan \/ SaveState \/ UNCHANGED vars
    BY <1>2, <1>6 DEF Boot, Scan, SaveState, vars
  <1>7. CASE Crash
    BY <1>1, <1>2, <1>7 DEF Crash
  <1>8. QED
    BY <1>4, <1>5, <1>6, <1>7 DEF Next

(* A turn that ends out of sight stays shown as done until the user        *)
(* acknowledges it, across restarts too, for every set of agents.          *)
THEOREM CompletionStaysShown == Spec => CompletionIsShown
  <1>1. ASSUME IInv, [Next]_vars, NEW a \in Agent, Known(a),
               IdleHidden(local'[a]), local[a].state \in Active \/ ~local[a].seen,
               local'[a].seen
        PROVE  \/ acks'[a].completion /\ ~acks[a].completion
               \/ local[a].state \in Active /\ acks[a].goal # None
    BY <1>1, StepShows DEF ShowsCompletion
  <1>2. IInv /\ [Next]_vars =>
            [\A a \in Agent :
                /\ Known(a)
                /\ IdleHidden(local'[a])
                /\ local[a].state \in Active \/ ~local[a].seen
                /\ local'[a].seen
                => \/ acks'[a].completion /\ ~acks[a].completion
                   \/ local[a].state \in Active /\ acks[a].goal # None]_vars
    BY <1>1
  <1>3. QED
    BY <1>2, AttentionInvariance, PTL DEF Spec, CompletionIsShown

(* What was read stays read and a notice that is over does not come back   *)
(* for the same outcome, across restarts too, for every set of agents.     *)
THEOREM ReadRemains == Spec => ReadStaysRead
  <1>1. ASSUME IInv, [Next]_vars, NEW a \in Agent, Known(a)
        PROVE  /\ /\ local[a].state = "idle" /\ local[a].seen
                  /\ local'[a].state = "idle" /\ ~local'[a].seen
                  => \/ Pursuing(local'[a])
                     \/ CurrentGoal(local'[a]) # None
                        /\ CurrentGoal(local'[a]) # CurrentGoal(local[a])
               /\ /\ NoticePending(local'[a])
                  /\ ~NoticePending(local[a])
                  /\ GoalOf(local[a]) # None
                  => local'[a].goal.outcome # local[a].goal.outcome
    BY <1>1, StepShows DEF KeepsRead
  <1>2. IInv /\ [Next]_vars =>
            [\A a \in Agent :
                Known(a) =>
                    /\ /\ local[a].state = "idle" /\ local[a].seen
                       /\ local'[a].state = "idle" /\ ~local'[a].seen
                       => \/ Pursuing(local'[a])
                          \/ CurrentGoal(local'[a]) # None
                             /\ CurrentGoal(local'[a]) # CurrentGoal(local[a])
                    /\ /\ NoticePending(local'[a])
                       /\ ~NoticePending(local[a])
                       /\ GoalOf(local[a]) # None
                       => local'[a].goal.outcome # local[a].goal.outcome]_vars
    BY <1>1
  <1>3. QED
    BY <1>2, AttentionInvariance, PTL DEF Spec, ReadStaysRead

-----------------------------------------------------------------------------
(***************************************************************************)
(* Observation, for every set of processes, titles and screens.            *)
(***************************************************************************)

(* A quiet screen that is pending was captured: it is one of the history.  *)
ObservationInv ==
    /\ ObservationTypeOK
    /\ identity # None => look # None
    /\ tracker # None => tracker.pending_idle <= quietRun

(* What the detector makes of a title and a screen.                        *)
LEMMA Detected ==
    ASSUME NEW title \in Titles, NEW screen \in Screens \cup {None}
    PROVE  LET detection == Detection(title, screen)
           IN  /\ detection.state \in RecordStates
               /\ detection.inferred \in BOOLEAN
               /\ detection.preserve_previous \in BOOLEAN
               /\ detection.state \in ActiveStates <=>
                     title \in ActiveTitles \/ screen \in ActiveScreens
               /\ detection.inferred <=> title = "empty" /\ screen = "quiet"
               /\ detection.inferred => ~detection.preserve_previous
               /\ detection.state = "idle" =>
                     \/ detection.preserve_previous
                     \/ detection.inferred
                     \/ title = "static"
<1> DEFINE detection == Detection(title, screen)
<1> USE DEF ActiveTitles, ActiveScreens, ActiveStates
<1>1. screen # None => screen \in Screen
  BY ScreensAssumption
<1>2. None \notin {"working footer", "question", "transcript", "quiet"}
  BY ObservationNone DEF Screen
<1>3. title \in {"activity", "action required", "static", "empty"}
  BY TitlesAssumption
<1>4. /\ detection.inferred = (title = "empty" /\ screen = "quiet")
      /\ detection.preserve_previous =
            (title \notin ActiveTitles /\ screen \in {"transcript", None})
  BY DEF Detection
<1>5. CASE title = "action required"
  <2>1. detection.state = "blocked"
    BY <1>5 DEF Detection
  <2> QED
    BY <1>2, <1>4, <1>5, <2>1 DEF RecordStates
<1>6. CASE title = "activity"
  <2>1. detection.state = "working"
    BY <1>6 DEF Detection
  <2> QED
    BY <1>2, <1>4, <1>6, <2>1 DEF RecordStates
<1>7. CASE title \in {"static", "empty"}
  <2>1. detection.state = CASE screen = "question" -> "blocked"
                            [] screen = "working footer" -> "working"
                            [] OTHER -> "idle"
    BY <1>7 DEF Detection
  <2>2. detection.state = IF screen = "question" THEN "blocked"
                          ELSE IF screen = "working footer" THEN "working"
                          ELSE "idle"
    BY <2>1
  <2> QED
    BY <1>1, <1>2, <1>4, <1>7, <2>2 DEF RecordStates, Screen
<1> QED
  BY <1>3, <1>5, <1>6, <1>7

(* What the stabilizer makes of it, and how much it may have waited for.   *)
LEMMA Stabilized ==
    ASSUME ObservationInv, AgentFound,
           NEW screen \in Screens \cup {None}, NEW fresh \in BOOLEAN,
           stabilize_observation(Detection(look.title, screen), fresh)
    PROVE  /\ record' \in RecordStates
           /\ tracker' \in StateObservation
           /\ tracker'.identity = identity.proc
           /\ tracker'.pending_idle # 0 =>
                 /\ look.title = "empty" /\ screen = "quiet"
                 /\ tracker'.pending_idle =
                       IF fresh THEN PendingIdle + 1 ELSE PendingIdle
           /\ KnownProcess /\ record \in ActiveStates /\ record' = "idle" =>
                 \/ look.title = "static"
                 \/ /\ look.title = "empty" /\ screen = "quiet"
                    /\ fresh /\ PendingIdle >= 1
           /\ tracker # None /\ ~KnownProcess /\ record' \in ActiveStates =>
                 \/ look.title \in ActiveTitles
                 \/ screen \in ActiveScreens
<1> DEFINE detection == Detection(look.title, screen)
           state == detection.state
           inferred == detection.inferred
           preserve == detection.preserve_previous
<1>1. look \in Look /\ look.title \in Titles /\ identity.proc \in Proc
  BY DEF ObservationInv, ObservationTypeOK, AgentFound, Look, Identity
<1>2. /\ state \in RecordStates
      /\ inferred \in BOOLEAN
      /\ preserve \in BOOLEAN
      /\ state \in ActiveStates <=>
            look.title \in ActiveTitles \/ screen \in ActiveScreens
      /\ inferred <=> look.title = "empty" /\ screen = "quiet"
      /\ inferred => ~preserve
      /\ state = "idle" => preserve \/ inferred \/ look.title = "static"
  BY <1>1, Detected
<1>3. /\ Previous \in RecordStates \cup {None}
      /\ PendingIdle \in 0 .. 1
      /\ KnownProcess => Previous = record
      /\ tracker # None /\ ~KnownProcess => Previous = None
  BY DEF ObservationInv, ObservationTypeOK, Previous, PendingIdle, KnownProcess,
         StateObservation, INFERRED_IDLE_OBSERVATIONS
<1>4. /\ None \notin RecordStates /\ "idle" \in RecordStates
      /\ "idle" \notin ActiveStates
      /\ ActiveStates \subseteq RecordStates
  BY ObservationNone DEF RecordStates, ActiveStates
<1> HIDE DEF detection, state, inferred, preserve
<1>5. /\ tracker' = [identity |-> identity.proc,
                     pending_idle |-> tracker'.pending_idle]
      /\ \/ /\ preserve
            /\ record' = IF Previous = None THEN "idle" ELSE Previous
            /\ tracker'.pending_idle = 0
         \/ /\ ~preserve /\ inferred /\ Previous \in ActiveStates
            /\ ~(fresh /\ PendingIdle + 1 >= 2)
            /\ record' = Previous
            /\ tracker'.pending_idle =
                  IF fresh THEN PendingIdle + 1 ELSE PendingIdle
         \/ /\ ~preserve
            /\ inferred /\ Previous \in ActiveStates =>
                  fresh /\ PendingIdle + 1 >= 2
            /\ record' = state
            /\ tracker'.pending_idle = 0
  BY <1>2 DEF stabilize_observation, Observe, detection, state, inferred,
         preserve, INFERRED_IDLE_OBSERVATIONS
<1>6. tracker'.identity = identity.proc
  BY <1>5
<1>7. record' \in RecordStates
  BY <1>2, <1>3, <1>4, <1>5
<1>8. tracker'.pending_idle \in 0 .. 1
  BY <1>3, <1>5
<1>9. tracker' \in StateObservation
  BY <1>1, <1>5, <1>8 DEF StateObservation, INFERRED_IDLE_OBSERVATIONS
<1>10. tracker'.pending_idle # 0 =>
          /\ look.title = "empty" /\ screen = "quiet"
          /\ tracker'.pending_idle =
                IF fresh THEN PendingIdle + 1 ELSE PendingIdle
  BY <1>2, <1>5
<1>11. ASSUME KnownProcess, record \in ActiveStates, record' = "idle"
       PROVE  \/ look.title = "static"
              \/ /\ look.title = "empty" /\ screen = "quiet"
                 /\ fresh /\ PendingIdle >= 1
  BY <1>11, <1>2, <1>3, <1>4, <1>5
<1>12. ASSUME tracker # None, ~KnownProcess, record' \in ActiveStates
       PROVE  look.title \in ActiveTitles \/ screen \in ActiveScreens
  BY <1>12, <1>2, <1>3, <1>4, <1>5
<1> QED
  BY <1>6, <1>7, <1>9, <1>10, <1>11, <1>12

(* The invariant holds at the start.                                       *)
LEMMA ObservationInvInit ==
    ASSUME ObservationInit PROVE ObservationInv
<1>1. table \in Proc \cup {None}
  BY DEF ObservationInit, Pane
<1>2. tableOld \in BOOLEAN /\ cacheOld \in BOOLEAN
  BY Zenon DEF ObservationInit
<1> QED
  BY <1>1, <1>2
  DEF ObservationInit, ObservationInv, ObservationTypeOK,
      INFERRED_IDLE_OBSERVATIONS

(* The history counts at least what the tracker has pending.               *)
LEMMA StabilizedInv ==
    ASSUME ObservationInv, AgentFound, ScanEnds,
           UNCHANGED <<pane, table, tableOld>>,
           NEW screen \in Screens \cup {None}, NEW fresh \in BOOLEAN,
           stabilize_observation(Detection(look.title, screen), fresh),
           cache' \in CaptureEntry \cup {None}, cacheOld' \in BOOLEAN,
           quietRun' = IF fresh
                       THEN IF screen # "quiet" THEN 0
                            ELSE IF QuietSoFar < 2 THEN QuietSoFar + 1
                            ELSE QuietSoFar
                       ELSE QuietSoFar
    PROVE  ObservationInv'
<1>1. /\ record' \in RecordStates
      /\ tracker' \in StateObservation
      /\ tracker'.pending_idle # 0 =>
            /\ look.title = "empty" /\ screen = "quiet"
            /\ tracker'.pending_idle =
                  IF fresh THEN PendingIdle + 1 ELSE PendingIdle
  BY Stabilized
<1>2. /\ quietRun \in 0 .. 2 /\ QuietSoFar \in 0 .. 2
      /\ tracker'.pending_idle \in 0 .. 1
      /\ PendingIdle \in 0 .. 1
  BY <1>1 DEF ObservationInv, ObservationTypeOK, QuietSoFar, INFERRED_IDLE_OBSERVATIONS,
         StateObservation, PendingIdle, KnownProcess
<1>3. ASSUME look.title = "empty" PROVE PendingIdle <= QuietSoFar
  <2>1. look.title \notin ActiveTitles
    BY <1>3 DEF ActiveTitles
  <2>2. CASE KnownProcess
    <3>1. tracker # None /\ tracker.pending_idle <= quietRun
      BY <2>2 DEF ObservationInv, KnownProcess
    <3> QED
      BY <2>1, <2>2, <3>1 DEF PendingIdle, QuietSoFar
  <2>3. CASE ~KnownProcess
    BY <2>1, <2>3 DEF PendingIdle, QuietSoFar
  <2> QED
    BY <2>2, <2>3
<1>4. quietRun' \in 0 .. 2
  BY <1>2
<1>5. tracker'.pending_idle <= quietRun'
  BY <1>1, <1>2, <1>3, <1>4
<1>6. ObservationTypeOK'
  BY <1>1, <1>4
  DEF ObservationInv, ObservationTypeOK, ScanEnds,
      INFERRED_IDLE_OBSERVATIONS
<1> QED
  BY <1>5, <1>6 DEF ObservationInv, ScanEnds

(* Every step of a scan keeps the invariant.                               *)
LEMMA ObservationInvStep ==
    ASSUME ObservationInv, [ObservationNext]_observationVars
    PROVE  ObservationInv'
<1> USE DEF INFERRED_IDLE_OBSERVATIONS
<1>1. CASE PaneChanges
  <2>1. pane' \in Pane
    BY <1>1 DEF PaneChanges, ObservationInv, ObservationTypeOK, Pane
  <2> QED
    BY <1>1, <2>1 DEF PaneChanges, scanVars, ObservationInv, ObservationTypeOK
<1>2. CASE ASecondPasses
  BY <1>2 DEF ASecondPasses, ObservationInv, ObservationTypeOK
<1>3. CASE ListPanes
  <2>1. look' \in Look /\ look' # None
    BY <1>3, ObservationNone DEF ListPanes, ObservationInv, ObservationTypeOK, Pane, Look
  <2> QED
    BY <1>3, <2>1 DEF ListPanes, ObservationInv, ObservationTypeOK
<1>4. CASE ProcessSnapshot
  <2>1. table' \in Proc \cup {None} /\ identity' \in Identity
    BY <1>4 DEF ProcessSnapshot, ObservationInv, ObservationTypeOK, Pane, Identity
  <2> QED
    BY <1>4, <2>1 DEF ProcessSnapshot, ObservationInv, ObservationTypeOK
<1>5. CASE ScanFails
  BY <1>5 DEF ScanFails, ScanEnds, ObservationInv, ObservationTypeOK
<1>6. CASE NoAgent
  BY <1>6 DEF NoAgent, ScanEnds, ObservationInv, ObservationTypeOK
<1>7. CASE Replay
  <2>1. cache \in CaptureEntry /\ cache.screen \in Screens \cup {None}
    BY <1>7 DEF Replay, ShouldCapture, ObservationInv, ObservationTypeOK, CaptureEntry
  <2>2. cacheOld' \in BOOLEAN
    BY <1>7 DEF Replay, ObservationInv, ObservationTypeOK
  <2> QED
    BY <1>7, <2>1, <2>2, StabilizedInv DEF Replay
<1>8. CASE Capture
  <2>1. /\ cache' \in CaptureEntry
        /\ pane.screen \in Screens
    BY <1>8 DEF Capture, AgentFound, ObservationInv, ObservationTypeOK, Pane, CaptureEntry
  <2>2. quietRun' = IF pane.screen # "quiet" THEN 0
                    ELSE IF QuietSoFar < 2 THEN QuietSoFar + 1
                    ELSE QuietSoFar
    BY <1>8 DEF Capture
  <2> QED
    BY <1>8, <2>1, <2>2, StabilizedInv DEF Capture
<1>9. CASE CaptureFails
  <2>1. cache' \in CaptureEntry
    BY <1>9 DEF CaptureFails, AgentFound, ObservationInv, ObservationTypeOK, CaptureEntry
  <2> QED
    BY <1>9, <2>1, StabilizedInv DEF CaptureFails
<1>10. CASE Restart
  <2>1. table' \in Proc \cup {None}
    BY <1>10 DEF Restart, ObservationInv, ObservationTypeOK, Pane
  <2>2. tableOld' \in BOOLEAN /\ cacheOld' \in BOOLEAN
    BY <1>10, Zenon DEF Restart
  <2> QED
    BY <1>10, <2>1, <2>2 DEF Restart, ScanEnds, ObservationInv, ObservationTypeOK
<1>11. CASE UNCHANGED observationVars
  BY <1>11 DEF observationVars, scanVars, ObservationInv, ObservationTypeOK
<1> QED
  BY <1>1, <1>2, <1>3, <1>4, <1>5, <1>6, <1>7, <1>8, <1>9, <1>10, <1>11
     DEF ObservationNext

(* The records of a pane's scans keep their types, and a quiet screen that *)
(* is pending was captured, for any processes, titles and screens.         *)
THEOREM ObservationInvariance ==
    ObservationSpec => []ObservationInv
<1>1. ObservationInit => ObservationInv
  BY ObservationInvInit
<1>2. ObservationInv /\ [ObservationNext]_observationVars => ObservationInv'
  BY ObservationInvStep
<1> QED
  BY <1>1, <1>2, PTL DEF ObservationSpec

(* The states, titles and screens of every scan keep their types.          *)
THEOREM ObservationTypeCorrect ==
    ObservationSpec => []ObservationTypeOK
  BY ObservationInvariance, PTL DEF ObservationInv

(* A step that turns a known process idle has seen it twice, or was told.  *)
LEMMA TurnsIdle ==
    ASSUME ObservationInv, [ObservationNext]_observationVars,
           record \in ActiveStates, record' = "idle", KnownProcess
    PROVE  look.title = "static" \/ quietRun' = INFERRED_IDLE_OBSERVATIONS
<1>1. record' # record /\ record' # None
  BY ObservationNone DEF ActiveStates, RecordStates
<1>2. CASE Replay
  <2>1. cache.screen \in Screens \cup {None}
    BY <1>2 DEF Replay, ShouldCapture, ObservationInv, ObservationTypeOK, CaptureEntry
  <2> QED
    BY <1>2, <2>1, Stabilized DEF Replay
<1>3. CASE Capture
  <2>1. pane.screen \in Screens
    BY <1>3 DEF Capture, ObservationInv, ObservationTypeOK, Pane
  <2>2. \/ look.title = "static"
        \/ /\ look.title = "empty" /\ pane.screen = "quiet"
           /\ PendingIdle >= 1
    BY <1>3, <2>1, Stabilized DEF Capture
  <2>3. ASSUME look.title = "empty", pane.screen = "quiet", PendingIdle >= 1
        PROVE  quietRun' = 2
    <3>1. QuietSoFar = quietRun
      BY <2>3 DEF QuietSoFar, ActiveTitles
    <3>2. tracker.pending_idle >= 1 /\ tracker.pending_idle <= quietRun
      BY <2>3 DEF PendingIdle, KnownProcess, ObservationInv
    <3>3. quietRun \in 0 .. 2 /\ tracker.pending_idle \in 0 .. 1
      BY DEF ObservationInv, ObservationTypeOK, KnownProcess, StateObservation,
             INFERRED_IDLE_OBSERVATIONS
    <3> QED
      BY <1>3, <2>3, <3>1, <3>2, <3>3
         DEF Capture, INFERRED_IDLE_OBSERVATIONS
  <2> QED
    BY <2>2, <2>3 DEF INFERRED_IDLE_OBSERVATIONS
<1>4. CASE CaptureFails
  <2>1. None \in Screens \cup {None} /\ None # "quiet"
    BY ObservationNone DEF Screen
  <2> QED
    BY <1>4, <2>1, Stabilized DEF CaptureFails
<1>5. ~NoAgent
  BY <1>1 DEF NoAgent
<1> QED
  BY <1>1, <1>2, <1>3, <1>4, <1>5
     DEF ObservationNext, observationVars, scanVars, PaneChanges, ASecondPasses,
         ListPanes, ProcessSnapshot, ScanFails, Restart

(* A process at work becomes idle by a title that says nothing of activity *)
(* or after two captured screens that show none.                           *)
THEOREM QuietTwice ==
    ObservationSpec => QuietTwiceBeforeIdle
<1>1. ObservationInv /\ [ObservationNext]_observationVars =>
         [(record \in ActiveStates /\ record' = "idle" /\ KnownProcess) =>
            \/ look.title = "static"
            \/ quietRun' = INFERRED_IDLE_OBSERVATIONS]_observationVars
  BY TurnsIdle
<1> QED
  BY <1>1, ObservationInvariance, PTL DEF ObservationSpec, QuietTwiceBeforeIdle

(* A step that calls a new process active has its own evidence.            *)
LEMMA TurnsActive ==
    ASSUME ObservationInv, [ObservationNext]_observationVars,
           tracker # None, tracker' # None,
           tracker'.identity # tracker.identity,
           record' \in ActiveStates
    PROVE  \/ look.title \in ActiveTitles
           \/ /\ cache'.identity.proc = tracker'.identity
              /\ cache'.screen \in ActiveScreens
<1>1. tracker' # tracker
  OBVIOUS
<1>2. CASE Replay
  <2>1. /\ cache.screen \in Screens \cup {None}
        /\ cache.identity = identity
        /\ cache' = cache
    BY <1>2 DEF Replay, ShouldCapture, ObservationInv, ObservationTypeOK, CaptureEntry
  <2>2. tracker'.identity = identity.proc
    BY <1>2, <2>1, Stabilized DEF Replay
  <2>3. ~KnownProcess
    BY <2>2 DEF KnownProcess
  <2> QED
    BY <1>2, <2>1, <2>2, <2>3, Stabilized DEF Replay
<1>3. CASE Capture
  <2>1. /\ pane.screen \in Screens
        /\ cache'.identity = identity /\ cache'.screen = pane.screen
    BY <1>3 DEF Capture, ObservationInv, ObservationTypeOK, Pane
  <2>2. tracker'.identity = identity.proc
    BY <1>3, <2>1, Stabilized DEF Capture
  <2>3. ~KnownProcess
    BY <2>2 DEF KnownProcess
  <2> QED
    BY <1>3, <2>1, <2>2, <2>3, Stabilized DEF Capture
<1>4. CASE CaptureFails
  <2>1. /\ None \in Screens \cup {None}
        /\ cache'.identity = identity /\ cache'.screen = None
    BY <1>4 DEF CaptureFails
  <2>2. tracker'.identity = identity.proc
    BY <1>4, <2>1, Stabilized DEF CaptureFails
  <2>3. ~KnownProcess
    BY <2>2 DEF KnownProcess
  <2> QED
    BY <1>4, <2>1, <2>2, <2>3, Stabilized DEF CaptureFails
<1>5. ~NoAgent /\ ~Restart
  BY DEF NoAgent, Restart
<1> QED
  BY <1>1, <1>2, <1>3, <1>4, <1>5
     DEF ObservationNext, observationVars, scanVars, PaneChanges, ASecondPasses,
         ListPanes, ProcessSnapshot, ScanFails

(* What is said of a new process rests on its own title or screen.         *)
THEOREM SpeaksForItself ==
    ObservationSpec => ProcessSpeaksForItself
<1>1. ObservationInv /\ [ObservationNext]_observationVars =>
         [/\ tracker # None /\ tracker' # None
          /\ tracker'.identity # tracker.identity
          /\ record' \in ActiveStates
          => \/ look.title \in ActiveTitles
             \/ /\ cache'.identity.proc = tracker'.identity
                /\ cache'.screen \in ActiveScreens]_observationVars
  BY TurnsActive
<1> QED
  BY <1>1, ObservationInvariance, PTL DEF ObservationSpec, ProcessSpeaksForItself
=============================================================================
