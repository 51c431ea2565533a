-------------------------- MODULE FederationProofs --------------------------
(***************************************************************************)
(* Proofs about Federation, for any agents, bounds and faults.             *)
(*                                                                         *)
(* The records of an agent leave the machine in the order of its turns     *)
(* (InOrder), and the acknowledgement of a completion is dropped only for  *)
(* an active record: what comes after that is a later completion.  So a    *)
(* record of an acknowledged completion, wherever it is, is still covered  *)
(* by its acknowledgement, and an acknowledgement shows in the record and  *)
(* in the overlay (AcksShow).                                              *)
(***************************************************************************)
EXTENDS Federation, TLAPS

(* The machine says s of an agent after it said r.                         *)
Before(r, s) ==
    \/ r.turn < s.turn
    \/ r.turn = s.turn /\ (r.state = "active" => s.state = "active")

(* A record of the completion that was acknowledged last is covered.       *)
CoveredIfRead(r, a) == r.turn = read[a] /\ r.state = "idle" => a \in acks

(* A record of the agent that has left the machine.                        *)
Behind(r, a) ==
    /\ r.turn <= turn[a]
    /\ peer[a] # None => Before(r, peer[a])
    /\ read[a] # None => read[a] <= r.turn
    /\ CoveredIfRead(r, a)

PeerInOrder ==
    \A a \in Agent :
        /\ peer[a] # None => peer[a].turn = turn[a] /\ CoveredIfRead(peer[a], a)
        /\ read[a] # None => read[a] <= turn[a]

RemoteInOrder ==
    \A a \in Agent : \A s \in AgentRecord : remote[a] = s => Behind(s, a)

(* The record s of the i-th snapshot in the pipe.                          *)
InPlace(s, a, i) ==
    /\ Behind(s, a)
    /\ remote[a] # None => Before(remote[a], s)
    /\ \A j \in 1..Len(stream) :
          i < j /\ stream[j][a] # None => Before(s, stream[j][a])

StreamInOrder ==
    \A a \in Agent : \A i \in 1..Len(stream) : \A s \in AgentRecord :
        stream[i][a] = s => InPlace(s, a, i)

(* What is acknowledged is not shown as done.                              *)
AcksShow ==
    \A a \in acks : remote[a] # None =>
        remote[a].state = "idle" /\ remote[a].seen /\ remote_seen[a] # FALSE

(* The overlay does not call undone what both panes show.                  *)
OverlayIsHonest ==
    \A a \in Agent :
        (remote[a] # None /\ remote[a].state = "idle" /\ remote_seen[a] = FALSE)
            => ~(remote[a].visible /\ Carrier(remote[a], transport, a) = "visible")

Order == PeerInOrder /\ RemoteInOrder /\ StreamInOrder

Overlay == AcksShow /\ OverlayFitsTransports /\ OverlayIsHonest

IInv == TypeOK /\ Order /\ Overlay

-----------------------------------------------------------------------------
(* The records an accepted snapshot leaves are records.                    *)
LEMMA OverlaidType ==
    ASSUME NEW records \in Agents, NEW completions
    PROVE  Overlaid(records, completions) \in Agents
  BY NoneAssumption DEF Overlaid, Covered, Agents, AgentRecord

(* The overlay is one of seen or not seen where it is anything.            *)
LEMMA ObservedType ==
    ASSUME NEW records, NEW previous, NEW transports, NEW overlay
    PROVE  Observed(records, previous, transports, overlay)
               \in [Agent -> BOOLEAN \cup {None}]
  BY DEF Observed, next_seen

(* A snapshot leaves a part of the acknowledgements.                       *)
LEMMA AcksType ==
    ASSUME NEW records, NEW completions \in SUBSET Agent
    PROVE  KeptAcks(records, completions) \subseteq Agent
  BY DEF KeptAcks

(* An acknowledgement keeps the types.                                     *)
LEMMA AcknowledgeAllType ==
    ASSUME TypeOK, NEW targets \in SUBSET Agent,
           \A a \in targets : remote[a] # None, AcknowledgeAll(targets)
    PROVE  TypeOK'
  <1> USE FederationAssumption, NoneAssumption
          DEF TypeOK, Agents, machine, pipe, AcknowledgeAll, write_acknowledgements
  <1> DEFINE idle == {a \in targets : remote[a].state = "idle"}
  <1>1. remote' \in [Agent -> AgentRecord \cup {None}]
    <2> SUFFICES ASSUME NEW a \in Agent
                 PROVE  (IF a \in targets THEN [remote[a] EXCEPT !.seen = TRUE]
                         ELSE remote[a]) \in AgentRecord \cup {None}
      OBVIOUS
    <2>1. CASE a \in targets
      <3>1. remote[a] \in AgentRecord
        BY <2>1
      <3>2. QED
        BY <2>1, <3>1 DEF AgentRecord
    <2>2. QED
      BY <2>1
  <1>2. remote_seen' \in [Agent -> BOOLEAN \cup {None}]
    OBVIOUS
  <1>3. acks' \subseteq Agent /\ ackFile' \subseteq Agent
    OBVIOUS
  <1>4. read' \in [Agent -> Turn \cup {None}]
    BY DEF AgentRecord
  <1>5. UNCHANGED <<peer, turn, news, link, stream, connected, transport>>
    OBVIOUS
  <1>6. QED
    BY <1>1, <1>2, <1>3, <1>4, <1>5

(* A remote snapshot keeps the types.                                      *)
LEMMA PublishRemoteType ==
    ASSUME TypeOK, publish_remote
    PROVE  TypeOK'
  <1> USE FederationAssumption, NoneAssumption
          DEF TypeOK, machine, publish_remote, write_acknowledgements
  <1>1. Head(stream) \in Agents /\ stream' \in Seq(Agents)
        /\ Len(stream') <= MaxQueue
    OBVIOUS
  <1>2. remote' \in Agents
    BY <1>1, OverlaidType
  <1>3. remote_seen' \in [Agent -> BOOLEAN \cup {None}]
    <2> DEFINE seen == Observed(Head(stream), remote, transport, remote_seen)
    <2>1. seen \in [Agent -> BOOLEAN \cup {None}]
      BY ObservedType
    <2> HIDE DEF seen
    <2>2. QED
      BY <2>1 DEF seen, ObservedWithAcks
  <1>4. acks' \subseteq Agent
    BY AcksType
  <1>5. ackFile' \subseteq Agent
    BY <1>4
  <1>6. QED
    BY <1>1, <1>2, <1>3, <1>4, <1>5

(* A scan of the other machine keeps the types.                            *)
LEMMA PeerScanType ==
    ASSUME TypeOK, NEW b \in Agent, PeerScan(b)
    PROVE  TypeOK'
  <1> USE FederationAssumption, NoneAssumption DEF TypeOK, memory
  <1> PICK state \in {"active", "idle"}, visible \in BOOLEAN, attached \in BOOLEAN :
          LET ends == peer[b] = None \/ (peer[b].state = "active" /\ state = "idle")
          IN  /\ ends => turn[b] < MaxTurn
              /\ turn' = [turn EXCEPT ![b] = IF ends THEN @ + 1 ELSE @]
              /\ \/ peer' = [peer EXCEPT ![b] =
                        [state |-> state, visible |-> visible,
                         seen |-> next_seen(peer[b], state, visible),
                         attached |-> attached, turn |-> turn'[b]]]
                 \/ peer' = [peer EXCEPT ![b] = None]
    BY DEF PeerScan
  <1>1. turn' \in [Agent -> Turn]
    BY DEF Turn
  <1>2. next_seen(peer[b], state, visible) \in BOOLEAN
    BY DEF next_seen
  <1>3. peer' \in Agents
    BY <1>1, <1>2 DEF Agents, AgentRecord
  <1>4. news' \in BOOLEAN
    BY DEF PeerScan
  <1>5. UNCHANGED <<link, stream, remote, connected, remote_seen, transport, acks, ackFile, read>>
    BY DEF PeerScan
  <1>6. QED
    BY <1>1, <1>3, <1>4, <1>5

(* The empty pipe is a pipe.                                               *)
LEMMA EmptyPipe == <<>> \in Seq(Agents) /\ Len(<<>>) <= MaxQueue
  <1>1. <<>> \in Seq(Agents) /\ Len(<<>>) = 0
    OBVIOUS
  <1>2. QED
    BY <1>1, FederationAssumption

(* Only what is listed can be done.                                        *)
LEMMA DoneIsListed == \A a \in Agent : Done(a) => remote[a] # None
  <1> SUFFICES ASSUME NEW a \in Agent, remote[a] = None PROVE ~Done(a)
    OBVIOUS
  <1>1. Shown(a) = None
    BY Zenon DEF Shown
  <1>2. QED
    BY <1>1 DEF Done

(* Every step keeps the types.                                             *)
LEMMA TypeStep == TypeOK /\ [Next]_vars => TypeOK'
  <1> SUFFICES ASSUME TypeOK, [Next]_vars PROVE TypeOK'
    OBVIOUS
  <1> USE FederationAssumption, NoneAssumption DEF machine, memory, pipe
  <1>1. CASE UNCHANGED vars
    BY <1>1 DEF TypeOK, vars
  <1>2. CASE Send
    <2>1. stream' \in Seq(Agents) /\ Len(stream') <= MaxQueue
      BY <1>2 DEF Send, TypeOK
    <2>2. QED
      BY <1>2, <2>1 DEF Send, TypeOK
  <1>3. CASE Connect
    BY <1>3 DEF Connect, TypeOK
  <1>4. CASE Cut
    <2>1. stream' = stream \/ stream' = <<>>
      BY <1>4 DEF Cut
    <2>2. stream' \in Seq(Agents) /\ Len(stream') <= MaxQueue
      BY <2>1, EmptyPipe DEF TypeOK
    <2>3. QED
      BY <1>4, <2>2 DEF Cut, TypeOK
  <1>5. CASE publish_remote
    BY <1>5, PublishRemoteType
  <1>6. CASE peer_error
    <2>1. remote' \in Agents /\ remote_seen' \in [Agent -> BOOLEAN \cup {None}]
      BY <1>6 DEF peer_error, Agents
    <2>2. QED
      BY <1>6, <2>1, EmptyPipe DEF peer_error, TypeOK
  <1>7. CASE publish_local
    <2>1. remote_seen' \in [Agent -> BOOLEAN \cup {None}]
      BY <1>7, ObservedType DEF publish_local
    <2>2. QED
      BY <1>7, <2>1 DEF publish_local, TypeOK
  <1>8. CASE mark_all_read
    BY <1>8, AcknowledgeAllType, DoneIsListed DEF mark_all_read
  <1>9. CASE Restart
    <2>1. remote' \in Agents /\ remote_seen' \in [Agent -> BOOLEAN \cup {None}]
      BY <1>9 DEF Restart, Agents
    <2>2. read' \in [Agent -> Turn \cup {None}]
      BY <1>9 DEF Restart, TypeOK
    <2>3. QED
      BY <1>9, <2>1, <2>2, EmptyPipe DEF Restart, TypeOK
  <1>10. ASSUME NEW b \in Agent, PeerScan(b) PROVE TypeOK'
    BY <1>10, PeerScanType
  <1>11. ASSUME NEW b \in Agent, PeerAcknowledge(b) PROVE TypeOK'
    <2>1. peer[b] \in AgentRecord
      BY <1>11 DEF PeerAcknowledge, TypeOK, Agents
    <2>2. [peer[b] EXCEPT !.seen = TRUE] \in AgentRecord
      BY <2>1 DEF AgentRecord
    <2>3. peer' = [peer EXCEPT ![b] = [peer[b] EXCEPT !.seen = TRUE]]
      BY <1>11 DEF PeerAcknowledge
    <2>4. peer' \in Agents
      BY <2>2, <2>3 DEF TypeOK, Agents
    <2>5. QED
      BY <1>11, <2>4 DEF PeerAcknowledge, TypeOK
  <1>12. ASSUME NEW b \in Agent, acknowledge(b) PROVE TypeOK'
    BY <1>12, AcknowledgeAllType DEF acknowledge
  <1>13. QED
    BY <1>1, <1>2, <1>3, <1>4, <1>5, <1>6, <1>7, <1>8, <1>9, <1>10, <1>11, <1>12
       DEF Next

-----------------------------------------------------------------------------
(* What the overlay remembers of an agent after a scan or a snapshot.      *)
Remembers(records, previous, transports, overlay, a) ==
    LET seen == Observed(records, previous, transports, overlay)[a]
        carrier == Carrier(records[a], transports, a)
    IN  /\ seen \in BOOLEAN \cup {None}
        /\ (seen # None) <=> (carrier # "none")
        /\ seen = FALSE => ~(records[a].visible /\ carrier = "visible")
        /\ (/\ previous[a] # None /\ previous[a].state = "idle"
            /\ previous[a].seen /\ overlay[a] # FALSE)
               => seen # FALSE
        /\ (/\ carrier # "none" /\ ~(records[a].visible /\ carrier = "visible")
            /\ records[a].state = "idle" /\ previous[a] # None
            /\ \/ previous[a].state = "active"
               \/ IF overlay[a] = None THEN ~previous[a].seen ELSE ~overlay[a])
               => seen = FALSE

(* Observed leaves what is to be remembered.                               *)
LEMMA ObservedRecord ==
    ASSUME NEW records \in Agents, NEW previous \in Agents,
           NEW transports \in [Agent -> Transport],
           NEW overlay \in [Agent -> BOOLEAN \cup {None}], NEW a \in Agent
    PROVE  Remembers(records, previous, transports, overlay, a)
  <1> DEFINE seen == Observed(records, previous, transports, overlay)[a]
             carrier == Carrier(records[a], transports, a)
             record == records[a]
             visible == record.visible /\ carrier = "visible"
             before == IF overlay[a] = None THEN previous[a].seen ELSE overlay[a]
             old == [previous[a] EXCEPT !.seen = before]
  <1> SUFFICES /\ seen \in BOOLEAN \cup {None}
               /\ (seen # None) <=> (carrier # "none")
               /\ seen = FALSE => ~visible
               /\ (/\ previous[a] # None /\ previous[a].state = "idle"
                   /\ previous[a].seen /\ overlay[a] # FALSE)
                      => seen # FALSE
               /\ (/\ carrier # "none" /\ ~visible
                   /\ record.state = "idle" /\ previous[a] # None
                   /\ (previous[a].state = "active" \/ ~before))
                      => seen = FALSE
    BY DEF Remembers
  <1>s. seen = Observed(records, previous, transports, overlay)[a]
        /\ carrier = Carrier(record, transports, a)
    OBVIOUS
  <1> HIDE DEF seen, carrier
  <1>1. CASE carrier = "none"
    <2>1. seen = None
      BY <1>1, <1>s DEF Observed
    <2>2. QED
      BY <1>1, <2>1, NoneAssumption
  <1>2. CASE carrier # "none" /\ previous[a] = None
    <2>1. record # None
      BY <1>2, <1>s DEF Carrier
    <2>2. record \in AgentRecord
      BY <2>1 DEF Agents
    <2>3. seen = (visible \/ record.seen)
      BY <1>2, <1>s DEF Observed
    <2>4. QED
      BY <1>2, <2>2, <2>3, NoneAssumption DEF AgentRecord
  <1>3. CASE carrier # "none" /\ previous[a] # None
    <2>1. record # None
      BY <1>3, <1>s DEF Carrier
    <2>2. record \in AgentRecord /\ previous[a] \in AgentRecord
      BY <1>3, <2>1 DEF Agents
    <2>3. before \in BOOLEAN
      BY <2>2, NoneAssumption DEF AgentRecord
    <2>4. old \in AgentRecord /\ old.state = previous[a].state /\ old.seen = before
      BY <2>2, <2>3 DEF AgentRecord
    <2>5. old # None
      BY <2>4, NoneAssumption
    <2>6. seen = next_seen(old, record.state, visible)
      BY <1>3, <1>s DEF Observed
    <2> HIDE DEF old
    <2>7. seen = (visible \/ record.state = "active" \/ (old.state = "idle" /\ old.seen))
      BY <2>5, <2>6 DEF next_seen
    <2>8. QED
      BY <1>3, <2>2, <2>3, <2>4, <2>7, NoneAssumption DEF AgentRecord
  <1>4. QED
    BY <1>1, <1>2, <1>3

-----------------------------------------------------------------------------
(* The records a snapshot leaves, and those an acknowledgement leaves,     *)
(* differ from it in what was seen only.                                   *)
LEMMA OverlaidRecord ==
    ASSUME NEW records \in Agents, NEW completions, NEW a \in Agent
    PROVE  /\ (Overlaid(records, completions)[a] # None) <=> (records[a] # None)
           /\ records[a] # None =>
                 /\ Overlaid(records, completions)[a].turn = records[a].turn
                 /\ Overlaid(records, completions)[a].state = records[a].state
                 /\ Overlaid(records, completions)[a].visible = records[a].visible
                 /\ Overlaid(records, completions)[a].attached = records[a].attached
                 /\ Covered(records, completions, a)
                       => Overlaid(records, completions)[a].seen
  <1>1. CASE records[a] = None
    BY <1>1 DEF Overlaid, Covered
  <1>2. CASE records[a] # None
    <2>1. records[a] \in AgentRecord
      BY <1>2 DEF Agents
    <2> DEFINE new == [records[a] EXCEPT !.seen = TRUE]
    <2>2. /\ new \in AgentRecord /\ new.turn = records[a].turn
          /\ new.state = records[a].state /\ new.visible = records[a].visible
          /\ new.attached = records[a].attached /\ new.seen
      BY <2>1 DEF AgentRecord
    <2>3. Overlaid(records, completions)[a]
              = IF Covered(records, completions, a) THEN new ELSE records[a]
      BY DEF Overlaid
    <2> HIDE DEF new
    <2>4. QED
      BY <1>2, <2>2, <2>3, NoneAssumption
  <1>3. QED
    BY <1>1, <1>2

(* The machine's watch writes what the machine says now.                   *)
LEMMA SendOrder == IInv /\ Send => Order'
  <1> SUFFICES ASSUME IInv, Send PROVE Order'
    OBVIOUS
  <1> USE FederationAssumption DEF IInv, TypeOK, Order, Send, machine, memory
  <1>1. PeerInOrder'
    BY DEF PeerInOrder, CoveredIfRead
  <1>2. RemoteInOrder'
    BY DEF RemoteInOrder, Behind, CoveredIfRead, Before
  <1>3. StreamInOrder'
    <2>1. stream' = Append(stream, peer) /\ Len(stream') = Len(stream) + 1
      OBVIOUS
    <2>2. \A i \in 1..Len(stream) : stream'[i] = stream[i]
      BY <2>1
    <2>3. stream'[Len(stream')] = peer
      BY <2>1
    <2> SUFFICES ASSUME NEW a \in Agent, NEW i \in 1..Len(stream'),
                        NEW s \in AgentRecord, stream'[i][a] = s
                 PROVE  InPlace(s, a, i)'
      BY DEF StreamInOrder
    <2>4. CASE i \in 1..Len(stream)
      <3>1. InPlace(s, a, i)
        BY <2>2, <2>4 DEF StreamInOrder
      <3>2. peer[a] # None => Before(s, peer[a])
        BY <3>1 DEF InPlace, Behind
      <3>3. Behind(s, a)'
        BY <3>1 DEF InPlace, Behind, CoveredIfRead, Before
      <3>4. QED
        BY <2>1, <2>2, <2>3, <2>4, <3>1, <3>2, <3>3, SMTT(30) DEF InPlace
    <2>5. CASE i = Len(stream')
      <3>1. s = peer[a] /\ peer[a] # None
        BY <2>3, <2>5, NoneAssumption
      <3>2. turn[a] \in Nat /\ read[a] \in Turn \cup {None} /\ s.turn = turn[a]
        BY <3>1 DEF Turn, PeerInOrder
      <3>3. Behind(s, a)'
        BY <3>1, <3>2 DEF PeerInOrder, Behind, CoveredIfRead, Before
      <3>4. remote[a] # None => Before(remote[a], s)
        BY <3>1, NoneAssumption DEF RemoteInOrder, Behind, Agents
      <3>5. QED
        BY <2>1, <2>5, <3>3, <3>4 DEF InPlace
    <2>6. QED
      BY <2>1, <2>4, <2>5
  <1>4. QED
    BY <1>1, <1>2, <1>3

(* What the machine says next is not before what it said.                  *)
LEMMA PeerMovesOrder ==
    ASSUME IInv, UNCHANGED <<stream, remote, acks, read>>,
           \A a \in Agent :
              /\ peer'[a] # None => peer'[a].turn = turn'[a] /\ CoveredIfRead(peer'[a], a)
              /\ turn[a] <= turn'[a]
              /\ peer'[a] # None =>
                    \/ turn[a] < turn'[a]
                    \/ peer[a] # None /\ (peer[a].state = "active" => peer'[a].state = "active"),
           TypeOK'
    PROVE  Order'
  <1> USE FederationAssumption, NoneAssumption
          DEF IInv, TypeOK, Order, Agents, AgentRecord, Turn
  <1>1. PeerInOrder'
    BY DEF PeerInOrder, CoveredIfRead
  <1>2. ASSUME NEW a \in Agent, NEW r \in AgentRecord, Behind(r, a)
        PROVE  Behind(r, a)'
    BY <1>2 DEF Behind, CoveredIfRead, Before, PeerInOrder
  <1>3. RemoteInOrder'
    BY <1>2 DEF RemoteInOrder
  <1>4. StreamInOrder'
    <2> SUFFICES ASSUME NEW a \in Agent, NEW i \in 1..Len(stream'),
                        NEW s \in AgentRecord, stream'[i][a] = s
                 PROVE  InPlace(s, a, i)'
      BY DEF StreamInOrder
    <2>1. InPlace(s, a, i)
      BY DEF StreamInOrder
    <2>2. Behind(s, a)'
      BY <1>2, <2>1 DEF InPlace
    <2>3. QED
      BY <2>1, <2>2 DEF InPlace
  <1>5. QED
    BY <1>1, <1>3, <1>4

(* The order after a scan of the other machine.                            *)
LEMMA PeerScanOrder ==
    ASSUME IInv, NEW b \in Agent, PeerScan(b)
    PROVE  Order'
  <1> USE FederationAssumption, NoneAssumption DEF IInv, TypeOK, Order, memory
  <1> PICK state \in {"active", "idle"}, visible \in BOOLEAN, attached \in BOOLEAN :
          LET ends == peer[b] = None \/ (peer[b].state = "active" /\ state = "idle")
          IN  /\ ends => turn[b] < MaxTurn
              /\ turn' = [turn EXCEPT ![b] = IF ends THEN @ + 1 ELSE @]
              /\ \/ peer' = [peer EXCEPT ![b] =
                        [state |-> state, visible |-> visible,
                         seen |-> next_seen(peer[b], state, visible),
                         attached |-> attached, turn |-> turn'[b]]]
                 \/ peer' = [peer EXCEPT ![b] = None]
    BY DEF PeerScan
  <1> DEFINE ends == peer[b] = None \/ (peer[b].state = "active" /\ state = "idle")
  <1>1. UNCHANGED <<stream, remote, acks, read>>
    BY DEF PeerScan
  <1>2. TypeOK'
    BY PeerScanType
  <1>3. ASSUME NEW a \in Agent
        PROVE  /\ peer'[a] # None => peer'[a].turn = turn'[a] /\ CoveredIfRead(peer'[a], a)
               /\ turn[a] <= turn'[a]
               /\ peer'[a] # None =>
                     \/ turn[a] < turn'[a]
                     \/ peer[a] # None /\ (peer[a].state = "active" => peer'[a].state = "active")
    <2>1. turn[a] \in Nat /\ read[a] \in Turn \cup {None} /\ None \notin Turn
      BY DEF Turn
    <2>2. CASE a # b
      BY <2>1, <2>2 DEF Agents, PeerInOrder
    <2>3. CASE a = b /\ peer'[a] = None
      BY <2>1, <2>3
    <2>4. CASE a = b /\ peer'[a] # None
      <3>1. /\ peer'[a].turn = turn'[a] /\ peer'[a].state = state
            /\ turn'[a] = IF ends THEN turn[a] + 1 ELSE turn[a]
        BY <2>4 DEF Agents
      <3>2. CASE ends
        <4>1. turn'[a] = turn[a] + 1
          BY <3>1, <3>2
        <4>2. read[a] # None => read[a] <= turn[a] /\ read[a] \in Nat
          BY <2>1 DEF PeerInOrder, Turn
        <4>3. turn'[a] \in Turn
          BY <1>2
        <4>4. read[a] # turn'[a]
          BY <2>1, <4>1, <4>2, <4>3
        <4>5. QED
          BY <2>1, <3>1, <4>1, <4>4 DEF CoveredIfRead
      <3>3. CASE ~ends
        <4>1. peer[a] # None /\ peer[a] \in AgentRecord
          BY <2>4, <3>3 DEF Agents
        <4>2. peer[a].state \in {"active", "idle"}
          BY <4>1 DEF AgentRecord
        <4>3. peer[a].turn = turn[a] /\ CoveredIfRead(peer[a], a)
          BY <4>1 DEF PeerInOrder
        <4>4. peer[a].state = "active" => state = "active"
          BY <2>4, <3>3
        <4>5. state = "idle" => peer[a].state = "idle"
          BY <4>2, <4>4
        <4>6. QED
          BY <2>1, <3>1, <3>3, <4>1, <4>3, <4>4, <4>5 DEF CoveredIfRead
      <3>4. QED
        BY <3>2, <3>3
    <2>5. QED
      BY <2>2, <2>3, <2>4
  <1>4. QED
    BY <1>1, <1>2, <1>3, PeerMovesOrder

(* The order after its user has acknowledged.                              *)
LEMMA PeerAcknowledgeOrder ==
    ASSUME IInv, TypeOK', NEW b \in Agent, PeerAcknowledge(b)
    PROVE  Order'
  <1> USE NoneAssumption DEF IInv, TypeOK, Order, memory
  <1>1. UNCHANGED <<turn, stream, remote, acks, read>>
    BY DEF PeerAcknowledge
  <1>2. peer[b] \in AgentRecord
    BY DEF PeerAcknowledge, Agents
  <1> DEFINE new == [peer[b] EXCEPT !.seen = TRUE]
  <1>3. new.turn = peer[b].turn /\ new.state = peer[b].state
    BY <1>2 DEF AgentRecord
  <1>4. peer' = [peer EXCEPT ![b] = new]
    BY DEF PeerAcknowledge
  <1> HIDE DEF new
  <1>5. ASSUME NEW a \in Agent
        PROVE  /\ peer'[a] # None => peer'[a].turn = turn'[a] /\ CoveredIfRead(peer'[a], a)
               /\ turn[a] <= turn'[a]
               /\ peer'[a] # None =>
                     \/ turn[a] < turn'[a]
                     \/ peer[a] # None /\ (peer[a].state = "active" => peer'[a].state = "active")
    <2>1. turn'[a] = turn[a] /\ turn[a] \in Nat
      BY <1>1 DEF Turn
    <2>2. CASE a # b
      BY <1>4, <2>1, <2>2 DEF Agents, PeerInOrder
    <2>3. CASE a = b
      <3>1. peer'[a] = new /\ peer[a] # None
        BY <1>2, <1>4, <2>3 DEF Agents
      <3>2. peer[a].turn = turn[a] /\ CoveredIfRead(peer[a], a)
        BY <3>1 DEF PeerInOrder
      <3>3. QED
        BY <1>3, <2>1, <2>3, <3>1, <3>2 DEF CoveredIfRead
    <2>4. QED
      BY <2>2, <2>3
  <1>6. QED
    BY <1>1, <1>5, PeerMovesOrder

(* A snapshot is taken from the pipe: an active record ends the            *)
(* acknowledgement, and what the machine says later is not the completion  *)
(* that was acknowledged.                                                  *)
LEMMA PublishRemoteOrder ==
    ASSUME IInv, publish_remote
    PROVE  Order'
  <1> USE FederationAssumption, NoneAssumption
          DEF IInv, TypeOK, Order, machine, Turn
  <1> DEFINE records == Head(stream)
  <1>1. /\ stream # <<>> /\ stream' = Tail(stream)
        /\ acks' = KeptAcks(records, acks)
        /\ remote' = Overlaid(records, acks')
        /\ UNCHANGED <<peer, turn, read>>
    BY DEF publish_remote
  <1>2. /\ Len(stream) \in Nat \ {0} /\ Len(stream') = Len(stream) - 1
        /\ \A i \in 1..Len(stream') : stream'[i] = stream[i + 1] /\ i + 1 \in 1..Len(stream)
        /\ records = stream[1] /\ 1 \in 1..Len(stream) /\ records \in Agents
    BY <1>1
  <1>n. Len(stream') \in Nat
    BY <1>2
  <1> HIDE DEF records
  <1>3. \A a \in Agent : records[a] # None => InPlace(records[a], a, 1)
    BY <1>2 DEF StreamInOrder, Agents
  <1>4. \A a \in acks : a \in acks' \/ (records[a] # None /\ records[a].state = "active")
    BY <1>1, <1>2 DEF KeptAcks, Agents, AgentRecord
  <1>5. ASSUME NEW a \in Agent, NEW s \in AgentRecord, CoveredIfRead(s, a),
               records[a] # None => Before(records[a], s)
        PROVE  CoveredIfRead(s, a)'
    <2> SUFFICES ASSUME s.turn = read[a], s.state = "idle" PROVE a \in acks'
      BY <1>1 DEF CoveredIfRead
    <2>1. a \in acks
      BY <1>5 DEF CoveredIfRead
    <2>2. CASE records[a] # None /\ records[a].state = "active"
      <3>1. Before(records[a], s) /\ Behind(records[a], a) /\ records[a] \in AgentRecord
        BY <1>2, <1>3, <1>5, <2>2 DEF Agents, InPlace
      <3>2. read[a] # None /\ read[a] \in Nat /\ records[a].turn \in Nat
        BY <3>1 DEF AgentRecord
      <3>3. QED
        BY <2>2, <3>1, <3>2 DEF Before, Behind
    <2>3. QED
      BY <1>4, <2>1, <2>2
  <1>6. ASSUME NEW a \in Agent, NEW s \in AgentRecord, Behind(s, a),
               records[a] # None => Before(records[a], s)
        PROVE  Behind(s, a)'
    BY <1>1, <1>5, <1>6 DEF Behind, Before
  <1>t. TypeOK'
    BY PublishRemoteType
  <1>7. PeerInOrder'
    <2> SUFFICES ASSUME NEW a \in Agent, NEW s \in AgentRecord, s = peer[a]
                 PROVE  CoveredIfRead(s, a)'
      BY <1>1 DEF PeerInOrder, CoveredIfRead, Agents
    <2>1. CoveredIfRead(s, a)
      BY DEF PeerInOrder
    <2>2. records[a] # None => Before(records[a], s)
      BY <1>3 DEF InPlace, Behind
    <2>3. QED
      BY <1>5, <2>1, <2>2
  <1>8. RemoteInOrder'
    <2> SUFFICES ASSUME NEW a \in Agent, NEW s \in AgentRecord, remote'[a] = s
                 PROVE  Behind(s, a)'
      BY DEF RemoteInOrder
    <2>1. records[a] # None /\ s.turn = records[a].turn /\ s.state = records[a].state
      BY <1>1, <1>2, OverlaidRecord
    <2> PICK r \in AgentRecord : r = records[a]
      BY <1>2, <2>1 DEF Agents
    <2>2. Behind(r, a) /\ Before(records[a], r)
      BY <1>3, <2>1 DEF InPlace, Before
    <2>3. Behind(r, a)'
      BY <1>6, <2>2
    <2>4. QED
      BY <2>1, <2>3 DEF Behind, CoveredIfRead, Before
  <1>9. StreamInOrder'
    <2> SUFFICES ASSUME NEW a \in Agent, NEW i \in 1..Len(stream'),
                        NEW s \in AgentRecord, stream'[i][a] = s
                 PROVE  InPlace(s, a, i)'
      BY DEF StreamInOrder
    <2> USE <1>n
    <2>1. s = stream[i + 1][a] /\ i + 1 \in 1..Len(stream) /\ 1 < i + 1
      <3>1. stream'[i] = stream[i + 1] /\ i + 1 \in 1..Len(stream)
        BY <1>2
      <3>2. i \in Nat /\ 1 <= i
        OBVIOUS
      <3>3. QED
        BY <3>1, <3>2
    <2>2. InPlace(s, a, i + 1)
      BY <2>1 DEF StreamInOrder
    <2>3. records[a] # None => Before(records[a], s)
      BY <1>2, <1>3, <2>1, NoneAssumption DEF InPlace
    <2>4. Behind(s, a)'
      BY <1>6, <2>2, <2>3 DEF InPlace
    <2>5. remote'[a] # None => Before(remote'[a], s)
      BY <1>1, <1>2, <2>3, OverlaidRecord DEF Before
    <2>6. ASSUME NEW j \in 1..Len(stream'), i < j, stream'[j][a] # None
          PROVE  Before(s, stream'[j][a])
      <3>1. stream'[j] = stream[j + 1] /\ j + 1 \in 1..Len(stream)
        BY <1>2
      <3>2. i + 1 < j + 1
        BY <2>6
      <3>3. QED
        BY <2>2, <2>6, <3>1, <3>2 DEF InPlace
    <2>7. QED
      BY <2>4, <2>5, <2>6 DEF InPlace
  <1>10. QED
    BY <1>7, <1>8, <1>9

(* What is acknowledged is what the daemon knows, and the rest comes later.*)
LEMMA AcknowledgeAllOrder ==
    ASSUME IInv, NEW targets \in SUBSET Agent,
           \A a \in targets : remote[a] # None, AcknowledgeAll(targets)
    PROVE  Order'
  <1> USE FederationAssumption, NoneAssumption
          DEF IInv, TypeOK, Order, machine, pipe, Turn
  <1> DEFINE idle == {a \in targets : remote[a].state = "idle"}
  <1>1. /\ acks' = acks \cup idle
        /\ read' = [a \in Agent |-> IF a \in idle THEN remote[a].turn ELSE read[a]]
        /\ UNCHANGED <<peer, turn, stream>>
    BY DEF AcknowledgeAll
  <1>2. \A a \in Agent : /\ (remote'[a] # None) <=> (remote[a] # None)
                         /\ remote[a] # None => /\ remote'[a].turn = remote[a].turn
                                                /\ remote'[a].state = remote[a].state
    <2> SUFFICES ASSUME NEW a \in Agent
                 PROVE  /\ (remote'[a] # None) <=> (remote[a] # None)
                        /\ remote[a] # None => /\ remote'[a].turn = remote[a].turn
                                               /\ remote'[a].state = remote[a].state
      OBVIOUS
    <2>1. CASE a \in targets
      <3>1. remote[a] \in AgentRecord
        BY <2>1 DEF Agents
      <3> DEFINE new == [remote[a] EXCEPT !.seen = TRUE]
      <3>2. new \in AgentRecord /\ new.turn = remote[a].turn /\ new.state = remote[a].state
        BY <3>1 DEF AgentRecord
      <3>3. remote'[a] = new
        BY <2>1 DEF AcknowledgeAll
      <3> HIDE DEF new
      <3>4. QED
        BY <2>1, <3>2, <3>3
    <2>2. CASE a \notin targets
      BY <2>2 DEF AcknowledgeAll
    <2>3. QED
      BY <2>1, <2>2
  <1>3. ASSUME NEW a \in Agent, NEW s \in AgentRecord, Behind(s, a),
               remote[a] # None => Before(remote[a], s)
        PROVE  Behind(s, a)'
    <2>1. CASE a \in idle
      <3>1. read'[a] = remote[a].turn /\ a \in acks' /\ remote[a] \in AgentRecord
        BY <1>1, <2>1 DEF Agents
      <3>2. remote[a].turn <= s.turn
        BY <1>3, <2>1, <3>1 DEF Before, AgentRecord
      <3>3. QED
        BY <1>1, <1>3, <3>1, <3>2 DEF Behind, CoveredIfRead, Before
    <2>2. CASE a \notin idle
      BY <1>1, <1>3, <2>2 DEF Behind, CoveredIfRead, Before
    <2>3. QED
      BY <2>1, <2>2
  <1>4. PeerInOrder'
    <2> SUFFICES ASSUME NEW a \in Agent
                 PROVE  /\ peer[a] # None => peer[a].turn = turn[a] /\ CoveredIfRead(peer[a], a)'
                        /\ read'[a] # None => read'[a] <= turn[a]
      BY <1>1 DEF PeerInOrder, CoveredIfRead
    <2>1. CASE a \in idle
      <3> PICK r \in AgentRecord : remote[a] = r
        BY <2>1 DEF Agents
      <3>1. QED
        BY <1>1, <2>1 DEF PeerInOrder, RemoteInOrder, Behind, CoveredIfRead
    <2>2. CASE a \notin idle
      BY <1>1, <2>2 DEF PeerInOrder, CoveredIfRead
    <2>3. QED
      BY <2>1, <2>2
  <1>t. TypeOK'
    BY AcknowledgeAllType
  <1>5. RemoteInOrder'
    <2> SUFFICES ASSUME NEW a \in Agent, NEW s \in AgentRecord, remote'[a] = s
                 PROVE  Behind(s, a)'
      BY DEF RemoteInOrder
    <2>1. remote[a] # None /\ s.turn = remote[a].turn /\ s.state = remote[a].state
      BY <1>2
    <2>2. Behind(s, a) /\ Before(remote[a], s)
      <3> PICK r \in AgentRecord : remote[a] = r
        BY <2>1 DEF Agents
      <3>1. QED
        BY <2>1 DEF RemoteInOrder, Behind, CoveredIfRead, Before
    <2>3. QED
      BY <1>3, <2>2
  <1>6. StreamInOrder'
    <2> SUFFICES ASSUME NEW a \in Agent, NEW i \in 1..Len(stream'),
                        NEW s \in AgentRecord, stream'[i][a] = s
                 PROVE  InPlace(s, a, i)'
      BY DEF StreamInOrder
    <2>1. InPlace(s, a, i)
      BY <1>1 DEF StreamInOrder
    <2>2. Behind(s, a)'
      BY <1>3, <2>1 DEF InPlace
    <2>3. remote'[a] # None => Before(remote'[a], s)
      BY <1>2, <2>1 DEF InPlace, Before
    <2>4. QED
      BY <1>1, <2>1, <2>2, <2>3 DEF InPlace
  <1>7. QED
    BY <1>4, <1>5, <1>6

(* Nothing of the order depends on what is lost, or on what is shown.      *)
LEMMA LossOrder ==
    ASSUME IInv, UNCHANGED <<peer, turn>>,
           stream' = stream \/ stream' = <<>>,
           UNCHANGED remote \/ (stream' = <<>> /\ \A a \in Agent : remote'[a] = None),
           \A a \in Agent : \/ read'[a] = read[a] /\ (a \in acks => a \in acks')
                           \/ read'[a] = None
    PROVE  Order'
  <1> USE FederationAssumption, NoneAssumption DEF IInv, TypeOK, Order, Turn
  <1>1. \A a \in Agent : turn[a] \in Nat /\ turn[a] # None
    OBVIOUS
  <1>2. ASSUME NEW a \in Agent, NEW s \in AgentRecord
        PROVE  /\ CoveredIfRead(s, a) => CoveredIfRead(s, a)'
               /\ Behind(s, a) => Behind(s, a)'
    <2>1. s.turn \in Nat /\ s.turn # None
      BY DEF AgentRecord
    <2>2. QED
      BY <2>1 DEF Behind, CoveredIfRead, Before
  <1>3. PeerInOrder'
    <2> SUFFICES ASSUME NEW a \in Agent, NEW s \in AgentRecord \cup {None}, s = peer[a]
                 PROVE  /\ s # None => s.turn = turn[a] /\ CoveredIfRead(s, a)'
                        /\ read'[a] # None => read'[a] <= turn[a]
      BY DEF PeerInOrder, CoveredIfRead, Agents
    <2>1. QED
      BY <1>2 DEF PeerInOrder
  <1>4. RemoteInOrder'
    BY <1>2 DEF RemoteInOrder, AgentRecord
  <1>5. StreamInOrder'
    <2> SUFFICES ASSUME NEW a \in Agent, NEW i \in 1..Len(stream'),
                        NEW s \in AgentRecord, stream'[i][a] = s
                 PROVE  InPlace(s, a, i)'
      BY DEF StreamInOrder
    <2>1. stream' # <<>>
      OBVIOUS
    <2>2. InPlace(s, a, i)
      BY <2>1 DEF StreamInOrder
    <2>3. Behind(s, a)'
      BY <1>2, <2>2 DEF InPlace
    <2>4. QED
      BY <2>1, <2>2, <2>3 DEF InPlace
  <1>6. QED
    BY <1>3, <1>4, <1>5

(* Every step keeps the order.                                             *)
LEMMA OrderStep == IInv /\ [Next]_vars => Order'
  <1> SUFFICES ASSUME IInv, [Next]_vars PROVE Order'
    OBVIOUS
  <1> USE DEF machine, memory, pipe
  <1>1. CASE UNCHANGED vars
    <2>1. UNCHANGED <<peer, turn, stream, remote, read, acks>>
      BY <1>1 DEF vars
    <2>2. QED
      BY <2>1, LossOrder
  <1>2. CASE Send
    BY <1>2, SendOrder
  <1>3. CASE Connect
    <2>1. UNCHANGED <<peer, turn, stream, remote, read, acks>>
      BY <1>3 DEF Connect
    <2>2. QED
      BY <2>1, LossOrder
  <1>4. CASE Cut
    <2>1. stream' \in {stream, <<>>} /\ UNCHANGED <<peer, turn, remote, read, acks>>
      BY <1>4 DEF Cut
    <2>2. QED
      BY <2>1, LossOrder
  <1>5. CASE publish_remote
    BY <1>5, PublishRemoteOrder
  <1>6. CASE peer_error
    <2>1. stream' = <<>> /\ remote' = [a \in Agent |-> None] /\ UNCHANGED <<peer, turn, read, acks>>
      BY <1>6 DEF peer_error
    <2>2. QED
      BY <2>1, LossOrder
  <1>7. CASE publish_local
    <2>1. UNCHANGED <<peer, turn, stream, remote, read, acks>>
      BY <1>7 DEF publish_local
    <2>2. QED
      BY <2>1, LossOrder
  <1>8. CASE mark_all_read
    BY <1>8, AcknowledgeAllOrder, DoneIsListed DEF mark_all_read
  <1>9. CASE Restart
    BY <1>9, LossOrder DEF Restart
  <1>10. ASSUME NEW b \in Agent, PeerScan(b) PROVE Order'
    BY <1>10, PeerScanOrder
  <1>11. ASSUME NEW b \in Agent, PeerAcknowledge(b) PROVE Order'
    BY <1>11, PeerAcknowledgeOrder, TypeStep DEF IInv
  <1>12. ASSUME NEW b \in Agent, acknowledge(b) PROVE Order'
    BY <1>12, AcknowledgeAllOrder DEF acknowledge
  <1>13. QED
    BY <1>1, <1>2, <1>3, <1>4, <1>5, <1>6, <1>7, <1>8, <1>9, <1>10, <1>11, <1>12
       DEF Next

-----------------------------------------------------------------------------
(* The overlay after a local scan.                                         *)
LEMMA PublishLocalOverlay ==
    ASSUME IInv, TypeOK', publish_local
    PROVE  Overlay'
  <1> USE NoneAssumption DEF IInv, TypeOK, Overlay, machine, pipe
  <1>1. /\ remote_seen' = Observed(remote, remote, transport', remote_seen)
        /\ UNCHANGED <<remote, acks>>
    BY DEF publish_local
  <1> SUFFICES ASSUME NEW a \in Agent
               PROVE  /\ a \in acks /\ remote[a] # None =>
                            /\ remote[a].state = "idle" /\ remote[a].seen
                            /\ remote_seen'[a] # FALSE
                      /\ (remote_seen'[a] # None)
                            <=> (Carrier(remote[a], transport', a) # "none")
                      /\ remote_seen'[a] = FALSE =>
                            ~(remote[a].visible /\ Carrier(remote[a], transport', a) = "visible")
    BY <1>1 DEF AcksShow, OverlayFitsTransports, OverlayIsHonest
  <1>2. /\ (remote_seen'[a] # None) <=> (Carrier(remote[a], transport', a) # "none")
        /\ remote_seen'[a] = FALSE =>
              ~(remote[a].visible /\ Carrier(remote[a], transport', a) = "visible")
        /\ (/\ remote[a] # None /\ remote[a].state = "idle"
            /\ remote[a].seen /\ remote_seen[a] # FALSE) => remote_seen'[a] # FALSE
    <2> DEFINE seen == Observed(remote, remote, transport', remote_seen)[a]
               carrier == Carrier(remote[a], transport', a)
    <2>1. /\ (seen # None) <=> (carrier # "none")
          /\ seen = FALSE => ~(remote[a].visible /\ carrier = "visible")
          /\ (/\ remote[a] # None /\ remote[a].state = "idle"
              /\ remote[a].seen /\ remote_seen[a] # FALSE) => seen # FALSE
      <3>1. Remembers(remote, remote, transport', remote_seen, a)
        BY ObservedRecord
      <3>2. QED
        BY <3>1 DEF Remembers
    <2>2. QED
      BY <1>1, <2>1
  <1>3. QED
    BY <1>2 DEF AcksShow

(* The overlay after a remote snapshot.                                    *)
LEMMA PublishRemoteOverlay ==
    ASSUME IInv, publish_remote
    PROVE  Overlay'
  <1> USE NoneAssumption DEF IInv, TypeOK, Overlay, machine
  <1> DEFINE records == Head(stream)
             seen == Observed(records, remote, transport, remote_seen)
  <1>1. /\ acks' = KeptAcks(records, acks)
        /\ remote' = Overlaid(records, acks')
        /\ UNCHANGED transport
        /\ records \in Agents
    BY DEF publish_remote
  <1>2. remote_seen' = [a \in Agent |-> IF seen[a] # None /\ Covered(records, acks', a)
                                        THEN TRUE ELSE seen[a]]
    BY <1>1 DEF publish_remote, ObservedWithAcks
  <1>3. ASSUME NEW a \in Agent
        PROVE  /\ a \in acks' /\ remote'[a] # None =>
                     /\ remote'[a].state = "idle" /\ remote'[a].seen
                     /\ remote_seen'[a] # FALSE
               /\ (remote_seen'[a] # None)
                     <=> (Carrier(remote'[a], transport, a) # "none")
               /\ remote_seen'[a] = FALSE /\ remote'[a] # None =>
                     ~(remote'[a].visible /\ Carrier(remote'[a], transport, a) = "visible")
    <2>1. Carrier(remote'[a], transport, a) = Carrier(records[a], transport, a)
      BY <1>1, OverlaidRecord DEF Carrier
    <2>2. /\ seen[a] \in BOOLEAN \cup {None}
          /\ (seen[a] # None) <=> (Carrier(records[a], transport, a) # "none")
          /\ seen[a] = FALSE =>
                ~(records[a].visible /\ Carrier(records[a], transport, a) = "visible")
      <3>1. Remembers(records, remote, transport, remote_seen, a)
        BY <1>1, ObservedRecord
      <3>2. QED
        BY <3>1 DEF Remembers
    <2>3. remote_seen'[a] = IF seen[a] # None /\ Covered(records, acks', a)
                            THEN TRUE ELSE seen[a]
      BY <1>2
    <2>4. a \in acks' /\ records[a] # None => Covered(records, acks', a)
      BY <1>1 DEF KeptAcks, Covered
    <2>5. /\ (remote'[a] # None) <=> (records[a] # None)
          /\ records[a] # None => /\ remote'[a].visible = records[a].visible
                                  /\ remote'[a].state = records[a].state
                                  /\ Covered(records, acks', a) => remote'[a].seen
      BY <1>1, OverlaidRecord
    <2> HIDE DEF seen, records
    <2>6. ASSUME a \in acks', remote'[a] # None
          PROVE  /\ remote'[a].state = "idle" /\ remote'[a].seen
                 /\ remote_seen'[a] # FALSE
      BY <2>2, <2>3, <2>4, <2>5, <2>6 DEF Covered
    <2>7. remote_seen'[a] # None <=> seen[a] # None
      BY <2>3
    <2>8. ASSUME remote_seen'[a] = FALSE, remote'[a] # None
          PROVE  ~(remote'[a].visible /\ Carrier(remote'[a], transport, a) = "visible")
      BY <2>1, <2>2, <2>3, <2>5, <2>8
    <2>9. QED
      BY <2>1, <2>2, <2>6, <2>7, <2>8
  <1>4. AcksShow'
    <2>1. acks' \subseteq Agent
      BY <1>1, AcksType
    <2>2. QED
      BY <1>3, <2>1 DEF AcksShow
  <1>5. OverlayFitsTransports' /\ OverlayIsHonest'
    BY <1>1, <1>3 DEF OverlayFitsTransports, OverlayIsHonest
  <1>6. QED
    BY <1>4, <1>5

(* The overlay after an acknowledgement.                                   *)
LEMMA AcknowledgeAllOverlay ==
    ASSUME IInv, NEW targets \in SUBSET Agent,
           \A a \in targets : remote[a] # None, AcknowledgeAll(targets)
    PROVE  Overlay'
  <1> USE NoneAssumption DEF IInv, TypeOK, Overlay, machine, pipe
  <1> DEFINE idle == {a \in targets : remote[a].state = "idle"}
  <1>1. /\ acks' = acks \cup idle
        /\ remote_seen' = [a \in Agent |-> IF a \in idle /\ remote_seen[a] # None
                                           THEN TRUE ELSE remote_seen[a]]
        /\ UNCHANGED transport
    BY DEF AcknowledgeAll
  <1>2. ASSUME NEW a \in Agent
        PROVE  /\ (remote'[a] # None) <=> (remote[a] # None)
               /\ remote[a] # None =>
                     /\ remote'[a].state = remote[a].state
                     /\ remote'[a].visible = remote[a].visible
                     /\ remote'[a].attached = remote[a].attached
                     /\ remote[a].seen => remote'[a].seen
                     /\ a \in targets => remote'[a].seen
    <2>1. CASE a \in targets
      <3>1. remote[a] \in AgentRecord
        BY <2>1 DEF Agents
      <3> DEFINE new == [remote[a] EXCEPT !.seen = TRUE]
      <3>2. /\ new \in AgentRecord /\ new.attached = remote[a].attached /\ new.seen
            /\ new.state = remote[a].state /\ new.visible = remote[a].visible
        BY <3>1 DEF AgentRecord
      <3>3. remote'[a] = new
        BY <2>1 DEF AcknowledgeAll
      <3> HIDE DEF new
      <3>4. QED
        BY <2>1, <3>2, <3>3
    <2>2. CASE a \notin targets
      BY <2>2 DEF AcknowledgeAll
    <2>3. QED
      BY <2>1, <2>2
  <1>3. \A a \in Agent : Carrier(remote'[a], transport, a) = Carrier(remote[a], transport, a)
    BY <1>2 DEF Carrier
  <1>4. AcksShow'
    <2> SUFFICES ASSUME NEW a \in Agent, a \in acks \/ a \in idle, remote'[a] # None
                 PROVE  /\ remote'[a].state = "idle" /\ remote'[a].seen
                        /\ remote_seen'[a] # FALSE
      BY <1>1 DEF AcksShow
    <2>1. QED
      BY <1>1, <1>2 DEF AcksShow
  <1>5. OverlayFitsTransports'
    BY <1>1, <1>3 DEF OverlayFitsTransports
  <1>6. OverlayIsHonest'
    BY <1>1, <1>2, <1>3 DEF OverlayIsHonest
  <1>7. QED
    BY <1>4, <1>5, <1>6

(* Every step keeps the overlay true.                                      *)
LEMMA OverlayStep == IInv /\ [Next]_vars => Overlay'
  <1> SUFFICES ASSUME IInv, [Next]_vars PROVE Overlay'
    OBVIOUS
  <1> USE DEF machine, memory, pipe
  <1>a. ASSUME UNCHANGED <<remote, remote_seen, transport, acks>> PROVE Overlay'
    BY <1>a DEF IInv, Overlay, AcksShow, OverlayFitsTransports, OverlayIsHonest
  <1>b. ASSUME remote' = [a \in Agent |-> None], remote_seen' = [a \in Agent |-> None],
               acks' \subseteq Agent
        PROVE  Overlay'
    BY <1>b DEF Overlay, AcksShow, OverlayFitsTransports, OverlayIsHonest, Carrier
  <1>1. CASE UNCHANGED vars
    BY <1>1, <1>a DEF vars
  <1>2. CASE Send
    BY <1>2, <1>a DEF Send
  <1>3. CASE Connect
    BY <1>3, <1>a DEF Connect
  <1>4. CASE Cut
    BY <1>4, <1>a DEF Cut
  <1>5. CASE publish_remote
    BY <1>5, PublishRemoteOverlay
  <1>6. CASE peer_error
    BY <1>6, <1>b DEF peer_error, IInv, TypeOK
  <1>7. CASE publish_local
    BY <1>7, PublishLocalOverlay, TypeStep DEF IInv
  <1>8. CASE mark_all_read
    BY <1>8, AcknowledgeAllOverlay, DoneIsListed DEF mark_all_read
  <1>9. CASE Restart
    BY <1>9, <1>b DEF Restart, IInv, TypeOK
  <1>10. ASSUME NEW b \in Agent, PeerScan(b) PROVE Overlay'
    BY <1>10, <1>a DEF PeerScan
  <1>11. ASSUME NEW b \in Agent, PeerAcknowledge(b) PROVE Overlay'
    BY <1>11, <1>a DEF PeerAcknowledge
  <1>12. ASSUME NEW b \in Agent, acknowledge(b) PROVE Overlay'
    BY <1>12, AcknowledgeAllOverlay DEF acknowledge
  <1>13. QED
    BY <1>1, <1>2, <1>3, <1>4, <1>5, <1>6, <1>7, <1>8, <1>9, <1>10, <1>11, <1>12
       DEF Next

(* The invariant holds at first.                                           *)
LEMMA InitIInv == Init => IInv
  <1> SUFFICES ASSUME Init PROVE IInv
    OBVIOUS
  <1> USE NoneAssumption, FederationAssumption DEF Init
  <1>1. TypeOK
    <2>1. peer \in Agents /\ remote \in Agents
      BY DEF Agents
    <2>2. turn \in [Agent -> Turn] /\ read \in [Agent -> Turn \cup {None}]
      BY DEF Turn
    <2>3. remote_seen \in [Agent -> BOOLEAN \cup {None}]
      OBVIOUS
    <2>4. stream \in Seq(Agents) /\ Len(stream) <= MaxQueue
      BY EmptyPipe
    <2>5. QED
      BY <2>1, <2>2, <2>3, <2>4 DEF TypeOK
  <1>2. Order
    <2>1. PeerInOrder
      BY DEF PeerInOrder, CoveredIfRead, Turn, AgentRecord
    <2>2. RemoteInOrder
      BY DEF RemoteInOrder
    <2>3. StreamInOrder
      BY DEF StreamInOrder
    <2>4. QED
      BY <2>1, <2>2, <2>3 DEF Order
  <1>3. Overlay
    BY DEF Overlay, AcksShow, OverlayFitsTransports, OverlayIsHonest, Carrier
  <1>4. QED
    BY <1>1, <1>2, <1>3 DEF IInv

-----------------------------------------------------------------------------
(* What a snapshot shows of an agent.                                      *)
ShownWell(a) ==
    /\ remote[a] = None => Shown(a) = None
    /\ remote[a] # None =>
          /\ Shown(a) # None
          /\ Shown(a).turn = remote[a].turn
          /\ Shown(a).state = remote[a].state
          /\ Carrier(remote[a], transport, a) = "none" => Shown(a) = remote[a]
          /\ Carrier(remote[a], transport, a) # "none" =>
                /\ Shown(a).seen = remote_seen[a]
                /\ Shown(a).visible =
                      (remote[a].visible /\ Carrier(remote[a], transport, a) = "visible")

(* A snapshot shows the record with the overlay on it.                     *)
LEMMA ShownRecord == IInv => \A a \in Agent : ShownWell(a)
  <1> SUFFICES ASSUME IInv, NEW a \in Agent PROVE ShownWell(a)
    OBVIOUS
  <1> USE NoneAssumption DEF IInv, TypeOK, Overlay, OverlayFitsTransports
  <1> DEFINE record == remote[a]
             carrier == Carrier(record, transport, a)
             visible == record.visible /\ carrier = "visible"
  <1>1. CASE record = None
    BY <1>1, Zenon DEF Shown, ShownWell
  <1>2. CASE record # None /\ carrier = "none"
    <2>1. Shown(a) = record
      BY <1>2, Zenon DEF Shown
    <2>2. QED
      BY <1>2, <2>1 DEF ShownWell
  <1>3. CASE record # None /\ carrier # "none"
    <2> DEFINE new == [record EXCEPT !.visible = visible, !.seen = remote_seen[a]]
    <2>1. record \in AgentRecord /\ remote_seen[a] # None
      BY <1>3 DEF Agents
    <2>2. Shown(a) = new
      BY <1>3, <2>1 DEF Shown
    <2>3. /\ new.turn = record.turn /\ new.state = record.state
          /\ new.seen = remote_seen[a] /\ new.visible = visible
      BY <2>1 DEF AgentRecord
    <2>4. new \in AgentRecord
      BY <2>1 DEF AgentRecord
    <2> HIDE DEF new
    <2>5. QED
      BY <1>3, <2>2, <2>3, <2>4 DEF ShownWell
  <1>4. QED
    BY <1>1, <1>2, <1>3

(* The inductive invariant holds always.                                   *)
THEOREM FederationInvariance == Spec => []IInv
  <1>1. IInv /\ [Next]_vars => IInv'
    BY TypeStep, OrderStep, OverlayStep DEF IInv
  <1>2. QED
    BY InitIInv, <1>1, PTL DEF Spec

(* The variables keep their types.                                         *)
THEOREM FederationTypeCorrect == Spec => []TypeOK
  <1>1. IInv => TypeOK
    BY DEF IInv
  <1>2. QED
    BY FederationInvariance, <1>1, PTL

(* The overlay exists exactly for the agents a unique transport carries.   *)
THEOREM OverlayIsFitting == Spec => []OverlayFitsTransports
  <1>1. IInv => OverlayFitsTransports
    BY DEF IInv, Overlay
  <1>2. QED
    BY FederationInvariance, <1>1, PTL

(* Whatever order scans and snapshots arrive in, what is on the screen is  *)
(* never shown as done.                                                    *)
THEOREM VisibleIsSeen == Spec => []OnScreenIsSeen
  <1>1. IInv => OnScreenIsSeen
    <2> SUFFICES ASSUME IInv, NEW a \in Agent, Done(a),
                        Shown(a).visible, Carrier(remote[a], transport, a) = "visible"
                 PROVE  FALSE
      BY DEF OnScreenIsSeen
    <2>1. remote[a] # None /\ remote[a] \in AgentRecord /\ remote_seen[a] \in BOOLEAN \cup {None}
      BY DoneIsListed DEF IInv, TypeOK, Agents
    <2>2. ShownWell(a)
      BY ShownRecord
    <2>3. remote_seen[a] = FALSE /\ remote[a].visible /\ remote[a].state = "idle"
      BY <2>1, <2>2, NoneAssumption
         DEF ShownWell, Done, IInv, Overlay, OverlayFitsTransports
    <2>4. QED
      BY <2>1, <2>3 DEF IInv, Overlay, OverlayIsHonest
  <1>2. QED
    BY FederationInvariance, <1>1, PTL

(* However often the connection, the daemon and its files fail, a          *)
(* completion that was acknowledged is not shown as done again.            *)
THEOREM ReadRemainsRead == Spec => []AcknowledgedStaysRead
  <1>1. IInv => AcknowledgedStaysRead
    <2> SUFFICES ASSUME IInv, NEW a \in Agent, Done(a), read[a] = Shown(a).turn
                 PROVE  FALSE
      BY DEF AcknowledgedStaysRead
    <2>1. remote[a] # None /\ remote[a] \in AgentRecord /\ remote_seen[a] \in BOOLEAN \cup {None}
      BY DoneIsListed DEF IInv, TypeOK, Agents
    <2>2. ShownWell(a)
      BY ShownRecord
    <2>3. read[a] = remote[a].turn /\ remote[a].state = "idle"
      BY <2>1, <2>2 DEF ShownWell, Done
    <2>4. Behind(remote[a], a)
      BY <2>1 DEF IInv, Order, RemoteInOrder
    <2>5. a \in acks
      BY <2>3, <2>4 DEF Behind, CoveredIfRead
    <2>6. remote[a].seen /\ remote_seen[a] # FALSE
      BY <2>1, <2>5 DEF IInv, Overlay, AcksShow
    <2>7. QED
      BY <2>1, <2>2, <2>6, NoneAssumption
         DEF ShownWell, Done, IInv, Overlay, OverlayFitsTransports
  <1>2. QED
    BY FederationInvariance, <1>1, PTL

-----------------------------------------------------------------------------
(* A record that a snapshot shows as working or as done.                   *)
Undone(record, overlay) ==
    \/ record.state = "active"
    \/ record.state = "idle" /\ IF overlay = None THEN ~record.seen ELSE ~overlay

(* A step does not make a hidden completion seen without the user.         *)
KeepsHidden(a) ==
    (/\ Same(a)
     /\ Carrier(remote'[a], transport', a) # "none"
     /\ Undone(remote[a], remote_seen[a])
     /\ remote'[a].state = "idle"
     /\ ~(remote'[a].visible /\ Carrier(remote'[a], transport', a) = "visible"))
        => remote_seen'[a] = FALSE \/ read'[a] # read[a]

(* What is acknowledged is neither working nor done.                       *)
LEMMA AcknowledgedIsNotUndone ==
    ASSUME IInv, NEW a \in acks, remote[a] # None
    PROVE  ~Undone(remote[a], remote_seen[a])
  <1>1. /\ remote[a].state = "idle" /\ remote[a].seen /\ remote_seen[a] # FALSE
        /\ remote_seen[a] \in BOOLEAN \cup {None}
    BY DEF IInv, TypeOK, Overlay, AcksShow
  <1> QED
    BY <1>1 DEF Undone

(* A step that changes no record and no transport.                         *)
LEMMA UnchangedKeepsHidden ==
    ASSUME IInv, NEW a \in Agent,
           remote'[a] = remote[a], remote_seen'[a] = remote_seen[a], transport' = transport
    PROVE  KeepsHidden(a)
  <1>1. /\ (remote_seen[a] # None) <=> (Carrier(remote[a], transport, a) # "none")
        /\ remote_seen[a] \in BOOLEAN \cup {None}
    BY DEF IInv, TypeOK, Overlay, OverlayFitsTransports
  <1> QED
    BY <1>1 DEF KeepsHidden, Undone

(* A local scan.                                                           *)
LEMMA PublishLocalKeepsHidden ==
    ASSUME IInv, TypeOK', publish_local, NEW a \in Agent
    PROVE  KeepsHidden(a)
  <1>1. /\ remote_seen' = Observed(remote, remote, transport', remote_seen)
        /\ UNCHANGED remote
    BY DEF publish_local, memory
  <1>2. Remembers(remote, remote, transport', remote_seen, a)
    BY ObservedRecord DEF IInv, TypeOK
  <1> QED
    BY <1>1, <1>2 DEF KeepsHidden, Undone, Remembers, Same

(* A remote snapshot.                                                      *)
LEMMA PublishRemoteKeepsHidden ==
    ASSUME IInv, publish_remote, NEW a \in Agent
    PROVE  KeepsHidden(a)
  <1> DEFINE records == Head(stream)
             seen == Observed(records, remote, transport, remote_seen)
  <1>1. /\ acks' = KeptAcks(records, acks)
        /\ remote' = Overlaid(records, acks')
        /\ UNCHANGED transport
        /\ records \in Agents
    BY DEF publish_remote, IInv, TypeOK
  <1>2. remote_seen'[a] = IF seen[a] # None /\ Covered(records, acks', a)
                          THEN TRUE ELSE seen[a]
    BY <1>1 DEF publish_remote, ObservedWithAcks
  <1>3. Remembers(records, remote, transport, remote_seen, a)
    BY <1>1, ObservedRecord DEF IInv, TypeOK
  <1>4. /\ (remote'[a] # None) <=> (records[a] # None)
        /\ records[a] # None =>
              /\ remote'[a].visible = records[a].visible
              /\ remote'[a].state = records[a].state
              /\ remote'[a].attached = records[a].attached
    BY <1>1, OverlaidRecord
  <1>5. Carrier(remote'[a], transport, a) = Carrier(records[a], transport, a)
    BY <1>4 DEF Carrier
  <1>6. Covered(records, acks', a) => a \in acks
    BY <1>1 DEF Covered, KeptAcks
  <1>7. remote[a] # None /\ Undone(remote[a], remote_seen[a]) => a \notin acks
    BY AcknowledgedIsNotUndone
  <1> HIDE DEF records, seen
  <1>8. (/\ Same(a) /\ Carrier(records[a], transport, a) # "none"
         /\ Undone(remote[a], remote_seen[a]) /\ records[a].state = "idle"
         /\ ~(records[a].visible /\ Carrier(records[a], transport, a) = "visible"))
           => seen[a] = FALSE
    BY <1>3 DEF Remembers, Undone, Same, seen
  <1> QED
    BY <1>1, <1>2, <1>4, <1>5, <1>6, <1>7, <1>8 DEF KeepsHidden, Same

(* An acknowledgement, which is what makes it seen.                        *)
LEMMA AcknowledgeAllKeepsHidden ==
    ASSUME IInv, NEW targets \in SUBSET Agent,
           \A a \in targets : remote[a] # None, AcknowledgeAll(targets), NEW a \in Agent
    PROVE  KeepsHidden(a)
  <1> DEFINE idle == {b \in targets : remote[b].state = "idle"}
  <1>1. /\ transport' = transport
        /\ remote_seen'[a] = IF a \in idle /\ remote_seen[a] # None
                             THEN TRUE ELSE remote_seen[a]
        /\ read'[a] = IF a \in idle THEN remote[a].turn ELSE read[a]
        /\ remote'[a] = IF a \in targets THEN [remote[a] EXCEPT !.seen = TRUE] ELSE remote[a]
    BY DEF AcknowledgeAll, IInv, TypeOK
  <1>2. CASE a \notin targets
    BY <1>1, <1>2, UnchangedKeepsHidden
  <1>3. CASE a \in targets
    <2>1. remote[a] \in AgentRecord
      BY <1>3 DEF IInv, TypeOK, Agents
    <2>2. remote'[a].state = remote[a].state
      BY <1>1, <1>3, <2>1 DEF AgentRecord
    <2>3. CASE remote[a].state = "idle" /\ Undone(remote[a], remote_seen[a])
      <3>1. a \notin acks
        BY <1>3, <2>3, AcknowledgedIsNotUndone
      <3>2. read[a] # remote[a].turn
        BY <2>1, <2>3, <3>1 DEF IInv, Order, RemoteInOrder, Behind, CoveredIfRead
      <3>3. read'[a] # read[a]
        BY <1>1, <1>3, <2>3, <3>2
      <3> QED
        BY <3>3 DEF KeepsHidden
    <2>4. CASE ~(remote[a].state = "idle" /\ Undone(remote[a], remote_seen[a]))
      BY <2>2, <2>4 DEF KeepsHidden
    <2> QED
      BY <2>3, <2>4
  <1> QED
    BY <1>2, <1>3

(* Every step.                                                             *)
LEMMA HiddenStep == IInv /\ [Next]_vars => \A a \in Agent : KeepsHidden(a)
  <1> SUFFICES ASSUME IInv, [Next]_vars, NEW a \in Agent PROVE KeepsHidden(a)
    OBVIOUS
  <1> USE DEF machine, memory, pipe
  <1>u. UNCHANGED <<remote, remote_seen, transport>> => KeepsHidden(a)
    BY UnchangedKeepsHidden
  <1>1. CASE UNCHANGED vars \/ Send \/ Connect \/ Cut
    BY <1>1, <1>u DEF vars, Send, Connect, Cut
  <1>2. CASE publish_remote
    BY <1>2, PublishRemoteKeepsHidden
  <1>3. CASE publish_local
    BY <1>3, PublishLocalKeepsHidden, TypeStep DEF IInv
  <1>4. CASE peer_error \/ Restart
    BY <1>4 DEF peer_error, Restart, KeepsHidden, Same
  <1>5. CASE mark_all_read
    BY <1>5, AcknowledgeAllKeepsHidden, DoneIsListed DEF mark_all_read
  <1>6. ASSUME NEW b \in Agent, PeerScan(b) \/ PeerAcknowledge(b) PROVE KeepsHidden(a)
    BY <1>6, <1>u DEF PeerScan, PeerAcknowledge
  <1>7. ASSUME NEW b \in Agent, acknowledge(b) PROVE KeepsHidden(a)
    BY <1>7, AcknowledgeAllKeepsHidden DEF acknowledge
  <1> QED
    BY <1>1, <1>2, <1>3, <1>4, <1>5, <1>6, <1>7 DEF Next

(* A turn that ends out of sight, and a completion that is done, stay done *)
(* until the user looks or acknowledges (src/daemon.rs:                    *)
(* observe_remote_agents), whatever happens on the machine itself.         *)
THEOREM HiddenStaysDone == Spec => HiddenCompletionStays
  <1> DEFINE Kept(a) ==
        (/\ Same(a)
         /\ Carrier(remote'[a], transport', a) # "none"
         /\ remote[a].state = "active" \/ Done(a)
         /\ Shown(a)'.state = "idle" /\ ~Shown(a)'.visible)
            => Done(a)' \/ read'[a] # read[a]
  <1>a. (IInv => \A a \in Agent : ShownWell(a))'
    BY ShownRecord, PTL
  <1>1. IInv /\ IInv' /\ [Next]_vars => \A a \in Agent : Kept(a)
    <2> SUFFICES ASSUME IInv, IInv', [Next]_vars, NEW a \in Agent, Same(a),
                        Carrier(remote'[a], transport', a) # "none",
                        remote[a].state = "active" \/ Done(a),
                        Shown(a)'.state = "idle", ~Shown(a)'.visible
                 PROVE  Done(a)' \/ read'[a] # read[a]
      OBVIOUS
    <2>1. ShownWell(a)
      BY ShownRecord
    <2>2. ShownWell(a)'
      BY <1>a
    <2>3. KeepsHidden(a)
      BY HiddenStep
    <2>4. Undone(remote[a], remote_seen[a])
      BY <2>1 DEF Undone, Done, ShownWell, Same, IInv, Overlay, OverlayFitsTransports
    <2>5. /\ remote'[a].state = "idle"
          /\ ~(remote'[a].visible /\ Carrier(remote'[a], transport', a) = "visible")
          /\ Shown(a)' # None /\ Shown(a)'.seen = remote_seen'[a]
      BY <2>2 DEF ShownWell, Same
    <2>6. remote_seen'[a] = FALSE \/ read'[a] # read[a]
      BY <2>3, <2>4, <2>5 DEF KeepsHidden
    <2> QED
      BY <2>5, <2>6 DEF Done
  <1>2. IInv /\ IInv' /\ [Next]_vars => [\A a \in Agent : Kept(a)]_vars
    BY <1>1
  <1> QED
    BY <1>2, FederationInvariance, PTL DEF Spec, HiddenCompletionStays

=============================================================================
