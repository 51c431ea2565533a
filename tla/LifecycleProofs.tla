-------------------------- MODULE LifecycleProofs --------------------------
(***************************************************************************)
(* Proofs about Lifecycle, for any number of daemons and clients, any      *)
(* threshold and any faults.                                               *)
(***************************************************************************)
EXTENDS Lifecycle, TLAPS

(* Without overlap no two daemons are starting or ending.                  *)
OneInTransit ==
    ~overlap => \A d, e \in Daemon : InTransit(pc, d) /\ InTransit(pc, e) => d = e

(* Without overlap the file at the path is that of whoever bound it.       *)
PathIsOwn ==
    ~overlap => \A d \in Daemon : pc[d] \in Listening \cup {"listen"} => socket = d

(* Without overlap, who has looked at the path or left it behind may       *)
(* remove what is there: nobody else serves.                               *)
Settled == {"unlink", "key", "boot", "bind", "listen", "protect", "closing"} \cup Ending

NobodyServes ==
    ~overlap => \A d, e \in Daemon : pc[d] \in Settled /\ d # e => pc[e] # "serving"

(* A daemon that a client asked to stop does not listen again: its process *)
(* is past its start, and when the client goes on nobody can reach it.     *)
StoppedIsPast ==
    \A c \in Client : client[c].stopped # None =>
        /\ pc[client[c].stopped] \notin Starting \cup {"listen"}
        /\ client[c].at \in {"probe", "polling", "verify"} => ~Reachable(client[c].stopped)

(* Who waits for a daemon to answer or to stop has asked one, and who has  *)
(* yet to ask has asked none.                                              *)
SomebodyIsAsked ==
    \A c \in Client :
        /\ client[c].at \in {"asking", "stopping"} => client[c].stopped # None
        /\ client[c].at \in {"snapshot", "shutdown"} => client[c].stopped = None

IInv ==
    /\ TypeOK
    /\ OneInTransit /\ PathIsOwn /\ NobodyServes
    /\ StoppedIsPast /\ SomebodyIsAsked

-----------------------------------------------------------------------------
(* A command begins by looking for the daemon it is about.                 *)
LEMMA FirstPhase ==
    \A command \in Commands : First[command] \in {"probe", "shutdown", "snapshot"}
  BY LifecycleAssumption DEF First

(* The invariant holds at first.                                           *)
LEMMA InitIInv == Init => IInv
  <1> SUFFICES ASSUME Init PROVE IInv
    OBVIOUS
  <1> USE LifecycleAssumption DEF Init
  <1>1. TypeOK
    <2>1. missing \in [Daemon -> 0 .. MissingServerExitThreshold - 1]
      OBVIOUS
    <2>2. pc \in [Daemon -> Phases]
      BY DEF Phases
    <2>3. client \in [Client -> [command : Commands \cup {None}, at : ClientPhases,
                                 stopped : Daemon \cup {None}]]
      BY DEF ClientPhases
    <2>4. QED
      BY <2>1, <2>2, <2>3 DEF TypeOK
  <1>2. OneInTransit /\ PathIsOwn /\ NobodyServes
    BY DEF OneInTransit, PathIsOwn, NobodyServes, InTransit, Listening, Settled, Ending
  <1>3. StoppedIsPast /\ SomebodyIsAsked
    BY DEF StoppedIsPast, SomebodyIsAsked
  <1>4. QED
    BY <1>1, <1>2, <1>3 DEF IInv

(* Every step keeps the types.                                             *)
LEMMA TypeStep == IInv /\ [Next]_vars => TypeOK'
  <1> SUFFICES ASSUME IInv, [Next]_vars PROVE TypeOK'
    OBVIOUS
  <1> USE LifecycleAssumption DEF IInv, TypeOK, Phases, Starting, Listening, Ending
  <1>1. CASE UNCHANGED vars
    BY <1>1 DEF vars, ClientPhases
  <1>2. CASE \E d \in Daemon : \/ DaemonStep(d) \/ ScanStep(d) \/ Interrupted(d)
                              \/ StartFails(d) \/ ProtectFails(d)
                              \/ ScanFails(d) \/ ListenerFails(d)
                              \/ ChildStops(d) \/ ChildExits(d) \/ Killed(d)
    <2> PICK d \in Daemon :
            \/ FindSocket(d) \/ FindDaemon(d) \/ FindNobody(d)
            \/ UnlinkStale(d) \/ UnlinkNothing(d) \/ StartFails(d)
            \/ AskServer(d) \/ BootstrapScan(d) \/ BootstrapMisses(d)
            \/ BootstrapGivesUp(d) \/ Bind(d) \/ AddressInUse(d)
            \/ Listen(d) \/ Protect(d) \/ ProtectNothing(d)
            \/ ProtectFails(d) \/ ScanSucceeds(d) \/ ScanFails(d)
            \/ ScanMisses(d) \/ ScanGivesUp(d) \/ ReceiveShutdown(d)
            \/ Interrupted(d) \/ ListenerFails(d) \/ CloseListener(d)
            \/ JoinTasks(d) \/ CheckSocket(d) \/ NothingToRemove(d)
            \/ RemoveSocket(d) \/ ChildStops(d) \/ ChildExits(d)
            \/ Killed(d)
      BY <1>2 DEF DaemonStep, ScanStep, ClientStep
    <2> USE DEF Move
    <2>1. CASE FindSocket(d)
      BY <2>1 DEF FindSocket, Goto
    <2>2. CASE FindDaemon(d)
      BY <2>2 DEF FindDaemon, Gone
    <2>3. CASE FindNobody(d)
      BY <2>3 DEF FindNobody, Goto
    <2>4. CASE UnlinkStale(d)
      BY <2>4 DEF UnlinkStale, Goto
    <2>5. CASE UnlinkNothing(d)
      BY <2>5 DEF UnlinkNothing, Gone
    <2>6. CASE StartFails(d)
      BY <2>6 DEF StartFails, Gone
    <2>7. CASE BootstrapScan(d)
      BY <2>7 DEF BootstrapScan, Goto, Observe
    <2>8. CASE BootstrapMisses(d)
      BY <2>8 DEF BootstrapMisses, Miss, LastMiss
    <2>9. CASE BootstrapGivesUp(d)
      BY <2>9 DEF BootstrapGivesUp, Gone, LastMiss
    <2>10. CASE Bind(d)
      BY <2>10 DEF Bind, Goto
    <2>11. CASE AddressInUse(d)
      BY <2>11 DEF AddressInUse, Gone
    <2>12. CASE Listen(d)
      BY <2>12 DEF Listen, Goto
    <2>13. CASE Protect(d)
      BY <2>13 DEF Protect, Goto
    <2>14. CASE ProtectNothing(d)
      BY <2>14 DEF ProtectNothing, Gone
    <2>15. CASE ProtectFails(d)
      BY <2>15 DEF ProtectFails, Gone
    <2>16. CASE ScanSucceeds(d)
      BY <2>16 DEF ScanSucceeds, Observe
    <2>17. CASE ScanFails(d)
      BY <2>17 DEF ScanFails, Observe
    <2>18. CASE ScanMisses(d)
      BY <2>18 DEF ScanMisses, Miss, LastMiss
    <2>19. CASE ScanGivesUp(d)
      BY <2>19 DEF ScanGivesUp, Goto, LastMiss
    <2>20. CASE ReceiveShutdown(d)
      BY <2>20 DEF ReceiveShutdown, Goto
    <2>21. CASE Interrupted(d)
      BY <2>21 DEF Interrupted, Goto
    <2>22. CASE ListenerFails(d)
      BY <2>22 DEF ListenerFails, Goto
    <2>23. CASE CloseListener(d)
      BY <2>23 DEF CloseListener, Goto
    <2>24. CASE JoinTasks(d)
      BY <2>24 DEF JoinTasks, Goto
    <2>25. CASE CheckSocket(d)
      BY <2>25 DEF CheckSocket, Goto
    <2>26. CASE NothingToRemove(d)
      BY <2>26 DEF NothingToRemove, Gone
    <2>27. CASE RemoveSocket(d)
      BY <2>27 DEF RemoveSocket, Gone
    <2>28. CASE ChildStops(d)
      BY <2>28 DEF ChildStops
    <2>29. CASE ChildExits(d)
      BY <2>29 DEF ChildExits
    <2>30. CASE Killed(d)
      BY <2>30 DEF Killed, Gone
    <2>31. CASE AskServer(d)
      BY <2>31 DEF AskServer, Goto, Observe
    <2>32. QED
      BY <2>1, <2>2, <2>3, <2>4, <2>5, <2>6, <2>7, <2>8, <2>9, <2>10,
         <2>11, <2>12, <2>13, <2>14, <2>15, <2>16, <2>17, <2>18, <2>19,
         <2>20, <2>21, <2>22, <2>23, <2>24, <2>25, <2>26, <2>27, <2>28,
         <2>29, <2>30, <2>31
  <1>3. CASE \E c \in Client : ClientStep(c) \/ Give(c)
    <2> PICK c \in Client :
            \/ Give(c) \/ FindRunning(c) \/ FindNone(c) \/ Request(c)
            \/ NobodyToStop(c) \/ Acknowledge(c) \/ ConnectionLost(c)
            \/ Stopped(c) \/ StillConnecting(c) \/ Running(c) \/ Spawn(c)
            \/ DidNotStart(c) \/ GetSnapshot(c) \/ NoSnapshot(c)
      BY <1>3 DEF DaemonStep, ScanStep, ClientStep
    <2> USE DEF Move, Unobserved, At, ClientPhases
    <2>1. CASE Give(c)
      <3>1. PICK command \in Commands :
                client' = [client EXCEPT ![c] =
                    [command |-> command, at |-> First[command], stopped |-> None]]
        BY <2>1 DEF Give
      <3>2. QED
        BY <2>1, <3>1, FirstPhase DEF Give
    <2>2. CASE FindRunning(c)
      BY <2>2 DEF FindRunning, Proceed
    <2>3. CASE FindNone(c)
      BY <2>3 DEF FindNone, Proceed
    <2>4. CASE Request(c)
      <3>1. PICK d \in Daemon :
                client' = [client EXCEPT ![c] = [@ EXCEPT !.at = "asking", !.stopped = d]]
        BY <2>4 DEF Request
      <3>2. UNCHANGED <<server, socket, pc, overlap, missing, observed, asked, stuck>>
        BY <2>4 DEF Request
      <3>3. client' \in [Client -> [command : Commands \cup {None}, at : ClientPhases,
                                  stopped : Daemon \cup {None}]]
        <4>1. [client[c] EXCEPT !.at = "asking", !.stopped = d]
                  \in [command : Commands \cup {None}, at : ClientPhases,
                       stopped : Daemon \cup {None}]
          OBVIOUS
        <4>2. QED
          BY <3>1, <4>1
      <3>4. QED
        BY <3>2, <3>3
    <2>5. CASE NobodyToStop(c)
      BY <2>5 DEF NobodyToStop, Finish, Idle
    <2>6. CASE Acknowledge(c)
      <3>1. client[c].stopped \in Daemon
        BY <2>6 DEF Acknowledge, SomebodyIsAsked
      <3>2. QED
        BY <2>6, <3>1 DEF Acknowledge, Proceed
    <2>7. CASE ConnectionLost(c)
      BY <2>7 DEF ConnectionLost, Finish, Idle
    <2>8. CASE Stopped(c)
      BY <2>8 DEF Stopped, AfterStop, Finish, Idle, Proceed
    <2>9. CASE StillConnecting(c)
      BY <2>9 DEF StillConnecting, Finish, Idle
    <2>10. CASE Running(c)
      BY <2>10 DEF Running, Proceed
    <2>11. CASE Spawn(c)
      BY <2>11 DEF Spawn, Proceed, Free
    <2>12. CASE DidNotStart(c)
      BY <2>12 DEF DidNotStart, Finish, Idle
    <2>13. CASE GetSnapshot(c)
      BY <2>13 DEF GetSnapshot, Finish, Idle
    <2>14. CASE NoSnapshot(c)
      BY <2>14 DEF NoSnapshot, Finish, Idle
    <2>15. QED
      BY <2>1, <2>2, <2>3, <2>4, <2>5, <2>6, <2>7, <2>8, <2>9, <2>10,
         <2>11, <2>12, <2>13, <2>14
  <1>4. CASE ServerComesOrGoes
    BY <1>4 DEF ServerComesOrGoes
  <1>5. QED
    BY <1>1, <1>2, <1>3, <1>4 DEF Next

(* Every step keeps what holds while starts and ends do not overlap.       *)
LEMMA PathStep == IInv /\ [Next]_vars => (OneInTransit /\ PathIsOwn /\ NobodyServes)'
  <1> SUFFICES ASSUME IInv, [Next]_vars PROVE (OneInTransit /\ PathIsOwn /\ NobodyServes)'
    OBVIOUS
  <1> USE LifecycleAssumption DEF IInv, TypeOK, Phases, Starting, Listening, Ending, OneInTransit, PathIsOwn,
                               NobodyServes, Settled, Reachable, Connectable
  <1>1. CASE UNCHANGED vars
    BY <1>1 DEF vars, ClientPhases
  <1>2. CASE \E d \in Daemon : \/ DaemonStep(d) \/ ScanStep(d) \/ Interrupted(d)
                              \/ StartFails(d) \/ ProtectFails(d)
                              \/ ScanFails(d) \/ ListenerFails(d)
                              \/ ChildStops(d) \/ ChildExits(d) \/ Killed(d)
    <2> PICK d \in Daemon :
            \/ FindSocket(d) \/ FindDaemon(d) \/ FindNobody(d)
            \/ UnlinkStale(d) \/ UnlinkNothing(d) \/ StartFails(d)
            \/ AskServer(d) \/ BootstrapScan(d) \/ BootstrapMisses(d)
            \/ BootstrapGivesUp(d) \/ Bind(d) \/ AddressInUse(d)
            \/ Listen(d) \/ Protect(d) \/ ProtectNothing(d)
            \/ ProtectFails(d) \/ ScanSucceeds(d) \/ ScanFails(d)
            \/ ScanMisses(d) \/ ScanGivesUp(d) \/ ReceiveShutdown(d)
            \/ Interrupted(d) \/ ListenerFails(d) \/ CloseListener(d)
            \/ JoinTasks(d) \/ CheckSocket(d) \/ NothingToRemove(d)
            \/ RemoveSocket(d) \/ ChildStops(d) \/ ChildExits(d)
            \/ Killed(d)
      BY <1>2 DEF DaemonStep, ScanStep, ClientStep
    <2> USE DEF Move, InTransit
    <2>1. CASE FindSocket(d)
      BY <2>1 DEF FindSocket, Goto
    <2>2. CASE FindDaemon(d)
      BY <2>2 DEF FindDaemon, Gone
    <2>3. CASE FindNobody(d)
      BY <2>3 DEF FindNobody, Goto
    <2>4. CASE UnlinkStale(d)
      BY <2>4 DEF UnlinkStale, Goto
    <2>5. CASE UnlinkNothing(d)
      BY <2>5 DEF UnlinkNothing, Gone
    <2>6. CASE StartFails(d)
      BY <2>6 DEF StartFails, Gone
    <2>7. CASE BootstrapScan(d)
      BY <2>7 DEF BootstrapScan, Goto, Observe
    <2>8. CASE BootstrapMisses(d)
      BY <2>8 DEF BootstrapMisses, Miss, LastMiss
    <2>9. CASE BootstrapGivesUp(d)
      BY <2>9 DEF BootstrapGivesUp, Gone, LastMiss
    <2>10. CASE Bind(d)
      BY <2>10 DEF Bind, Goto
    <2>11. CASE AddressInUse(d)
      BY <2>11 DEF AddressInUse, Gone
    <2>12. CASE Listen(d)
      BY <2>12 DEF Listen, Goto
    <2>13. CASE Protect(d)
      BY <2>13 DEF Protect, Goto
    <2>14. CASE ProtectNothing(d)
      BY <2>14 DEF ProtectNothing, Gone
    <2>15. CASE ProtectFails(d)
      BY <2>15 DEF ProtectFails, Gone
    <2>16. CASE ScanSucceeds(d)
      BY <2>16 DEF ScanSucceeds, Observe
    <2>17. CASE ScanFails(d)
      BY <2>17 DEF ScanFails, Observe
    <2>18. CASE ScanMisses(d)
      BY <2>18 DEF ScanMisses, Miss, LastMiss
    <2>19. CASE ScanGivesUp(d)
      BY <2>19 DEF ScanGivesUp, Goto, LastMiss
    <2>20. CASE ReceiveShutdown(d)
      BY <2>20 DEF ReceiveShutdown, Goto
    <2>21. CASE Interrupted(d)
      BY <2>21 DEF Interrupted, Goto
    <2>22. CASE ListenerFails(d)
      BY <2>22 DEF ListenerFails, Goto
    <2>23. CASE CloseListener(d)
      BY <2>23 DEF CloseListener, Goto
    <2>24. CASE JoinTasks(d)
      BY <2>24 DEF JoinTasks, Goto
    <2>25. CASE CheckSocket(d)
      BY <2>25 DEF CheckSocket, Goto
    <2>26. CASE NothingToRemove(d)
      BY <2>26 DEF NothingToRemove, Gone
    <2>27. CASE RemoveSocket(d)
      BY <2>27 DEF RemoveSocket, Gone
    <2>28. CASE ChildStops(d)
      BY <2>28 DEF ChildStops
    <2>29. CASE ChildExits(d)
      BY <2>29 DEF ChildExits
    <2>30. CASE Killed(d)
      BY <2>30 DEF Killed, Gone
    <2>31. CASE AskServer(d)
      BY <2>31 DEF AskServer, Goto, Observe
    <2>32. QED
      BY <2>1, <2>2, <2>3, <2>4, <2>5, <2>6, <2>7, <2>8, <2>9, <2>10,
         <2>11, <2>12, <2>13, <2>14, <2>15, <2>16, <2>17, <2>18, <2>19,
         <2>20, <2>21, <2>22, <2>23, <2>24, <2>25, <2>26, <2>27, <2>28,
         <2>29, <2>30, <2>31
  <1>3. CASE \E c \in Client : ClientStep(c) \/ Give(c)
    <2> PICK c \in Client :
            \/ Give(c) \/ FindRunning(c) \/ FindNone(c) \/ Request(c)
            \/ NobodyToStop(c) \/ Acknowledge(c) \/ ConnectionLost(c)
            \/ Stopped(c) \/ StillConnecting(c) \/ Running(c) \/ Spawn(c)
            \/ DidNotStart(c) \/ GetSnapshot(c) \/ NoSnapshot(c)
      BY <1>3 DEF DaemonStep, ScanStep, ClientStep
    <2> USE DEF Move, InTransit, Unobserved
    <2>1. CASE Give(c)
      BY <2>1 DEF Give, First
    <2>2. CASE FindRunning(c)
      BY <2>2 DEF FindRunning, Proceed
    <2>3. CASE FindNone(c)
      BY <2>3 DEF FindNone, Proceed
    <2>4. CASE Request(c)
      BY <2>4 DEF Request
    <2>5. CASE NobodyToStop(c)
      BY <2>5 DEF NobodyToStop, Finish, Idle
    <2>6. CASE Acknowledge(c)
      BY <2>6 DEF Acknowledge, Proceed
    <2>7. CASE ConnectionLost(c)
      BY <2>7 DEF ConnectionLost, Finish, Idle
    <2>8. CASE Stopped(c)
      BY <2>8 DEF Stopped, AfterStop, Finish, Idle, Proceed
    <2>9. CASE StillConnecting(c)
      BY <2>9 DEF StillConnecting, Finish, Idle
    <2>10. CASE Running(c)
      BY <2>10 DEF Running, Proceed
    <2>11. CASE Spawn(c)
      BY <2>11 DEF Spawn, Proceed, Free
    <2>12. CASE DidNotStart(c)
      BY <2>12 DEF DidNotStart, Finish, Idle
    <2>13. CASE GetSnapshot(c)
      BY <2>13 DEF GetSnapshot, Finish, Idle
    <2>14. CASE NoSnapshot(c)
      BY <2>14 DEF NoSnapshot, Finish, Idle
    <2>15. QED
      BY <2>1, <2>2, <2>3, <2>4, <2>5, <2>6, <2>7, <2>8, <2>9, <2>10,
         <2>11, <2>12, <2>13, <2>14
  <1>4. CASE ServerComesOrGoes
    BY <1>4 DEF ServerComesOrGoes
  <1>5. QED
    BY <1>1, <1>2, <1>3, <1>4 DEF Next

(* Every step keeps a stopped daemon stopped.                              *)
LEMMA ClientsStep == IInv /\ [Next]_vars => (StoppedIsPast /\ SomebodyIsAsked)'
  <1> SUFFICES ASSUME IInv, [Next]_vars PROVE (StoppedIsPast /\ SomebodyIsAsked)'
    OBVIOUS
  <1> USE LifecycleAssumption DEF IInv, TypeOK, Phases, Starting, Listening, Ending, StoppedIsPast,
                               SomebodyIsAsked, Reachable, Connectable
  <1>1. CASE UNCHANGED vars
    BY <1>1 DEF vars, ClientPhases
  <1>2. CASE \E d \in Daemon : \/ DaemonStep(d) \/ ScanStep(d) \/ Interrupted(d)
                              \/ StartFails(d) \/ ProtectFails(d)
                              \/ ScanFails(d) \/ ListenerFails(d)
                              \/ ChildStops(d) \/ ChildExits(d) \/ Killed(d)
    <2> PICK d \in Daemon :
            \/ FindSocket(d) \/ FindDaemon(d) \/ FindNobody(d)
            \/ UnlinkStale(d) \/ UnlinkNothing(d) \/ StartFails(d)
            \/ AskServer(d) \/ BootstrapScan(d) \/ BootstrapMisses(d)
            \/ BootstrapGivesUp(d) \/ Bind(d) \/ AddressInUse(d)
            \/ Listen(d) \/ Protect(d) \/ ProtectNothing(d)
            \/ ProtectFails(d) \/ ScanSucceeds(d) \/ ScanFails(d)
            \/ ScanMisses(d) \/ ScanGivesUp(d) \/ ReceiveShutdown(d)
            \/ Interrupted(d) \/ ListenerFails(d) \/ CloseListener(d)
            \/ JoinTasks(d) \/ CheckSocket(d) \/ NothingToRemove(d)
            \/ RemoveSocket(d) \/ ChildStops(d) \/ ChildExits(d)
            \/ Killed(d)
      BY <1>2 DEF DaemonStep, ScanStep, ClientStep
    <2> USE DEF Move
    <2>1. CASE FindSocket(d)
      BY <2>1 DEF FindSocket, Goto
    <2>2. CASE FindDaemon(d)
      BY <2>2 DEF FindDaemon, Gone
    <2>3. CASE FindNobody(d)
      BY <2>3 DEF FindNobody, Goto
    <2>4. CASE UnlinkStale(d)
      BY <2>4 DEF UnlinkStale, Goto
    <2>5. CASE UnlinkNothing(d)
      BY <2>5 DEF UnlinkNothing, Gone
    <2>6. CASE StartFails(d)
      BY <2>6 DEF StartFails, Gone
    <2>7. CASE BootstrapScan(d)
      BY <2>7 DEF BootstrapScan, Goto, Observe
    <2>8. CASE BootstrapMisses(d)
      BY <2>8 DEF BootstrapMisses, Miss, LastMiss
    <2>9. CASE BootstrapGivesUp(d)
      BY <2>9 DEF BootstrapGivesUp, Gone, LastMiss
    <2>10. CASE Bind(d)
      BY <2>10 DEF Bind, Goto
    <2>11. CASE AddressInUse(d)
      BY <2>11 DEF AddressInUse, Gone
    <2>12. CASE Listen(d)
      BY <2>12 DEF Listen, Goto
    <2>13. CASE Protect(d)
      BY <2>13 DEF Protect, Goto
    <2>14. CASE ProtectNothing(d)
      BY <2>14 DEF ProtectNothing, Gone
    <2>15. CASE ProtectFails(d)
      BY <2>15 DEF ProtectFails, Gone
    <2>16. CASE ScanSucceeds(d)
      BY <2>16 DEF ScanSucceeds, Observe
    <2>17. CASE ScanFails(d)
      BY <2>17 DEF ScanFails, Observe
    <2>18. CASE ScanMisses(d)
      BY <2>18 DEF ScanMisses, Miss, LastMiss
    <2>19. CASE ScanGivesUp(d)
      BY <2>19 DEF ScanGivesUp, Goto, LastMiss
    <2>20. CASE ReceiveShutdown(d)
      BY <2>20 DEF ReceiveShutdown, Goto
    <2>21. CASE Interrupted(d)
      BY <2>21 DEF Interrupted, Goto
    <2>22. CASE ListenerFails(d)
      BY <2>22 DEF ListenerFails, Goto
    <2>23. CASE CloseListener(d)
      BY <2>23 DEF CloseListener, Goto
    <2>24. CASE JoinTasks(d)
      BY <2>24 DEF JoinTasks, Goto
    <2>25. CASE CheckSocket(d)
      BY <2>25 DEF CheckSocket, Goto
    <2>26. CASE NothingToRemove(d)
      BY <2>26 DEF NothingToRemove, Gone
    <2>27. CASE RemoveSocket(d)
      BY <2>27 DEF RemoveSocket, Gone
    <2>28. CASE ChildStops(d)
      BY <2>28 DEF ChildStops
    <2>29. CASE ChildExits(d)
      BY <2>29 DEF ChildExits
    <2>30. CASE Killed(d)
      BY <2>30 DEF Killed, Gone
    <2>31. CASE AskServer(d)
      BY <2>31 DEF AskServer, Goto, Observe
    <2>32. QED
      BY <2>1, <2>2, <2>3, <2>4, <2>5, <2>6, <2>7, <2>8, <2>9, <2>10,
         <2>11, <2>12, <2>13, <2>14, <2>15, <2>16, <2>17, <2>18, <2>19,
         <2>20, <2>21, <2>22, <2>23, <2>24, <2>25, <2>26, <2>27, <2>28,
         <2>29, <2>30, <2>31
  <1>3. CASE \E c \in Client : ClientStep(c) \/ Give(c)
    <2> PICK c \in Client :
            \/ Give(c) \/ FindRunning(c) \/ FindNone(c) \/ Request(c)
            \/ NobodyToStop(c) \/ Acknowledge(c) \/ ConnectionLost(c)
            \/ Stopped(c) \/ StillConnecting(c) \/ Running(c) \/ Spawn(c)
            \/ DidNotStart(c) \/ GetSnapshot(c) \/ NoSnapshot(c)
      BY <1>3 DEF DaemonStep, ScanStep, ClientStep
    <2> USE DEF Move, Unobserved, At, ClientPhases
    <2>1. CASE Give(c)
      <3>1. PICK command \in Commands :
                client' = [client EXCEPT ![c] =
                    [command |-> command, at |-> First[command], stopped |-> None]]
        BY <2>1 DEF Give
      <3>2. QED
        BY <2>1, <3>1, FirstPhase DEF Give
    <2>2. CASE FindRunning(c)
      BY <2>2 DEF FindRunning, Proceed
    <2>3. CASE FindNone(c)
      BY <2>3 DEF FindNone, Proceed
    <2>4. CASE Request(c)
      <3>1. PICK d \in Daemon :
                /\ Reachable(d)
                /\ client' = [client EXCEPT ![c] = [@ EXCEPT !.at = "asking", !.stopped = d]]
        BY <2>4 DEF Request
      <3>2. UNCHANGED pc
        BY <2>4 DEF Request
      <3>3. /\ client'[c].at = "asking" /\ client'[c].stopped = d
            /\ \A b \in Client : b # c => client'[b] = client[b]
        BY <3>1
      <3>4. UNCHANGED socket
        BY <2>4 DEF Request
      <3>5. pc[d] \notin Starting \cup {"listen"}
        BY <3>1
      <3>6. QED
        BY <3>2, <3>3, <3>4, <3>5
    <2>5. CASE NobodyToStop(c)
      BY <2>5 DEF NobodyToStop, Finish, Idle
    <2>6. CASE Acknowledge(c)
      BY <2>6 DEF Acknowledge, Proceed
    <2>7. CASE ConnectionLost(c)
      BY <2>7 DEF ConnectionLost, Finish, Idle
    <2>8. CASE Stopped(c)
      BY <2>8, SMTT(30) DEF Stopped, AfterStop, Finish, Idle, Proceed
    <2>9. CASE StillConnecting(c)
      BY <2>9 DEF StillConnecting, Finish, Idle
    <2>10. CASE Running(c)
      BY <2>10 DEF Running, Proceed
    <2>11. CASE Spawn(c)
      BY <2>11 DEF Spawn, Proceed, Free
    <2>12. CASE DidNotStart(c)
      BY <2>12 DEF DidNotStart, Finish, Idle
    <2>13. CASE GetSnapshot(c)
      BY <2>13 DEF GetSnapshot, Finish, Idle
    <2>14. CASE NoSnapshot(c)
      BY <2>14 DEF NoSnapshot, Finish, Idle
    <2>15. QED
      BY <2>1, <2>2, <2>3, <2>4, <2>5, <2>6, <2>7, <2>8, <2>9, <2>10,
         <2>11, <2>12, <2>13, <2>14
  <1>4. CASE ServerComesOrGoes
    BY <1>4 DEF ServerComesOrGoes
  <1>5. QED
    BY <1>1, <1>2, <1>3, <1>4 DEF Next

(* The inductive invariant of starting and ending daemons.                 *)
THEOREM LifecycleInvariance == Spec => []IInv
  <1>1. IInv /\ [Next]_vars => IInv'
    BY TypeStep, PathStep, ClientsStep DEF IInv
  <1>2. QED
    BY InitIInv, <1>1, PTL DEF Spec

(* Every variable keeps its type; no daemon misses more scans than allowed. *)
THEOREM LifecycleTypeCorrect == Spec => []TypeOK
  BY LifecycleInvariance, PTL DEF IInv

(* Starts and ends that do not overlap leave every daemon reachable.       *)
THEOREM ReachableAlone == Spec => []ReachableUnlessOverlap
  <1>1. IInv => ReachableUnlessOverlap
    BY DEF IInv, PathIsOwn, ReachableUnlessOverlap, Reachable
  <1>2. QED
    BY LifecycleInvariance, <1>1, PTL

(* A successful restart is answered by a daemon other than the stopped one. *)
THEOREM RestartIsNew == Spec => RestartReplaces
  <1>1. IInv /\ [Next]_vars =>
          [ \A c \in Client : At(c, "verify") /\ At(c, "done")' =>
                \E d \in Daemon \ {client[c].stopped} : Reachable(d) ]_vars
    <2> SUFFICES ASSUME IInv, Next, NEW c \in Client, At(c, "verify"), At(c, "done")'
                 PROVE  \E d \in Daemon \ {client[c].stopped} : Reachable(d)
      OBVIOUS
    <2> USE LifecycleAssumption DEF At
    <2>1. client' # client
      OBVIOUS
    <2>2. PICK b \in Client : ClientStep(b) \/ Give(b)
      BY <2>1 DEF Next, DaemonStep, ScanStep, ServerComesOrGoes, FindSocket, FindDaemon,
         FindNobody, UnlinkStale, UnlinkNothing, StartFails, AskServer, BootstrapScan, BootstrapMisses,
         BootstrapGivesUp, Bind, AddressInUse, Listen, Protect, ProtectNothing, ProtectFails,
         ScanSucceeds, ScanFails, ScanMisses, ScanGivesUp, ReceiveShutdown, Interrupted,
         ListenerFails, CloseListener, JoinTasks, CheckSocket, NothingToRemove, RemoveSocket, ChildStops,
         ChildExits, Killed, Miss
    <2>3. \E v : client' = [client EXCEPT ![b] = v]
      BY <2>2 DEF ClientStep, Give, FindRunning, FindNone, Request, NobodyToStop,
         Acknowledge, ConnectionLost, Stopped, AfterStop, StillConnecting, Running,
         Spawn, DidNotStart, GetSnapshot, NoSnapshot, Proceed, Finish
    <2>4. b = c
      BY <2>3 DEF IInv, TypeOK
    <2>5. Connectable
      <3>1. GetSnapshot(c) \/ NoSnapshot(c)
        BY <2>2, <2>4 DEF ClientStep, Give, FindRunning, FindNone, Request, NobodyToStop,
           Acknowledge, ConnectionLost, Stopped, StillConnecting, Running, Spawn, DidNotStart
      <3>2. ~NoSnapshot(c)
        BY DEF IInv, TypeOK, NoSnapshot, Finish, Idle
      <3>3. QED
        BY <3>1, <3>2 DEF GetSnapshot
    <2>6. QED
      BY <2>5 DEF IInv, TypeOK, StoppedIsPast, Connectable
  <1>2. QED
    BY LifecycleInvariance, <1>1, PTL DEF Spec, RestartReplaces

=============================================================================
