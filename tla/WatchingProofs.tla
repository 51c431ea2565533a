--------------------------- MODULE WatchingProofs ---------------------------
(***************************************************************************)
(* Proofs about Watching, for any number of changes and any pipe.          *)
(*                                                                         *)
(* Snapshots reach the UI in the order in which they were read (InOrder),  *)
(* and a task that has nothing more to say has said the last thing there   *)
(* is (Delivered): so the UI has it or will read it.  The message line is  *)
(* right because a running UI without a watch always has a reconnection    *)
(* pending, which keeps a report from expiring (Connections).              *)
(***************************************************************************)
EXTENDS Watching, TLAPS

Running == phase \in {"loop", "acknowledging", "fetching"}

(* It has a watch, or has lost it and will have another.                   *)
Following == Running \/ (phase = "connecting" /\ why = "timer")

(* The two ends of the watch.                                              *)
Connections ==
    /\ conn = "open" => up /\ server # "none"
    /\ conn # "open" => server = "none"
    /\ conn = "none" => pipe = <<>>
    /\ phase = "closed" => conn = "none"
    /\ Running => (reconnect <=> conn = "none")

(* What was read earlier is not newer than what was read later.            *)
InOrder ==
    /\ \A i \in 1..Len(pipe) : pipe[i] <= view
    /\ \A i, j \in 1..Len(pipe) : i <= j => pipe[i] <= pipe[j]
    /\ server = "writing" =>
          /\ held \in View /\ held <= view
          /\ \A i \in 1..Len(pipe) : pipe[i] <= held

(* Nothing is older than the watch's first snapshot.                       *)
NotBefore ==
    Following =>
        /\ oldest \in View /\ snapshot \in View
        /\ oldest <= view /\ oldest <= snapshot
        /\ \A i \in 1..Len(pipe) : oldest <= pipe[i]
        /\ server = "writing" => oldest <= held

Delivered ==
    conn = "open" =>
        \/ OnItsWay
        \/ server = "waiting" /\ pipe = <<>> /\ phase # "connecting" /\ snapshot = view

Reported ==
    /\ phase = "connecting" => why \in Reason
    /\ phase = "connecting" /\ why = "start" => message = "none"
    /\ Running => (message = "daemon" => conn = "none")
    /\ Running => (conn = "none" => message # "none")

IInv == TypeOK /\ Connections /\ InOrder /\ NotBefore /\ Delivered /\ Reported

-----------------------------------------------------------------------------
(* What appending to a sequence of snapshots, and taking its head, does.   *)
LEMMA Appended ==
    ASSUME NEW s \in Seq(View), NEW v \in View
    PROVE  /\ Append(s, v) \in Seq(View)
           /\ Len(Append(s, v)) = Len(s) + 1
           /\ Append(s, v) # <<>>
           /\ \A i \in 1..Len(s) : Append(s, v)[i] = s[i]
           /\ Append(s, v)[Len(s) + 1] = v
  OBVIOUS

(* What taking the head of a sequence of snapshots does.                   *)
LEMMA Taken ==
    ASSUME NEW s \in Seq(View), s # <<>>
    PROVE  /\ Head(s) \in View /\ Head(s) = s[1]
           /\ Tail(s) \in Seq(View)
           /\ Len(s) \in Nat \ {0} /\ Len(Tail(s)) = Len(s) - 1
           /\ \A i \in 1..Len(Tail(s)) : i + 1 \in 1..Len(s) /\ Tail(s)[i] = s[i + 1]
           /\ Tail(s) = <<>> => Len(s) = 1
  <1>1. Len(s) \in Nat \ {0}
    OBVIOUS
  <1>2. Head(s) = s[1] /\ Head(s) \in View
    BY <1>1
  <1>3. Tail(s) \in Seq(View) /\ Len(Tail(s)) = Len(s) - 1
    OBVIOUS
  <1>4. \A i \in 1..Len(Tail(s)) : i + 1 \in 1..Len(s) /\ Tail(s)[i] = s[i + 1]
    BY <1>1, <1>3
  <1>a. Len(<<>>) = 0
    OBVIOUS
  <1>5. Tail(s) = <<>> => Len(Tail(s)) = 0
    BY Zenon, <1>a
  <1> QED
    BY <1>1, <1>2, <1>3, <1>4, <1>5

(* Snapshots are numbers.                                                  *)
LEMMA ViewNat == View \subseteq Nat /\ 0 \in View
  BY WatchingAssumption DEF View

(* The parts of the type invariant.                                        *)
Messages == {"none", "transient", "daemon"}

DaemonType ==
    /\ up \in BOOLEAN
    /\ view \in View
    /\ unannounced \in BOOLEAN
    /\ server \in {"none", "accepted", "reading", "writing", "waiting"}
    /\ held \in View \cup {None}
    /\ news \in BOOLEAN

SocketType ==
    /\ conn \in {"none", "open", "eof"}
    /\ pipe \in Seq(View)
    /\ Len(pipe) <= MaxPipe

StateType ==
    /\ phase \in {"connecting", "loop", "acknowledging", "fetching", "closed"}
    /\ why \in Reason \cup {"pane", "no pane"}
    /\ reconnect \in BOOLEAN
    /\ snapshot \in View \cup {None}
    /\ oldest \in View \cup {None}
    /\ message \in Messages

ScheduleType ==
    /\ visible \in BOOLEAN
    /\ dirty \in BOOLEAN
    /\ rendered_once \in BOOLEAN
    /\ hidden_once \in BOOLEAN

PaneType ==
    /\ sidebar \in BOOLEAN
    /\ shown \in BOOLEAN

ScreenType == screen \in {None} \cup ((View \cup {None}) \X Messages)

Types ==
    DaemonType /\ SocketType /\ StateType /\ ScheduleType /\ PaneType /\ ScreenType

(* Together they are the type invariant.                                   *)
LEMMA TypeParts == TypeOK <=> Types
  BY Zenon
  DEF TypeOK, Types, DaemonType, SocketType, StateType, ScheduleType, PaneType,
      ScreenType, Messages

(* What the helpers of the message line and of the schedule leave.         *)
LEMMA ErrorType ==
    ASSUME message \in Messages, dirty \in BOOLEAN, set_daemon_error
    PROVE  message' \in Messages /\ dirty' \in BOOLEAN
  <1>1. dirty' = TRUE \/ dirty' = dirty
    BY Zenon DEF set_daemon_error
  <1> QED
    BY <1>1 DEF set_daemon_error, Messages

(* A report that the daemon is gone is cleared.                            *)
LEMMA ClearType ==
    ASSUME message \in Messages, clear_daemon_error
    PROVE  message' \in Messages /\ message' # "daemon"
  BY DEF clear_daemon_error, Messages

(* What connecting leaves on the message line.                             *)
LEMMA ConnectedReport ==
    ASSUME Connected, Reported
    PROVE  \/ why = "start" /\ UNCHANGED message
           \/ why = "refresh" /\ set_transient
           \/ why = "timer" /\ clear_daemon_error
  BY DEF Connected, Reason, Reported

(* A redraw keeps the schedule.                                            *)
LEMMA ViewChangedType == ScheduleType /\ view_changed => ScheduleType'
  BY DEF ScheduleType, view_changed

(* Taking a snapshot keeps the socket.                                     *)
LEMMA PipeTaken ==
    ASSUME SocketType, pipe # <<>>, pipe' = Tail(pipe), conn' = conn
    PROVE  SocketType' /\ Head(pipe) \in View
  BY Taken, WatchingAssumption DEF SocketType

(* Hanging up keeps the daemon and the socket.                             *)
LEMMA HangupType ==
    ASSUME DaemonType, SocketType, Hangup
    PROVE  DaemonType' /\ SocketType'
  <1>1. <<>> \in Seq(View) /\ Len(<<>>) <= MaxPipe
    BY WatchingAssumption
  <1> QED
    BY <1>1 DEF DaemonType, SocketType, Hangup

(* Every step keeps the types.                                             *)
LEMMA TypeStep == IInv /\ [Next]_vars => TypeOK'
  <1> SUFFICES ASSUME IInv, [Next]_vars PROVE TypeOK'
    OBVIOUS
  <1>a. DaemonType /\ SocketType /\ StateType /\ ScheduleType /\ PaneType /\ ScreenType
    BY TypeParts DEF IInv, Types
  <1>b. SUFFICES Types'
    BY TypeParts, PTL
  <1> USE <1>a DEF Types, daemon, socket, state, pane, schedule
  <1>d. UNCHANGED daemon => DaemonType'
    BY DEF DaemonType
  <1>s. UNCHANGED socket => SocketType'
    BY DEF SocketType
  <1>t. UNCHANGED state => StateType'
    BY DEF StateType
  <1>u. UNCHANGED schedule => ScheduleType'
    BY DEF ScheduleType
  <1>p. UNCHANGED pane => PaneType'
    BY DEF PaneType
  <1>c. UNCHANGED screen => ScreenType'
    BY DEF ScreenType
  <1> DEFINE Rest == UNCHANGED <<socket, state, pane, schedule, screen>>
  <1>r. Rest => SocketType' /\ StateType' /\ ScheduleType' /\ PaneType' /\ ScreenType'
    BY <1>s, <1>t, <1>u, <1>p, <1>c
  <1>1. CASE UNCHANGED vars
    BY <1>1, <1>d, <1>r DEF vars
  <1>2. CASE Publish
    <2>1. view' \in View
      BY <1>2, WatchingAssumption DEF Publish, DaemonType, View
    <2>2. DaemonType'
      BY <1>2, <2>1 DEF Publish, DaemonType
    <2> QED
      BY <1>2, <2>1, <2>2, <1>r DEF Publish
  <1>3. CASE Announce
    <2>1. news' \in BOOLEAN
      BY <1>3 DEF Announce
    <2>2. DaemonType'
      BY <1>3, <2>1 DEF Announce, DaemonType
    <2> QED
      BY <1>3, <2>1, <2>2, <1>r DEF Announce
  <1>4. CASE Subscribe
    <2>1. DaemonType'
      BY <1>4 DEF Subscribe, DaemonType
    <2> QED
      BY <1>4, <2>1, <1>r DEF Subscribe
  <1>5. CASE ReadSnapshot
    <2>1. DaemonType'
      BY <1>5 DEF ReadSnapshot, DaemonType
    <2> QED
      BY <1>5, <2>1, <1>r DEF ReadSnapshot
  <1>6. CASE write_response
    <2>1. DaemonType'
      BY <1>6 DEF write_response, DaemonType
    <2>2. SocketType'
      <3>1. held \in View
        BY <1>6 DEF IInv, InOrder, write_response
      <3> QED
        BY <1>6, <3>1, Appended, WatchingAssumption DEF write_response, SocketType
    <2> QED
      BY <1>6, <2>1, <2>2, <1>t, <1>u, <1>p, <1>c DEF write_response
  <1>7. CASE Changed
    <2>1. DaemonType'
      BY <1>7 DEF Changed, DaemonType
    <2> QED
      BY <1>7, <2>1, <1>r DEF Changed
  <1>8. CASE Die
    <2>1. DaemonType'
      BY <1>8 DEF Die, DaemonType
    <2>2. SocketType'
      <3>1. <<>> \in Seq(View) /\ Len(<<>>) <= MaxPipe
        BY WatchingAssumption
      <3> QED
        BY <1>8, <3>1 DEF Die, SocketType
    <2> QED
      BY <1>8, <2>1, <2>2, <1>t, <1>u, <1>p, <1>c DEF Die
  <1>9. CASE StartDaemon
    <2>1. view' \in View
      BY <1>9, WatchingAssumption DEF StartDaemon, DaemonType, View
    <2>2. DaemonType'
      BY <1>9, <2>1 DEF StartDaemon, DaemonType
    <2> QED
      BY <1>9, <2>1, <2>2, <1>r DEF StartDaemon
  <1>10. CASE Dial
    <2>1. DaemonType'
      BY <1>10 DEF Dial, DaemonType
    <2>2. SocketType'
      BY <1>10 DEF Dial, SocketType
    <2> QED
      BY <1>10, <2>1, <2>2, <1>t, <1>u, <1>p, <1>c DEF Dial
  <1>11. CASE Connected
    <2>1. SocketType' /\ Head(pipe) \in View
      BY <1>11, PipeTaken DEF Connected
    <2>2. message' \in Messages
      BY <1>11, ConnectedReport, ClearType DEF IInv, StateType, set_transient, Messages
    <2>3. StateType'
      BY <1>11, <2>1, <2>2 DEF Connected, StateType
    <2>4. visible' \in BOOLEAN
      BY <1>11 DEF Connected, PaneType, ScheduleType
    <2>5. ScheduleType'
      BY <1>11, <2>4 DEF Connected, ScheduleType
    <2> QED
      BY <1>11, <2>1, <2>2, <2>3, <2>4, <2>5, <1>d, <1>p, <1>c DEF Connected
  <1>12. CASE ConnectFails
    <2>1. SocketType'
      BY <1>12 DEF ConnectFails, SocketType
    <2>2. message' \in Messages /\ dirty' \in BOOLEAN
      BY <1>12, ErrorType DEF ConnectFails, StateType, ScheduleType
    <2>3. StateType'
      BY <1>12, <2>2 DEF ConnectFails, StateType
    <2>4. ScheduleType'
      BY <1>12, <2>2 DEF ConnectFails, ScheduleType
    <2> QED
      BY <1>12, <2>1, <2>2, <2>3, <2>4, <1>d, <1>p, <1>c DEF ConnectFails
  <1>13. CASE WatchReconnect
    <2>1. StateType'
      BY <1>13 DEF WatchReconnect, StateType, Reason
    <2> QED
      BY <1>13, <2>1, <1>d, <1>s, <1>u, <1>p, <1>c DEF WatchReconnect
  <1>14. CASE Refresh
    <2>1. DaemonType' /\ SocketType'
      BY <1>14, HangupType DEF Refresh
    <2>2. StateType'
      BY <1>14 DEF Refresh, StateType, Reason
    <2> QED
      BY <1>14, <2>1, <2>2, <1>u, <1>p, <1>c DEF Refresh
  <1>15. CASE Draw
    <2>1. ScreenType'
      BY <1>15 DEF Draw, ScreenType, StateType
    <2>2. ScheduleType'
      BY <1>15 DEF Draw, ScheduleType
    <2> QED
      BY <1>15, <2>1, <2>2, <1>d, <1>s, <1>t, <1>p DEF Draw
  <1>16. CASE next_watched_snapshot
    <2>1. SocketType' /\ Head(pipe) \in View
      BY <1>16, PipeTaken DEF next_watched_snapshot
    <2>2. StateType'
      BY <1>16, <2>1, ClearType DEF next_watched_snapshot, StateType
    <2> QED
      BY <1>16, <2>1, <2>2, ViewChangedType, <1>d, <1>p, <1>c DEF next_watched_snapshot
  <1>17. CASE WatchEnds
    <2>1. SocketType'
      BY <1>17 DEF WatchEnds, SocketType
    <2>2. message' \in Messages /\ dirty' \in BOOLEAN
      BY <1>17, ErrorType DEF WatchEnds, StateType, ScheduleType
    <2>3. StateType'
      BY <1>17, <2>2 DEF WatchEnds, StateType
    <2>4. ScheduleType'
      BY <1>17, <2>2 DEF WatchEnds, ScheduleType
    <2> QED
      BY <1>17, <2>1, <2>2, <2>3, <2>4, <1>d, <1>p, <1>c DEF WatchEnds
  <1>18. CASE visibility_checked
    <2>1. visible' \in BOOLEAN
      BY <1>18 DEF visibility_checked, ScheduleType, PaneType
    <2>2. dirty' \in BOOLEAN
      BY <1>18  DEF visibility_checked
    <2>3. ScheduleType'
      BY <1>18, <2>1, <2>2 DEF visibility_checked, ScheduleType
    <2> QED
      BY <1>18, <2>1, <2>2, <2>3, <1>d, <1>s, <1>t, <1>p, <1>c DEF visibility_checked
  <1>19. CASE Redraw
    BY <1>19, ViewChangedType, <1>d, <1>s, <1>t, <1>p, <1>c DEF Redraw
  <1>20. CASE shared_selection_changed
    <2>1. ScheduleType'
      BY <1>20 DEF shared_selection_changed, ScheduleType
    <2> QED
      BY <1>20, <2>1, <1>d, <1>s, <1>t, <1>p, <1>c DEF shared_selection_changed
  <1>21. CASE MessageExpiry
    <2>1. StateType'
      BY <1>21 DEF MessageExpiry, StateType, Messages
    <2> QED
      BY <1>21, <2>1, ViewChangedType, <1>d, <1>s, <1>p, <1>c DEF MessageExpiry
  <1>22. CASE Act
    <2>1. StateType'
      BY <1>22 DEF Act, set_transient, StateType, Messages
    <2> QED
      BY <1>22, <2>1, ViewChangedType, <1>d, <1>s, <1>p, <1>c DEF Act
  <1>23. CASE Activate
    <2>1. StateType'
      BY <1>23 DEF Activate, StateType
    <2> QED
      BY <1>23, <2>1, <1>d, <1>s, <1>u, <1>p, <1>c DEF Activate
  <1>24. CASE Acknowledge
    <2>1. view' \in View
      BY <1>24, WatchingAssumption DEF Acknowledge, DaemonType, View
    <2>2. news' \in BOOLEAN
      BY <1>24 DEF Acknowledge
    <2>3. DaemonType'
      BY <1>24, <2>1, <2>2 DEF Acknowledge, DaemonType
    <2>4. StateType'
      BY <1>24 DEF Acknowledge, StateType
    <2> QED
      BY <1>24, <2>1, <2>2, <2>3, <2>4, <1>s, <1>u, <1>p, <1>c DEF Acknowledge
  <1>25. CASE Fetch
    <2>1. DaemonType' /\ SocketType'
      BY <1>25, HangupType, <1>d, <1>s DEF Fetch
    <2>2. StateType'
      BY <1>25 DEF Fetch, StateType, DaemonType, set_transient, Messages
    <2>3. ScheduleType'
      BY <1>25, ViewChangedType, <1>u DEF Fetch
    <2> QED
      BY <1>25, <2>1, <2>2, <2>3, <1>p, <1>c DEF Fetch
  <1>26. CASE ActivationFails
    <2>1. DaemonType' /\ SocketType'
      BY <1>26, HangupType, <1>d, <1>s DEF ActivationFails
    <2>2. StateType'
      BY <1>26 DEF ActivationFails, StateType, set_transient, Messages
    <2>3. ScheduleType'
      BY <1>26, ViewChangedType, <1>u DEF ActivationFails
    <2> QED
      BY <1>26, <2>1, <2>2, <2>3, <1>p, <1>c DEF ActivationFails
  <1>27. CASE Quit
    <2>1. DaemonType' /\ SocketType'
      BY <1>27, HangupType DEF Quit
    <2>2. StateType'
      BY <1>27 DEF Quit, StateType
    <2> QED
      BY <1>27, <2>1, <2>2, <1>u, <1>p, <1>c DEF Quit
  <1>28. CASE Look
    <2>1. PaneType'
      BY <1>28 DEF Look, PaneType
    <2> QED
      BY <1>28, <2>1, <1>d, <1>s, <1>t, <1>u, <1>c DEF Look
  <1> QED
    BY <1>1, <1>2, <1>3, <1>4, <1>5, <1>6, <1>7, <1>8, <1>9, <1>10, <1>11, <1>12, <1>13,
       <1>14, <1>15, <1>16, <1>17, <1>18, <1>19, <1>20, <1>21, <1>22, <1>23, <1>24, <1>25,
       <1>26, <1>27, <1>28
    DEF Next, ByDaemon, ByUser, ByLoop

-----------------------------------------------------------------------------
(* Every step keeps the two ends of the watch together.                    *)
LEMMA ConnectionsStep == IInv /\ [Next]_vars => Connections'
  <1> SUFFICES ASSUME IInv, [Next]_vars PROVE Connections'
    OBVIOUS
  <1>a. Connections
    BY DEF IInv
  <1> USE DEF daemon, socket, state, pane, schedule, Connections, Running
  <1>u. UNCHANGED <<up, server, conn, pipe, phase, reconnect>> => Connections'
    BY <1>a
  <1>1. CASE Subscribe \/ ReadSnapshot \/ write_response \/ Changed
    BY <1>1, <1>a DEF Subscribe, ReadSnapshot, write_response, Changed
  <1>2. CASE Die \/ StartDaemon \/ Dial
    BY <1>2, <1>a DEF Die, StartDaemon, Dial
  <1>3. CASE Connected
    BY <1>3, <1>a DEF Connected
  <1>4. CASE ConnectFails
    BY <1>4, <1>a DEF ConnectFails
  <1>5. CASE WatchReconnect \/ Refresh \/ Quit
    BY <1>5, <1>a DEF WatchReconnect, Refresh, Quit, Hangup
  <1>6. CASE next_watched_snapshot
    BY <1>6, <1>a DEF next_watched_snapshot
  <1>7. CASE WatchEnds
    BY <1>7, <1>a DEF WatchEnds, Waiting
  <1>8. CASE Activate
    BY <1>8, <1>a DEF Activate, Waiting
  <1>12. CASE Acknowledge
    BY <1>12, <1>a DEF Acknowledge
  <1>9. CASE Fetch \/ ActivationFails
    BY <1>9, <1>a DEF Fetch, ActivationFails, Hangup
  <1>10. CASE Publish \/ Announce \/ Redraw \/ shared_selection_changed \/ Act \/ Draw
              \/ visibility_checked \/ MessageExpiry \/ Look
    BY <1>10, <1>u
    DEF Publish, Announce, Redraw, shared_selection_changed, Act, Draw,
        visibility_checked, MessageExpiry, Look
  <1>11. CASE UNCHANGED vars
    BY <1>11, <1>u DEF vars
  <1> QED
    BY <1>1, <1>2, <1>3, <1>4, <1>5, <1>6, <1>7, <1>8, <1>9, <1>10, <1>11, <1>12
    DEF Next, ByDaemon, ByUser, ByLoop

(* Every step keeps the message line true.                                 *)
LEMMA ReportedStep == IInv /\ [Next]_vars => Reported'
  <1> SUFFICES ASSUME IInv, [Next]_vars PROVE Reported'
    OBVIOUS
  <1>a. StateType /\ Connections /\ Reported
    BY TypeParts DEF IInv, Types
  <1> USE DEF daemon, socket, state, pane, schedule, Running
  <1>u. UNCHANGED <<conn, phase, why, message>> => Reported'
    BY <1>a DEF Reported
  <1>1. CASE Die
    BY <1>1, <1>a DEF Die, Reported
  <1>2. CASE Dial
    BY <1>2, <1>a DEF Dial, Reported
  <1>3. CASE Connected
    <2>1. conn' # "none" /\ phase' = "loop"
      BY <1>3, <1>a DEF Connected, Connections
    <2>2. message' # "daemon"
      BY <1>3, <1>a, ConnectedReport, ClearType
      DEF Connected, Reported, StateType, set_transient
    <2> QED
      BY <2>1, <2>2 DEF Reported
  <1>4. CASE ConnectFails
    BY <1>4, <1>a DEF ConnectFails, Reported, set_daemon_error
  <1>5. CASE WatchReconnect \/ Refresh \/ Quit
    BY <1>5, <1>a DEF WatchReconnect, Refresh, Quit, Hangup, Reported, Reason
  <1>6. CASE next_watched_snapshot
    <2>1. conn' # "none" /\ phase' = "loop"
      BY <1>6, <1>a DEF next_watched_snapshot, Connections, Waiting
    <2>2. message' # "daemon"
      BY <1>6, <1>a, ClearType DEF next_watched_snapshot, StateType
    <2> QED
      BY <2>1, <2>2 DEF Reported
  <1>7. CASE WatchEnds
    BY <1>7 DEF WatchEnds, Reported, Waiting, set_daemon_error
  <1>8. CASE Activate \/ Acknowledge
    BY <1>8, <1>a DEF Activate, Acknowledge, Waiting, Reported
  <1>9. CASE Fetch \/ ActivationFails
    BY <1>9, <1>a DEF Fetch, ActivationFails, Hangup, Reported, set_transient
  <1>10. CASE Act \/ MessageExpiry
    BY <1>10, <1>a DEF Act, MessageExpiry, Reported, Connections, Waiting, set_transient
  <1>11. CASE Publish \/ Announce \/ Subscribe \/ ReadSnapshot \/ write_response \/ Changed
              \/ StartDaemon \/ Redraw \/ shared_selection_changed \/ Draw
              \/ visibility_checked \/ Look
    BY <1>11, <1>u
    DEF Publish, Announce, Subscribe, ReadSnapshot, write_response, Changed, StartDaemon,
        Redraw, shared_selection_changed, Draw, visibility_checked, Look
  <1>12. CASE UNCHANGED vars
    BY <1>12, <1>u DEF vars
  <1> QED
    BY <1>1, <1>2, <1>3, <1>4, <1>5, <1>6, <1>7, <1>8, <1>9, <1>10, <1>11, <1>12
    DEF Next, ByDaemon, ByUser, ByLoop

(* The number of changes never falls.                                      *)
LEMMA ViewGrows ==
    ASSUME DaemonType, [Next]_vars
    PROVE  view \in Nat /\ view' \in Nat /\ view' >= view
  <1>1. view \in Nat
    BY ViewNat DEF DaemonType
  <1>2. view' = view \/ view' = view + 1
    BY DEF Next, ByDaemon, ByUser, ByLoop, Publish, Announce, Subscribe, ReadSnapshot,
           write_response, Changed, Die, StartDaemon, Refresh, Act, Activate, Redraw,
           shared_selection_changed, Quit, Dial, Connected, ConnectFails, WatchReconnect,
           Draw, next_watched_snapshot, WatchEnds, visibility_checked, MessageExpiry,
           Acknowledge, Fetch, ActivationFails, Look, Hangup, vars, daemon
  <1> QED
    BY <1>1, <1>2

(* The order of the snapshots on their way, and the watch's first one.     *)
LEMMA OrderStep == IInv /\ [Next]_vars => InOrder' /\ NotBefore'
  <1> SUFFICES ASSUME IInv, [Next]_vars PROVE InOrder' /\ NotBefore'
    OBVIOUS
  <1>a. /\ DaemonType /\ SocketType /\ StateType /\ Connections /\ InOrder /\ NotBefore
        /\ Reported
    BY TypeParts DEF IInv, Types
  <1>b. /\ pipe \in Seq(View) /\ Len(pipe) \in Nat
        /\ \A i \in 1..Len(pipe) : pipe[i] \in Nat
    <2>1. pipe \in Seq(View)
      BY <1>a DEF SocketType
    <2>2. \A i \in 1..Len(pipe) : pipe[i] \in View
      BY <2>1
    <2> QED
      <3>1. Len(pipe) \in Nat
        BY <2>1
      <3> QED
        BY <2>1, <2>2, <3>1, ViewNat
  <1>c. View \subseteq Nat
    BY ViewNat
  <1>v. view \in Nat /\ view' \in Nat /\ view' >= view
    BY <1>a, ViewGrows
  <1>h. server = "writing" => held \in Nat /\ held \in View
    BY <1>a, <1>c DEF InOrder
  <1>n. Following => oldest \in Nat /\ snapshot \in Nat
    BY <1>a, <1>c DEF NotBefore
  <1>l. Len(<<>>) = 0
    OBVIOUS
  <1> USE DEF daemon, socket, state, pane, schedule
  <1>e. ASSUME pipe' = <<>>, server' # "writing" PROVE InOrder'
    BY <1>e, <1>l DEF InOrder
  <1>k. ASSUME UNCHANGED <<pipe, held>>, server' = server PROVE InOrder'
    BY <1>k, <1>a, <1>b, <1>v, <1>h DEF InOrder
  <1>m. ASSUME UNCHANGED pipe, server' # "writing" PROVE InOrder'
    BY <1>m, <1>a, <1>b, <1>v DEF InOrder
  <1>t. ASSUME pipe # <<>>, pipe' = Tail(pipe), UNCHANGED <<view, server, held>>
        PROVE  InOrder'
    BY <1>t, <1>a, <1>b, Taken DEF InOrder
  <1>o. ASSUME UNCHANGED <<pipe, held, oldest>>, snapshot' = snapshot \/ snapshot' = view,
               server' = server, Following' => Following
        PROVE  NotBefore'
    BY <1>o, <1>a, <1>b, <1>v, <1>n, <1>h DEF NotBefore, DaemonType
  <1>q. ASSUME UNCHANGED <<oldest, snapshot>>, pipe' = pipe \/ pipe' = <<>>,
               server' # "writing", Following' => Following
        PROVE  NotBefore'
    BY <1>q, <1>a, <1>b, <1>v, <1>n, <1>l DEF NotBefore
  <1>1. CASE ReadSnapshot
    <2>1. held' = view /\ UNCHANGED <<view, pipe, oldest, snapshot, phase, why>>
      BY <1>1 DEF ReadSnapshot
    <2>2. InOrder'
      BY <2>1, <1>a, <1>b, <1>v DEF InOrder, DaemonType
    <2>3. NotBefore'
      BY <2>1, <1>a, <1>b, <1>v, <1>n DEF NotBefore, Following, Running
    <2> QED
      BY <2>2, <2>3
  <1>2. CASE write_response
    <2>1. /\ server = "writing" /\ server' = "waiting" /\ pipe' = Append(pipe, held)
          /\ UNCHANGED <<view, oldest, snapshot, phase, why>>
      BY <1>2 DEF write_response
    <2>2. /\ Len(pipe') = Len(pipe) + 1
          /\ \A i \in 1..Len(pipe') :
                \/ i \in 1..Len(pipe) /\ pipe'[i] = pipe[i]
                \/ i = Len(pipe) + 1 /\ pipe'[i] = held
      <3> DEFINE s == Append(pipe, held)
      <3>1. /\ Len(s) = Len(pipe) + 1
            /\ \A i \in 1..Len(pipe) : s[i] = pipe[i]
            /\ s[Len(pipe) + 1] = held
        BY <2>1, <1>b, <1>h, Appended
      <3> HIDE DEF s
      <3>2. \A i \in 1..Len(s) : i \in 1..Len(pipe) \/ i = Len(pipe) + 1
        BY <3>1, <1>b
      <3>3. pipe' = s
        BY <2>1 DEF s
      <3> QED
        <4>1. ASSUME NEW i \in 1..Len(s)
              PROVE  \/ i \in 1..Len(pipe) /\ s[i] = pipe[i]
                     \/ i = Len(pipe) + 1 /\ s[i] = held
          BY Zenon, <3>1, <3>2
        <4> QED
          BY Zenon, <3>1, <3>3, <4>1
    <2>3. InOrder'
      BY <2>1, <2>2, <1>a, <1>b, <1>v, <1>h DEF InOrder
    <2>4. NotBefore'
      BY <2>1, <2>2, <1>a, <1>n, <1>h DEF NotBefore, Following, Running
    <2> QED
      BY <2>3, <2>4
  <1>3. CASE Connected
    <2>1. /\ pipe # <<>> /\ pipe' = Tail(pipe) /\ UNCHANGED <<view, server, held>>
          /\ oldest' = Head(pipe) /\ snapshot' = Head(pipe)
      BY <1>3 DEF Connected
    <2>2. Head(pipe) \in View /\ Head(pipe) = pipe[1] /\ 1 \in 1..Len(pipe)
      BY <2>1, <1>b, Taken
    <2>3. \A i \in 1..Len(pipe') : pipe[1] <= pipe'[i]
      BY <2>1, <2>2, <1>a, <1>b, Taken DEF InOrder
    <2>4. NotBefore'
      BY <2>1, <2>2, <2>3, <1>a, <1>b DEF NotBefore, InOrder
    <2> QED
      BY <2>1, <2>4, <1>t
  <1>4. CASE next_watched_snapshot
    <2>1. /\ pipe # <<>> /\ pipe' = Tail(pipe) /\ UNCHANGED <<view, server, held>>
          /\ oldest' = oldest /\ snapshot' = Head(pipe) /\ Following
      BY <1>4 DEF next_watched_snapshot, Waiting, Following, Running
    <2>2. Head(pipe) \in View /\ Head(pipe) = pipe[1] /\ 1 \in 1..Len(pipe)
      BY <2>1, <1>b, Taken
    <2>3. \A i \in 1..Len(pipe') : oldest <= pipe'[i]
      BY <2>1, <1>a, <1>b, Taken DEF NotBefore
    <2>4. NotBefore'
      BY <2>1, <2>2, <2>3, <1>a DEF NotBefore
    <2> QED
      BY <2>1, <2>4, <1>t
  <1>5. CASE Subscribe \/ Changed \/ Dial \/ Die
    <2>1. /\ UNCHANGED <<oldest, snapshot, phase, why>> /\ server' # "writing"
          /\ pipe' = pipe \/ pipe' = <<>>
      BY <1>5 DEF Subscribe, Changed, Dial, Die
    <2> QED
      BY <2>1, <1>e, <1>m, <1>q DEF Following, Running
  <1>6. CASE Fetch
    <2>1. CASE Hangup /\ phase' = "closed"
      BY <2>1, <1>e DEF Hangup, NotBefore, Following, Running
    <2>2. CASE UNCHANGED daemon /\ UNCHANGED socket
      BY <1>6, <2>2, <1>k, <1>o DEF Fetch, Following, Running
    <2> QED
      BY <1>6, <2>1, <2>2 DEF Fetch
  <1>7. CASE ActivationFails
    <2>1. CASE Hangup /\ phase' = "closed"
      BY <2>1, <1>e DEF Hangup, NotBefore, Following, Running
    <2>2. CASE UNCHANGED daemon /\ UNCHANGED socket
      BY <1>7, <2>2, <1>k, <1>o DEF ActivationFails, Following, Running
    <2> QED
      BY <1>7, <2>1, <2>2 DEF ActivationFails
  <1>8. CASE Refresh \/ Quit
    BY <1>8, <1>e DEF Refresh, Quit, Hangup, NotBefore, Following, Running
  <1>9. CASE WatchReconnect
    BY <1>9, <1>k, <1>o DEF WatchReconnect, Waiting, Following, Running
  <1>10. CASE ConnectFails
    <2>1. phase = "connecting" /\ UNCHANGED <<pipe, held, server>>
      BY <1>10 DEF ConnectFails
    <2>2. CASE phase' = "closed"
      BY <2>1, <2>2, <1>k DEF NotBefore, Following, Running
    <2>3. CASE why = "timer"
      <3>1. UNCHANGED <<oldest, snapshot>>
        BY <1>10 DEF ConnectFails
      <3> QED
        BY <2>1, <2>3, <3>1, <1>k, <1>o DEF Following
    <2> QED
      BY <1>10, <2>2, <2>3 DEF ConnectFails
  <1>11. CASE Publish \/ Announce \/ StartDaemon \/ Acknowledge \/ Activate
              \/ Redraw \/ shared_selection_changed \/ Act \/ Draw \/ WatchEnds
              \/ visibility_checked \/ MessageExpiry \/ Look
    <2>1. UNCHANGED <<pipe, held, oldest, snapshot, server>> /\ (Following' => Following)
      BY <1>11
      DEF Publish, Announce, StartDaemon, Acknowledge, Activate, Redraw,
          shared_selection_changed, Act, Draw, WatchEnds, visibility_checked,
          MessageExpiry, Look, Waiting, Following, Running
    <2> QED
      BY <2>1, <1>k, <1>o
  <1>12. CASE UNCHANGED vars
    BY <1>12, <1>k, <1>o DEF vars, Following, Running
  <1> QED
    BY <1>1, <1>2, <1>3, <1>4, <1>5, <1>6, <1>7, <1>8, <1>9, <1>10, <1>11, <1>12
    DEF Next, ByDaemon, ByUser, ByLoop

(* Every step keeps the last snapshot in hand or on its way.               *)
LEMMA DeliveredStep == IInv /\ [Next]_vars => Delivered'
  <1> SUFFICES ASSUME IInv, [Next]_vars PROVE Delivered'
    OBVIOUS
  <1>a. DaemonType /\ SocketType /\ StateType /\ Connections /\ InOrder /\ Delivered
    BY TypeParts DEF IInv, Types
  <1> USE DEF daemon, socket, state, pane, schedule
  <1>c. conn' # "open" => Delivered'
    BY DEF Delivered
  <1>w. OnItsWay' => Delivered'
    BY DEF Delivered
  <1>u. ASSUME UNCHANGED <<view, unannounced, news, server, held, conn, pipe, snapshot>>,
               phase' = "connecting" => phase = "connecting"
        PROVE  Delivered'
    BY <1>u, <1>a DEF Delivered, OnItsWay, Last
  (* The pipe's first snapshot is taken.                                     *)
  <1>t. ASSUME pipe # <<>>, pipe' = Tail(pipe), snapshot' = Head(pipe), phase' = "loop",
               UNCHANGED <<view, unannounced, news, server, held, conn>>
        PROVE  Delivered'
    <2> SUFFICES ASSUME conn = "open" PROVE Delivered'
      BY <1>t, <1>c
    <2>1. OnItsWay
      BY <1>a, <1>t DEF Delivered
    <2>2. CASE server = "waiting" /\ Last(pipe) = view
      <3>1. CASE Tail(pipe) = <<>>
        <4>1. Head(pipe) = Last(pipe)
          BY <1>a, <1>t, <3>1, Taken DEF SocketType, Last
        <4> QED
          BY <1>t, <2>2, <3>1, <4>1 DEF Delivered
      <3>2. CASE Tail(pipe) # <<>>
        <4>1. Last(Tail(pipe)) = Last(pipe)
          <5>1. pipe \in Seq(View) /\ Tail(pipe) \in Seq(View)
            BY <1>a, <1>t, Taken DEF SocketType
          <5>2. Len(Tail(pipe)) \in 1..Len(Tail(pipe)) /\ Len(Tail(pipe)) + 1 = Len(pipe)
            BY <1>t, <3>2, <5>1, Taken
          <5>3. \A i \in 1..Len(Tail(pipe)) : Tail(pipe)[i] = pipe[i + 1]
            BY <1>t, <5>1, Taken
          <5> QED
            BY <5>2, <5>3 DEF Last
        <4> QED
          BY <1>t, <1>w, <2>2, <3>2, <4>1 DEF OnItsWay
      <3> QED
        BY <3>1, <3>2
    <2>3. CASE ~(server = "waiting" /\ Last(pipe) = view)
      BY <1>t, <1>w, <2>1, <2>3 DEF OnItsWay
    <2> QED
      BY <2>2, <2>3
  <1>1. CASE Publish
    BY <1>1, <1>w DEF Publish, OnItsWay
  <1>2. CASE Announce
    BY <1>2, <1>a, <1>c, <1>w
    DEF Announce, OnItsWay, Subscribed, Connections, DaemonType
  <1>3. CASE Subscribe \/ ReadSnapshot \/ Changed \/ Dial
    BY <1>3, <1>w DEF Subscribe, ReadSnapshot, Changed, Dial, OnItsWay
  <1>4. CASE write_response
    <2>1. /\ server = "writing" /\ server' = "waiting" /\ pipe' = Append(pipe, held)
          /\ UNCHANGED <<view, unannounced, news, conn>>
      BY <1>4 DEF write_response
    <2>2. held \in View /\ pipe \in Seq(View)
      BY <1>a, <2>1 DEF InOrder, SocketType
    <2>3. pipe' # <<>> /\ Last(pipe') = held
      BY <2>1, <2>2, Appended DEF Last
    <2>4. conn = "open" => OnItsWay
      BY <1>a, <2>1 DEF Delivered
    <2>5. OnItsWay => OnItsWay'
      BY <2>1, <2>3 DEF OnItsWay
    <2> QED
      BY <2>1, <2>4, <2>5 DEF Delivered
  <1>5. CASE Die \/ StartDaemon
    BY <1>5, <1>a, <1>c DEF Die, StartDaemon, Connections
  <1>6. CASE Connected
    BY <1>6, <1>t DEF Connected
  <1>7. CASE next_watched_snapshot
    BY <1>7, <1>t DEF next_watched_snapshot, Waiting
  <1>8. CASE ConnectFails \/ Refresh \/ Quit \/ WatchEnds
    BY <1>8, <1>c DEF ConnectFails, Refresh, Quit, WatchEnds, Hangup
  <1>9. CASE WatchReconnect
    BY <1>9, <1>a, <1>c DEF WatchReconnect, Waiting, Connections, Running
  <1>10. CASE Acknowledge
    <2>1. conn = "open" => server \in {"accepted", "reading", "writing", "waiting"}
      BY <1>a DEF Connections, DaemonType
    <2>2. conn = "open" => OnItsWay'
      BY <1>10, <2>1 DEF Acknowledge, OnItsWay, Subscribed
    <2> QED
      BY <1>10, <2>2, <1>c, <1>w DEF Acknowledge
  <1>11. CASE Fetch
    <2>1. CASE Hangup
      BY <2>1, <1>c DEF Hangup
    <2>2. CASE UNCHANGED daemon /\ UNCHANGED socket /\ phase' = "loop"
      BY <1>11, <2>2, <1>a DEF Fetch, Delivered, OnItsWay
    <2> QED
      BY <1>11, <2>1, <2>2 DEF Fetch
  <1>12. CASE ActivationFails
    <2>1. CASE Hangup
      BY <2>1, <1>c DEF Hangup
    <2>2. CASE UNCHANGED daemon /\ UNCHANGED socket /\ phase' = "loop"
      BY <1>12, <2>2, <1>u DEF ActivationFails
    <2> QED
      BY <1>12, <2>1, <2>2 DEF ActivationFails
  <1>13. CASE Activate \/ Redraw \/ shared_selection_changed \/ Act \/ Draw
              \/ visibility_checked \/ MessageExpiry \/ Look
    BY <1>13, <1>u
    DEF Activate, Redraw, shared_selection_changed, Act, Draw, visibility_checked,
        MessageExpiry, Look
  <1>14. CASE UNCHANGED vars
    BY <1>14, <1>u DEF vars
  <1> QED
    BY <1>1, <1>2, <1>3, <1>4, <1>5, <1>6, <1>7, <1>8, <1>9, <1>10, <1>11, <1>12, <1>13,
       <1>14
    DEF Next, ByDaemon, ByUser, ByLoop

-----------------------------------------------------------------------------
(* The invariant holds at first.                                           *)
LEMMA InitIInv == Init => IInv
  <1> SUFFICES ASSUME Init PROVE IInv
    OBVIOUS
  <1> USE DEF Init
  <1>1. DaemonType
    BY ViewNat DEF DaemonType
  <1>2. SocketType
    BY WatchingAssumption DEF SocketType
  <1>3. StateType
    BY DEF StateType, Reason, Messages
  <1>4. ScheduleType /\ PaneType /\ ScreenType
    BY DEF ScheduleType, PaneType, ScreenType
  <1>5. InOrder
    BY DEF InOrder
  <1>6. Connections /\ NotBefore /\ Delivered
    BY DEF Connections, NotBefore, Following, Running, Delivered
  <1>7. Reported
    BY DEF Reported, Running, Reason
  <1> QED
    BY <1>1, <1>2, <1>3, <1>4, <1>5, <1>6, <1>7, TypeParts DEF Types, IInv

(* At every moment the watch, the pipe and the message line fit together.  *)
THEOREM WatchingInvariance == Spec => []IInv
  <1>1. IInv /\ [Next]_vars => IInv'
    BY TypeStep, ConnectionsStep, OrderStep, DeliveredStep, ReportedStep DEF IInv
  <1> QED
    BY <1>1, InitIInv, PTL DEF Spec

(* The variables of the daemon, the watch and the UI keep their types.     *)
THEOREM WatchingTypeCorrect == Spec => []TypeOK
  BY WatchingInvariance, PTL DEF IInv

(* A running UI with a live watch holds the last snapshot, or it is on its *)
(* way to it (src/daemon.rs: serve_client; src/ui.rs: run_loop).           *)
THEOREM NothingMissed == Spec => []NothingIsMissed
  <1>1. IInv => NothingIsMissed
    <2> SUFFICES ASSUME IInv, phase = "loop"
                 PROVE  (conn = "open" => snapshot = view \/ OnItsWay) /\ snapshot >= oldest
      BY DEF NothingIsMissed
    <2>1. oldest \in Nat /\ snapshot \in Nat /\ oldest <= snapshot
      BY ViewNat DEF IInv, NotBefore, Following, Running
    <2> QED
      BY <2>1 DEF IInv, Delivered
  <1> QED
    BY <1>1, WatchingInvariance, PTL

(* The message line says that there is no daemon only while there is no    *)
(* watch, and says something while there is none (src/ui.rs: run_loop).    *)
THEOREM MessageFits == Spec => []MessageFitsConnection
  <1>1. IInv => MessageFitsConnection
    BY DEF IInv, Reported, Running, MessageFitsConnection
  <1> QED
    BY <1>1, WatchingInvariance, PTL

=============================================================================
