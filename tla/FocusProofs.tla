----------------------------- MODULE FocusProofs -----------------------------
(***************************************************************************)
(* What the user does to agents: the theorems of Focus, for any panes,     *)
(* bounds and connections, and after them those of Sidebar.                *)
(*                                                                         *)
(* A connection is never used twice: once the target's pane has lost the   *)
(* one the plan names, it never has it again (InUse).  So when the recheck *)
(* finds it there, it was there when the remote machine answered, and the  *)
(* answer is one that was confirmed (AnswersAreTrue).                      *)
(***************************************************************************)
EXTENDS Focus, Sidebar, WellFoundedInduction, TLAPS

(* The connections that panes and the plan name were made.                 *)
InUse ==
    /\ \A p \in Pane : link[p] # None => link[p] <= made
    /\ plan # None => /\ plan.connection # None => plan.connection <= made
                                                   /\ plan.remote
                      /\ plan.remote => plan.target \in Pane

(* What the activation has done is what its step says.                     *)
InStep ==
    /\ phase # "idle" => number > 0
    /\ phase \notin {"idle", "resolving"} => plan # None
    /\ phase \in {"resolving", "switching", "verifying", "requesting"} => ~requested
    /\ phase = "requesting" => plan.connection # None
    /\ phase \in {"waiting", "rechecking", "confirming"} => requested
    /\ phase = "rechecking" => answer = "selected"
    /\ phase = "confirming" => confirmed
    /\ requested => plan # None /\ plan.connection # None

(* A process that serves this activation asks for its connection.          *)
JobsFit ==
    \A job \in jobs :
        /\ job.number <= number
        /\ job.number = number =>
              requested /\ plan # None /\ job.client = plan.connection

AnswersAreTrue ==
    answer = "selected" => /\ requested
                           /\ confirmed \/ link[plan.target] # plan.connection

IInv == TypeOK /\ InUse /\ InStep /\ JobsFit /\ AnswersAreTrue

-----------------------------------------------------------------------------
(* The parts of the type invariant.                                        *)
LocalType ==
    /\ client \in [id : Life, at : Place]
    /\ server \in Life
    /\ link \in [Pane -> Connection \cup {None}]
    /\ made \in 0..MaxConn

RemoteType ==
    /\ attached \subseteq Connection
    /\ host \in Life
    /\ window \in BOOLEAN
    /\ selected \in BOOLEAN

PlanType ==
    /\ record \in [clients : SUBSET Connection, host : Life, complete : BOOLEAN]
    /\ captured \in [client : Life, server : Life] \cup {None}
    /\ plan \in Plan \cup {None}

ReportType ==
    /\ phase \in {"idle", "resolving", "switching", "verifying", "requesting",
                  "waiting", "rechecking", "confirming"}
    /\ outcome \in {"none", "exact", "transport", "missing", "failed"}
    /\ acknowledged \in BOOLEAN
    /\ number \in 0..MaxFocus

JobType == jobs \subseteq Job /\ answer \in {"none", "selected", "rejected"}

HistoryType == confirmed \in BOOLEAN /\ requested \in BOOLEAN

Types ==
    LocalType /\ RemoteType /\ PlanType /\ ReportType /\ JobType /\ HistoryType

(* Together they are the type invariant.                                   *)
LEMMA TypeParts == TypeOK <=> Types
  BY Zenon DEF TypeOK, Types, LocalType, RemoteType, PlanType, ReportType, JobType,
               HistoryType

(* What a client, a process and a report become keeps its type.            *)
LEMMA Moved ==
    ASSUME NEW c \in [id : Life, at : Place], NEW place \in Place
    PROVE  [c EXCEPT !.at = place] \in [id : Life, at : Place]
  OBVIOUS

(* A process that goes on is a process of the same activation.             *)
LEMMA Stepped ==
    ASSUME NEW job \in Job, NEW next \in {"select", "verify again", "read selection"}
    PROVE  /\ [job EXCEPT !.step = next] \in Job
           /\ [job EXCEPT !.step = next].number = job.number
           /\ [job EXCEPT !.step = next].client = job.client
  BY DEF Job

(* Going on keeps the report.                                              *)
LEMMA GoType ==
    ASSUME ReportType, NEW next \in {"switching", "verifying", "requesting", "waiting",
                                     "rechecking", "confirming"},
           Go(next)
    PROVE  ReportType'
  BY DEF ReportType, Go, report

(* Finishing makes a report.                                               *)
LEMMA FinishType ==
    ASSUME ReportType, NEW result \in {"exact", "transport", "missing", "failed"},
           Finish(result)
    PROVE  ReportType'
  <1>1. acknowledged' = (result \in {"exact", "transport", "missing"})
    BY DEF Finish
  <1>2. acknowledged' \in BOOLEAN
    <2>1. CASE result \in {"exact", "transport", "missing"}
      BY <1>1, <2>1
    <2>2. CASE result \notin {"exact", "transport", "missing"}
      BY <1>1, <2>2
    <2> QED
      BY <2>1, <2>2
  <1> QED
    BY <1>2 DEF ReportType, Finish

(* A response is an answer.                                                *)
LEMMA RespondType ==
    ASSUME answer \in {"none", "selected", "rejected"}, NEW job,
           NEW result \in {"selected", "rejected"}, Respond(job, result)
    PROVE  answer' \in {"none", "selected", "rejected"}
  BY DEF Respond

(* A step of a process keeps the processes.                                *)
LEMMA StepType ==
    ASSUME JobType, NEW job \in jobs, NEW condition,
           NEW next \in {"select", "verify again", "read selection"},
           Step(job, condition, next)
    PROVE  JobType'
  <1>1. job \in Job
    BY DEF JobType
  <1>2. CASE condition
    <2>1. [job EXCEPT !.step = next] \in Job
      BY <1>1, Stepped
    <2> QED
      BY <1>2, <2>1 DEF JobType, Step
  <1>3. CASE ~condition
    BY <1>3, RespondType DEF JobType, Step
  <1> QED
    BY <1>2, <1>3

(* A resolved agent has a plan; otherwise the activation is over.          *)
LEMMA Resolved ==
    ASSUME LocalType, Resolve
    PROVE  plan' \in Plan \/ (plan' = plan /\ phase' = "idle")
  <1>1. [remote |-> FALSE, target |-> Home, connection |-> None] \in Plan
    BY DEF Plan
  <1>2. \A p \in Pane : \A c \in Connection \cup {None} :
            [remote |-> TRUE, target |-> p, connection |-> c] \in Plan
    BY DEF Plan
  <1>3. \A p \in Pane : link[p] \in Connection \cup {None}
    BY DEF LocalType
  <1>4. \/ plan' = [remote |-> FALSE, target |-> Home, connection |-> None]
        \/ \E p \in Pane :
              plan' = [remote |-> TRUE, target |-> p, connection |-> link[p]]
        \/ \E p \in Pane : plan' = [remote |-> TRUE, target |-> p, connection |-> None]
        \/ plan' = plan /\ phase' = "idle"
    BY DEF Resolve, Finish
  <1> QED
    BY <1>1, <1>2, <1>3, <1>4

(* Every step keeps the types.                                             *)
LEMMA TypeStep == IInv /\ [Next]_vars => TypeOK'
  <1> SUFFICES ASSUME IInv, [Next]_vars PROVE TypeOK'
    OBVIOUS
  <1>a. LocalType /\ RemoteType /\ PlanType /\ ReportType /\ JobType /\ HistoryType
    BY TypeParts DEF IInv, Types
  <1>b. SUFFICES Types'
    BY TypeParts, PTL
  <1> USE <1>a DEF Types, local, remote, report, history, activation
  <1>l. UNCHANGED local => LocalType'
    BY DEF LocalType
  <1>r. UNCHANGED remote => RemoteType'
    BY DEF RemoteType
  <1>p. UNCHANGED <<record, captured, plan>> => PlanType'
    BY DEF PlanType
  <1>o. UNCHANGED <<phase, outcome, acknowledged, number>> => ReportType'
    BY DEF ReportType
  <1>j. UNCHANGED <<jobs, answer>> => JobType'
    BY DEF JobType
  <1>h. UNCHANGED <<confirmed, requested>> => HistoryType'
    BY DEF HistoryType
  <1>1. CASE UNCHANGED vars
    BY <1>1, <1>l, <1>r, <1>p, <1>o, <1>j, <1>h DEF vars
  <1>2. CASE Capture
    <2>1. PlanType'
      BY <1>2 DEF Capture, PlanType, LocalType
    <2>2. ReportType'
      <3>1. number' \in 0..MaxFocus
        BY <1>2, FocusAssumption DEF Capture, ReportType
      <3> QED
        BY <1>2, <3>1 DEF Capture, ReportType
    <2> QED
      BY <1>2, <2>1, <2>2, <1>l, <1>r DEF Capture, JobType, HistoryType
  <1>3. CASE Resolve
    <2>1. PlanType'
      <3>1. plan' \in Plan \cup {None}
        BY <1>3, Resolved DEF PlanType
      <3> QED
        BY <1>3, <3>1 DEF Resolve, PlanType
    <2>2. ReportType'
      BY <1>3, GoType, FinishType DEF Resolve
    <2> QED
      BY <1>3, <2>1, <2>2, <1>l, <1>r, <1>j, <1>h DEF Resolve
  <1>4. CASE select
    <2>1. plan \in Plan
      BY <1>4 DEF IInv, InStep, PlanType, select
    <2>2. LocalType'
      BY <1>4, <2>1, Moved DEF select, LocalType, Plan, Place
    <2>3. ReportType'
      BY <1>4, GoType, FinishType DEF select
    <2>4. HistoryType'
      BY <1>4 DEF select, HistoryType
    <2> QED
      BY <1>4, <2>2, <2>3, <2>4, <1>r, <1>p, <1>j DEF select
  <1>5. CASE Verify
    <2>1. ReportType'
      BY <1>5, GoType, FinishType DEF Verify
    <2> QED
      BY <1>5, <2>1, <1>l, <1>r, <1>p, <1>j, <1>h DEF Verify
  <1>6. CASE Request
    <2>1. plan \in Plan /\ plan.connection # None
      BY <1>6 DEF IInv, InStep, PlanType, Request
    <2>2. number \in 1..MaxFocus
      BY <1>6 DEF IInv, InStep, ReportType, Request
    <2>3. [number |-> number, host |-> record.host, client |-> plan.connection,
           step |-> "verify"] \in Job
      BY <2>1, <2>2 DEF Job, Plan, PlanType
    <2>4. JobType'
      BY <1>6, <2>3 DEF Request, JobType
    <2>5. ReportType'
      BY <1>6, GoType DEF Request
    <2>6. HistoryType'
      BY <1>6 DEF Request, HistoryType
    <2> QED
      BY <1>6, <2>4, <2>5, <2>6, <1>l, <1>r, <1>p DEF Request
  <1>7. CASE ControlFails
    BY <1>7, FinishType, <1>l, <1>r, <1>p, <1>j, <1>h DEF ControlFails
  <1>8. CASE ControlSucceeds
    BY <1>8, GoType, <1>l, <1>r, <1>p, <1>j, <1>h DEF ControlSucceeds
  <1>9. CASE Recheck
    <2>1. ReportType'
      BY <1>9, GoType, FinishType DEF Recheck
    <2> QED
      BY <1>9, <2>1, <1>l, <1>r, <1>p, <1>j, <1>h DEF Recheck
  <1>10. CASE Confirm
    BY <1>10, FinishType, <1>l, <1>r, <1>p, <1>j, <1>h DEF Confirm
  <1>11. CASE Navigate
    BY <1>11, Moved, <1>r, <1>p, <1>o, <1>j DEF Navigate, LocalType, HistoryType
  <1>12. CASE Reattach
    BY <1>12, FocusAssumption, <1>r, <1>p, <1>o, <1>j
    DEF Reattach, LocalType, HistoryType, Life
  <1>13. CASE RestartServer
    BY <1>13, FocusAssumption, <1>r, <1>p, <1>o, <1>j
    DEF RestartServer, LocalType, HistoryType, Life, Place
  <1>14. CASE Attach
    BY <1>14, <1>l, <1>p, <1>o, <1>j, <1>h DEF Attach, RemoteType, LocalType
  <1>15. CASE SelectWindow
    <2>1. RemoteType'
      BY Zenon, <1>15 DEF SelectWindow, RemoteType
    <2> QED
      BY <1>15, <2>1, <1>l, <1>p, <1>o, <1>j, <1>h DEF SelectWindow
  <1>16. CASE ReplaceHost
    <2>1. host' \in Life
      BY <1>16, FocusAssumption DEF ReplaceHost, RemoteType, Life
    <2> QED
      BY <1>16, <2>1, <1>l, <1>p, <1>o, <1>j, <1>h DEF ReplaceHost, RemoteType
  <1>17. CASE Observe
    <2>1. PlanType'
      BY <1>17 DEF Observe, PlanType, RemoteType
    <2> QED
      BY <1>17, <2>1, <1>l, <1>r, <1>o, <1>j, <1>h DEF Observe
  <1>18. ASSUME NEW p \in Pane, Relink(p) PROVE Types'
    <2>1. LocalType'
      BY <1>18, FocusAssumption DEF Relink, LocalType, Connection
    <2>2. RemoteType'
      BY <1>18 DEF Relink, RemoteType
    <2> QED
      BY <1>18, <2>1, <2>2, <1>p, <1>o, <1>j, <1>h DEF Relink
  <1>19. ASSUME NEW job \in jobs, verify_target(job) PROVE Types'
    <2>1. JobType'
      BY <1>19, StepType DEF verify_target
    <2> QED
      BY <1>19, <2>1, <1>l, <1>r, <1>p, <1>o, <1>h DEF verify_target
  <1>20. ASSUME NEW job \in jobs, select_remote(job) PROVE Types'
    <2>1. JobType'
      BY <1>20, StepType DEF select_remote
    <2>2. RemoteType'
      BY Zenon, <1>20 DEF select_remote, RemoteType
    <2> QED
      BY <1>20, <2>1, <2>2, <1>l, <1>p, <1>o, <1>h DEF select_remote
  <1>21. ASSUME NEW job \in jobs, Selected(job) PROVE Types'
    <2>1. JobType'
      BY <1>21, RespondType DEF Selected, JobType
    <2>2. HistoryType'
      BY <1>21 DEF Selected, HistoryType
    <2> QED
      BY <1>21, <2>1, <2>2, <1>l, <1>r, <1>p, <1>o DEF Selected
  <1>22. ASSUME NEW job \in jobs, JobLost(job) PROVE Types'
    BY <1>22, <1>l, <1>r, <1>p, <1>o, <1>h DEF JobLost, JobType
  <1> QED
    BY <1>1, <1>2, <1>3, <1>4, <1>5, <1>6, <1>7, <1>8, <1>9, <1>10, <1>11, <1>12,
       <1>13, <1>14, <1>15, <1>16, <1>17, <1>18, <1>19, <1>20, <1>21, <1>22
       DEF Next, Activation, World, Remote

-----------------------------------------------------------------------------
(* Every step keeps connections and the plan made.                         *)
LEMMA InUseStep == IInv /\ [Next]_vars => InUse'
  <1> SUFFICES ASSUME IInv, [Next]_vars PROVE InUse'
    OBVIOUS
  <1>a. LocalType /\ PlanType /\ InUse
    BY TypeParts DEF IInv, Types
  <1> USE DEF local, remote, report, history, activation
  <1>u. UNCHANGED <<link, made, plan>> => InUse'
    BY <1>a DEF InUse
  <1>1. CASE Capture
    BY <1>1, <1>a DEF Capture, InUse
  <1>2. CASE Resolve
    BY <1>2, <1>a, FocusNone DEF Resolve, InUse, PlanType, Plan
  <1>3. CASE RestartServer
    BY <1>3, <1>a DEF RestartServer, InUse
  <1>4. ASSUME NEW p \in Pane, Relink(p) PROVE InUse'
    <2>1. made' >= made /\ made \in Nat /\ made' \in Nat
      BY <1>4, <1>a, FocusAssumption DEF Relink, LocalType
    <2>2. \A q \in Pane : link'[q] # None => link'[q] <= made'
      BY <1>4, <1>a, <2>1 DEF Relink, InUse, LocalType, Connection
    <2>3. plan # None /\ plan.connection # None => plan.connection \in Nat
      BY <1>a DEF PlanType, Plan, Connection
    <2> QED
      BY <1>4, <1>a, <2>1, <2>2, <2>3 DEF Relink, InUse
  <1>5. ASSUME ~Capture, ~Resolve, ~RestartServer, \A p \in Pane : ~Relink(p)
        PROVE  UNCHANGED <<link, made, plan>>
    BY <1>5
    DEF Next, Activation, World, Remote, vars, select, Verify, Request, ControlFails,
        ControlSucceeds, Recheck, Confirm, Navigate, Reattach, Attach, SelectWindow,
        ReplaceHost, Observe, verify_target, select_remote, Selected, JobLost
  <1> QED
    BY <1>u, <1>1, <1>2, <1>3, <1>4, <1>5

(* What the processes of the other machine do to the activation.           *)
LEMMA RespondStep ==
    ASSUME NEW job, NEW result, Respond(job, result)
    PROVE  answer' = answer \/ (phase = "waiting" /\ job.number = number)
  BY DEF Respond

(* Every step keeps what the activation has done in step with its phase.   *)
LEMMA InStepStep == IInv /\ [Next]_vars => InStep'
  <1> SUFFICES ASSUME IInv, [Next]_vars PROVE InStep'
    OBVIOUS
  <1>a. LocalType /\ ReportType /\ InStep /\ InUse /\ AnswersAreTrue
    BY TypeParts DEF IInv, Types
  <1> USE DEF local, remote, report, history, activation, Go, Finish
  <1>u. UNCHANGED <<phase, number, plan, requested, answer, confirmed>> => InStep'
    BY <1>a DEF InStep
  <1>1. CASE Capture
    BY <1>1, <1>a DEF Capture, InStep, ReportType
  <1>2. CASE Resolve
    <2>1. phase' = "idle" \/ (phase' = "switching" /\ plan' # None)
      BY <1>2, <1>a, Resolved, FocusNone DEF Resolve
    <2> QED
      BY <1>2, <1>a, <2>1 DEF Resolve, InStep
  <1>3. CASE select
    BY <1>3, <1>a DEF select, InStep
  <1>4. CASE Verify
    BY <1>4, <1>a DEF Verify, InStep
  <1>5. CASE Request
    BY <1>5, <1>a DEF Request, InStep
  <1>6. CASE ControlFails \/ ControlSucceeds
    BY <1>6, <1>a DEF ControlFails, ControlSucceeds, InStep
  <1>7. CASE Recheck
    BY <1>7, <1>a DEF Recheck, InStep, AnswersAreTrue
  <1>8. CASE Confirm
    BY <1>8, <1>a DEF Confirm, InStep
  <1>9. ASSUME NEW job \in jobs, verify_target(job) \/ select_remote(job) PROVE InStep'
    <2>1. answer' = answer \/ phase = "waiting"
      BY <1>9, RespondStep DEF verify_target, select_remote, Step
    <2>2. UNCHANGED <<phase, number, plan, requested, confirmed>>
      BY <1>9 DEF verify_target, select_remote
    <2> QED
      BY <1>a, <2>1, <2>2 DEF InStep
  <1>10. ASSUME NEW job \in jobs, Selected(job) PROVE InStep'
    <2>1. answer' = answer \/ phase = "waiting"
      BY <1>10, RespondStep DEF Selected
    <2>2. confirmed => confirmed'
      BY Zenon, <1>10 DEF Selected
    <2> QED
      BY <1>10, <1>a, <2>1, <2>2 DEF Selected, InStep
  <1>11. CASE World
    BY <1>11, <1>u
    DEF World, Navigate, Reattach, RestartServer, Attach, SelectWindow, ReplaceHost,
        Observe, Relink
  <1>12. ASSUME NEW job \in jobs, JobLost(job) PROVE InStep'
    BY <1>12, <1>u DEF JobLost
  <1>13. CASE UNCHANGED vars
    BY <1>13, <1>u DEF vars
  <1> QED
    BY <1>1, <1>2, <1>3, <1>4, <1>5, <1>6, <1>7, <1>8, <1>9, <1>10, <1>11, <1>12, <1>13
    DEF Next, Activation, Remote

(* Every step keeps the processes to their own activation.                 *)
LEMMA JobsFitStep == IInv /\ [Next]_vars => JobsFit'
  <1> SUFFICES ASSUME IInv, [Next]_vars PROVE JobsFit'
    OBVIOUS
  <1>a. ReportType /\ JobType /\ PlanType /\ InStep /\ JobsFit
    BY TypeParts DEF IInv, Types
  <1>b. \A job \in jobs : job \in Job /\ job.number \in Nat
    <2>1. \A n \in 1..MaxFocus : n \in Nat
      BY FocusAssumption
    <2>2. \A job \in Job : job.number \in 1..MaxFocus
      BY DEF Job
    <2> QED
      BY <1>a, <2>1, <2>2 DEF JobType
  <1>c. number \in Nat
    BY <1>a DEF ReportType
  <1> USE DEF local, remote, report, history, activation, Go, Finish
  <1>u. ASSUME UNCHANGED <<number, plan, requested>>, jobs' \subseteq jobs
        PROVE  JobsFit'
    BY <1>u, <1>a DEF JobsFit
  <1>1. CASE Capture
    BY <1>1, <1>a, <1>b, <1>c DEF Capture, JobsFit
  <1>2. CASE Resolve
    BY <1>2, <1>a DEF Resolve, InStep, JobsFit
  <1>3. CASE Request
    BY <1>3, <1>a, <1>c DEF Request, InStep, JobsFit
  <1>4. ASSUME NEW job \in jobs, NEW condition,
               NEW next \in {"select", "verify again", "read selection"},
               Step(job, condition, next), UNCHANGED <<number, plan, requested>>
        PROVE  JobsFit'
    <2>1. /\ [job EXCEPT !.step = next].number = job.number
          /\ [job EXCEPT !.step = next].client = job.client
      BY <1>b, Stepped
    <2>2. jobs' \subseteq (jobs \ {job}) \cup {[job EXCEPT !.step = next]}
      BY <1>4 DEF Step
    <2> QED
      BY <1>4, <1>a, <2>1, <2>2 DEF JobsFit
  <1>5. ASSUME NEW job \in jobs, verify_target(job) \/ select_remote(job)
        PROVE  JobsFit'
    BY <1>4, <1>5 DEF verify_target, select_remote
  <1>6. ASSUME NEW job \in jobs, Selected(job) \/ JobLost(job) PROVE JobsFit'
    BY <1>6, <1>u DEF Selected, JobLost
  <1>7. CASE select \/ Verify \/ ControlFails \/ ControlSucceeds \/ Recheck \/ Confirm
    BY <1>7, <1>u DEF select, Verify, ControlFails, ControlSucceeds, Recheck, Confirm
  <1>8. CASE World
    BY <1>8, <1>u
    DEF World, Navigate, Reattach, RestartServer, Attach, SelectWindow, ReplaceHost,
        Observe, Relink
  <1>9. CASE UNCHANGED vars
    BY <1>9, <1>u DEF vars
  <1> QED
    BY <1>1, <1>2, <1>3, <1>5, <1>6, <1>7, <1>8, <1>9 DEF Next, Activation, Remote

(* An answer stays true: a lost connection does not return to its pane.    *)
LEMMA AnswersStep == IInv /\ [Next]_vars => AnswersAreTrue'
  <1> SUFFICES ASSUME IInv, [Next]_vars PROVE AnswersAreTrue'
    OBVIOUS
  <1>a. LocalType /\ PlanType /\ JobType /\ InUse /\ InStep /\ JobsFit /\ AnswersAreTrue
    BY TypeParts DEF IInv, Types
  <1>b. requested =>
            /\ plan # None /\ plan.remote /\ plan.target \in Pane
            /\ plan.connection \in Connection /\ plan.connection <= made
    BY <1>a DEF InStep, InUse, PlanType, Plan
  <1> USE DEF local, remote, report, history, activation, Go, Finish
  <1>u. ASSUME UNCHANGED <<requested, plan, link>>, confirmed => confirmed',
               answer' = answer \/ answer' = "rejected"
        PROVE  AnswersAreTrue'
    BY <1>u, <1>a DEF AnswersAreTrue
  <1>1. CASE Capture
    BY <1>1 DEF Capture, AnswersAreTrue
  <1>2. CASE Resolve
    BY <1>2, <1>a DEF Resolve, AnswersAreTrue, InStep
  <1>3. CASE Request
    BY <1>3, <1>a DEF Request, AnswersAreTrue, InStep
  <1>4. CASE RestartServer
    BY <1>4, <1>a, <1>b, FocusAssumption DEF RestartServer, AnswersAreTrue
  <1>5. ASSUME NEW p \in Pane, Relink(p) PROVE AnswersAreTrue'
    <2>1. requested => \/ link'[plan.target] = link[plan.target]
                       \/ link'[plan.target] = None
                       \/ link'[plan.target] = made + 1
      BY <1>5, <1>a, <1>b DEF Relink, LocalType
    <2>2. requested => plan.connection # None /\ plan.connection # made + 1
      BY <1>a, <1>b, FocusAssumption DEF Connection, LocalType
    <2> QED
      BY <1>5, <1>a, <2>1, <2>2 DEF Relink, AnswersAreTrue
  <1>6. ASSUME NEW job \in jobs, verify_target(job) \/ select_remote(job)
        PROVE  AnswersAreTrue'
    <2>1. answer' = answer \/ answer' = "rejected"
      BY <1>6 DEF verify_target, select_remote, Step, Respond
    <2>2. UNCHANGED <<requested, plan, link, confirmed>>
      BY <1>6 DEF verify_target, select_remote
    <2> QED
      BY <1>u, <2>1, <2>2
  <1>7. ASSUME NEW job \in jobs, Selected(job) PROVE AnswersAreTrue'
    <2>1. confirmed => confirmed'
      BY Zenon, <1>7 DEF Selected
    <2>2. CASE answer' = answer \/ answer' = "rejected"
      BY <1>7, <1>u, <2>1, <2>2 DEF Selected
    <2>3. CASE answer' = "selected" /\ job.number = number /\ selected
      <3>1. requested /\ job.client = plan.connection
        BY <1>a, <2>3 DEF JobsFit
      <3>2. link[plan.target] = plan.connection => confirmed'
        BY <1>7, <1>b, <2>3, <3>1 DEF Selected
      <3> QED
        BY <1>7, <3>1, <3>2 DEF Selected, AnswersAreTrue
    <2> QED
      BY <1>7, <2>2, <2>3 DEF Selected, Respond
  <1>8. ASSUME NEW job \in jobs, JobLost(job) PROVE AnswersAreTrue'
    BY <1>8, <1>u DEF JobLost
  <1>9. CASE select \/ Verify \/ ControlFails \/ ControlSucceeds \/ Recheck \/ Confirm
    BY <1>9, <1>u DEF select, Verify, ControlFails, ControlSucceeds, Recheck, Confirm
  <1>10. CASE Navigate \/ Reattach \/ Attach \/ SelectWindow \/ ReplaceHost \/ Observe
    BY <1>10, <1>u DEF Navigate, Reattach, Attach, SelectWindow, ReplaceHost, Observe
  <1>11. CASE UNCHANGED vars
    BY <1>11, <1>u DEF vars
  <1> QED
    BY <1>1, <1>2, <1>3, <1>4, <1>5, <1>6, <1>7, <1>8, <1>9, <1>10, <1>11
    DEF Next, Activation, World, Remote

-----------------------------------------------------------------------------
(* The invariant holds at first.                                           *)
LEMMA InitIInv == Init => IInv
  <1> SUFFICES ASSUME Init PROVE IInv
    OBVIOUS
  <1> USE DEF Init
  <1>1. 0 \in Life /\ Elsewhere \in Place /\ 0 \in 0..MaxConn /\ 0 \in 0..MaxFocus
    BY FocusAssumption DEF Life, Place
  <1>2. LocalType
    BY <1>1 DEF LocalType
  <1>3. RemoteType
    BY <1>1 DEF RemoteType
  <1>4. PlanType
    BY <1>1 DEF PlanType
  <1>5. ReportType
    BY <1>1 DEF ReportType
  <1> QED
    BY <1>2, <1>3, <1>4, <1>5, TypeParts
    DEF Types, JobType, HistoryType, IInv, InUse, InStep, JobsFit, AnswersAreTrue

(* In every state of an activation the answer it has is one that its       *)
(* connection was confirmed for, unless the pane has lost that connection  *)
(* for good.                                                               *)
THEOREM FocusInvariance == Spec => []IInv
  <1>1. IInv /\ [Next]_vars => IInv'
    BY TypeStep, InUseStep, InStepStep, JobsFitStep, AnswersStep DEF IInv
  <1> QED
    BY <1>1, InitIInv, PTL DEF Spec

(* The variables of an activation keep their types (src/focus.rs).         *)
THEOREM FocusTypeCorrect == Spec => []TypeOK
  BY FocusInvariance, PTL DEF IInv

(* A focus that is called exact was confirmed by the remote machine while  *)
(* the pane carried the connection, whatever happened during the exchange. *)
THEOREM ReportsTrue == Spec => ReportsAreTrue
  <1> DEFINE True ==
        outcome' # outcome =>
            /\ outcome' = "exact" =>
                  /\ client'.id = captured.client /\ client'.at = plan.target
                  /\ plan.remote => confirmed
            /\ acknowledged' /\ requested => confirmed
  <1>1. IInv /\ [Next]_vars => True
    <2> SUFFICES ASSUME IInv, [Next]_vars, outcome' # outcome PROVE True
      OBVIOUS
    <2>a. InStep
      BY DEF IInv
    <2>b. Verified => client.id = captured.client /\ client.at = plan.target
      BY DEF Verified, Captured
    <2> USE DEF local, remote, report, history, activation, Go, Finish
    <2>1. CASE Capture
      BY <2>1 DEF Capture
    <2>2. CASE Resolve
      BY <2>2, <2>a DEF Resolve, InStep
    <2>3. CASE select
      BY <2>3, <2>a DEF select, InStep
    <2>4. CASE Verify
      BY <2>4, <2>a, <2>b DEF Verify, InStep
    <2>5. CASE ControlFails \/ Recheck
      BY <2>5 DEF ControlFails, Recheck
    <2>6. CASE Confirm
      BY <2>6, <2>a, <2>b DEF Confirm, InStep
    <2> QED
      BY <2>1, <2>2, <2>3, <2>4, <2>5, <2>6
      DEF Next, Activation, World, Remote, vars, Request, ControlSucceeds, Navigate,
          Reattach, RestartServer, Attach, SelectWindow, ReplaceHost, Observe, Relink,
          verify_target, select_remote, Selected, JobLost
  <1>2. IInv /\ [Next]_vars => [True]_vars
    BY <1>1
  <1> QED
    BY <1>2, FocusInvariance, PTL DEF Spec, ReportsAreTrue

-----------------------------------------------------------------------------
(***************************************************************************)
(* Sidebar, for any agents, lists, queries and bounds.                     *)
(***************************************************************************)

(* A set of numbers that holds 0 and with each its successor holds all.    *)
LEMMA SetInduction ==
    ASSUME NEW T, 0 \in T, \A n \in Nat : n \in T => n + 1 \in T
    PROVE  Nat \subseteq T
<1> SUFFICES ASSUME Nat \ T # {} PROVE FALSE
  OBVIOUS
<1> DEFINE R == OpToRel(<, Nat)
<1>1. PICK m \in Nat \ T : \A k \in Nat \ T : ~(<<k, m>> \in R)
  <2>1. IsWellFoundedOn(R, Nat)
    BY NatLessThanWellFounded
  <2> HIDE DEF R
  <2> QED
    BY <2>1, WFMin
<1>2. m - 1 \in Nat /\ m - 1 < m
  BY m # 0
<1>3. <<m - 1, m>> \in R
  BY <1>2 DEF OpToRel
<1>4. m - 1 \in T
  BY <1>1, <1>2, <1>3
<1> QED
  BY <1>2, <1>4

(* rows is what visible_indices makes of longer and longer beginnings.     *)
SelectsRows(rows, agents, matching, m) ==
    rows = [n \in 0..m |->
               IF n = 0 THEN <<>>
               ELSE IF agents[n] \in matching
                    THEN Append(rows[n - 1], agents[n])
               ELSE rows[n - 1]]

(* The recursion defines it.                                               *)
LEMMA RowsExist ==
    ASSUME NEW A, NEW agents \in Seq(A), NEW matching
    PROVE  \A m \in Nat : \E rows : SelectsRows(rows, agents, matching, m)
<1> DEFINE T == {m \in Nat : \E rows : SelectsRows(rows, agents, matching, m)}
<1>1. 0 \in T
  <2> DEFINE rows == [n \in 0..0 |-> <<>>]
  <2>1. SelectsRows(rows, agents, matching, 0)
    BY DEF SelectsRows
  <2> QED
    BY <2>1
<1>2. ASSUME NEW m \in Nat, m \in T PROVE m + 1 \in T
  <2>1. PICK f : SelectsRows(f, agents, matching, m)
    BY <1>2
  <2> DEFINE g == [n \in 0..(m + 1) |->
                      IF n <= m THEN f[n]
                      ELSE IF agents[n] \in matching
                           THEN Append(f[n - 1], agents[n])
                      ELSE f[n - 1]]
  <2>2. \A n \in 0..m : g[n] = f[n]
    OBVIOUS
  <2>3. ASSUME NEW n \in 0..(m + 1)
        PROVE  g[n] = IF n = 0 THEN <<>>
                      ELSE IF agents[n] \in matching
                           THEN Append(g[n - 1], agents[n])
                      ELSE g[n - 1]
    <3>1. CASE n <= m
      <4>1. n \in 0..m
        BY <3>1
      <4>2. f[n] = IF n = 0 THEN <<>>
                   ELSE IF agents[n] \in matching
                        THEN Append(f[n - 1], agents[n])
                   ELSE f[n - 1]
        BY <2>1, <4>1 DEF SelectsRows
      <4>3. n # 0 => n - 1 \in 0..m
        BY <4>1
      <4>4. g[n] = f[n] /\ (n # 0 => g[n - 1] = f[n - 1])
        BY <2>2, <4>1, <4>3
      <4> HIDE DEF g
      <4> QED
        BY <4>2, <4>4
    <3>2. CASE n = m + 1
      <4>1. n # 0 /\ ~(n <= m) /\ n - 1 \in 0..m
        BY <3>2
      <4>2. g[n - 1] = f[n - 1]
        BY <2>2, <4>1
      <4> QED
        BY <4>1, <4>2
    <3> QED
      BY <3>1, <3>2
  <2>4. SelectsRows(g, agents, matching, m + 1)
    BY <2>3 DEF SelectsRows
  <2> QED
    BY <2>4
<1> HIDE DEF T
<1>3. Nat \subseteq T
  BY <1>1, <1>2, SetInduction
<1> QED
  BY <1>3 DEF T

(* What visible_indices returns: agents that match, and all of them.       *)
LEMMA VisibleIndices ==
    ASSUME NEW A, NEW agents \in Seq(A), NEW matching
    PROVE  /\ visible_indices(agents, matching) \in Seq(A \cap matching)
           /\ \A i \in 1..Len(agents) : agents[i] \in matching =>
                 Contains(visible_indices(agents, matching), agents[i])
<1> DEFINE rows == CHOOSE f : SelectsRows(f, agents, matching, Len(agents))
<1>1. visible_indices(agents, matching) = rows[Len(agents)]
  BY DEF visible_indices, SelectsRows
<1>2. SelectsRows(rows, agents, matching, Len(agents))
  <2>1. \E f : SelectsRows(f, agents, matching, Len(agents))
    <3>1. Len(agents) \in Nat
      OBVIOUS
    <3> HIDE DEF rows
    <3> QED
      BY <3>1, RowsExist
  <2> QED
    BY <2>1
<1> HIDE DEF rows
<1> DEFINE Good(n) ==
        /\ rows[n] \in Seq(A \cap matching)
        /\ \A i \in 1..n : agents[i] \in matching =>
              \E j \in 1..Len(rows[n]) : rows[n][j] = agents[i]
           T == {n \in Nat : n <= Len(agents) => Good(n)}
<1>3. 0 \in T
  <2>1. rows[0] = <<>>
    BY <1>2 DEF SelectsRows
  <2>2. Good(0)
    BY <2>1
  <2> QED
    BY <2>2
<1>4. ASSUME NEW n \in Nat, n \in T PROVE n + 1 \in T
  <2> SUFFICES ASSUME n + 1 <= Len(agents) PROVE Good(n + 1)
    OBVIOUS
  <2>1. Good(n) /\ n + 1 \in 1..Len(agents) /\ agents[n + 1] \in A
    BY <1>4
  <2>2. rows[n + 1] = IF agents[n + 1] \in matching
                      THEN Append(rows[n], agents[n + 1])
                      ELSE rows[n]
    <3>1. n + 1 \in 0..Len(agents) /\ n + 1 # 0 /\ (n + 1) - 1 = n
      BY <2>1
    <3> QED
      BY <1>2, <3>1 DEF SelectsRows
  <2>3. CASE agents[n + 1] \in matching
    <3>1. /\ rows[n + 1] = Append(rows[n], agents[n + 1])
          /\ rows[n + 1] \in Seq(A \cap matching)
          /\ Len(rows[n + 1]) = Len(rows[n]) + 1
          /\ Len(rows[n]) \in Nat
      BY <2>1, <2>2, <2>3
    <3>2. /\ rows[n + 1][Len(rows[n]) + 1] = agents[n + 1]
          /\ \A j \in 1..Len(rows[n]) : rows[n + 1][j] = rows[n][j]
      BY <2>1, <3>1
    <3>3. ASSUME NEW i \in 1..(n + 1), agents[i] \in matching
          PROVE  \E j \in 1..Len(rows[n + 1]) : rows[n + 1][j] = agents[i]
      <4>1. CASE i = n + 1
        BY <3>1, <3>2, <4>1
      <4>2. CASE i # n + 1
        <5>1. PICK j \in 1..Len(rows[n]) : rows[n][j] = agents[i]
          <6>1. i \in 1..n
            BY <4>2
          <6>2. \A k \in 1..n : agents[k] \in matching =>
                   \E j \in 1..Len(rows[n]) : rows[n][j] = agents[k]
            BY <2>1
          <6> HIDE DEF Good
          <6> QED
            BY <3>3, <6>1, <6>2, Zenon
        <5> QED
          BY <3>1, <3>2, <5>1
      <4> QED
        BY <4>1, <4>2
    <3> QED
      BY <3>1, <3>3
  <2>4. CASE agents[n + 1] \notin matching
    BY <2>1, <2>2, <2>4
  <2> QED
    BY <2>3, <2>4
<1> HIDE DEF T
<1>5. Nat \subseteq T
  BY <1>3, <1>4, SetInduction
<1>6. Good(Len(agents))
  <2>1. Len(agents) \in Nat
    OBVIOUS
  <2>2. Len(agents) \in T
    BY <1>5, <2>1
  <2> QED
    BY <2>2 DEF T
<1> QED
  BY <1>1, <1>6 DEF Contains

-----------------------------------------------------------------------------
(* What is drawn is current unless a frame is due; its keys always are     *)
(* those that numbers stand for.                                           *)
Drawn ==
    /\ rendered_shortcuts = screen.keys
    /\ visible /\ ~dirty =>
          screen = Picture(list, query, searching, selected_id)

(* Once every key of a broadcast has been read, what it stored is still    *)
(* waited for, or was selected.                                            *)
Shared ==
    option # None /\ wakes = 0 /\ (\A task \in tasks : task.step # "wake") =>
        \/ pending_shared_selection = option
        \/ /\ pending_shared_selection = None
           /\ moved \/ selected_id = option

SidebarInv == SidebarTypeOK /\ Drawn /\ Shared

(* The operators keep their types.                                         *)
LEMMA Reconciled ==
    ASSUME NEW agents \in Seq(Agent), NEW matching \in SUBSET Agent,
           NEW id \in Agent \cup {None}, NEW position \in Nat \ {0}
    PROVE  LET choice == reconcile_selection(agents, matching, id, position)
           IN  /\ choice.id \in Agent \cup {None}
               /\ choice.position \in Nat \ {0}
               /\ id \in matching /\ Contains(agents, id) => choice.id = id
<1> DEFINE rows == visible_indices(agents, matching)
           place == Smaller(position, Len(rows))
           choice == reconcile_selection(agents, matching, id, position)
           Fits == /\ choice.id \in Agent \cup {None}
                   /\ choice.position \in Nat \ {0}
                   /\ id \in matching /\ Contains(agents, id) => choice.id = id
<1>1. /\ rows \in Seq(Agent)
      /\ \A i \in 1..Len(agents) : agents[i] \in matching =>
            Contains(rows, agents[i])
  <2>1. /\ rows \in Seq(Agent \cap matching)
        /\ \A i \in 1..Len(agents) : agents[i] \in matching =>
              Contains(rows, agents[i])
    BY VisibleIndices
  <2> HIDE DEF rows
  <2> QED
    BY <2>1
<1>2. choice = IF rows = <<>> THEN [id |-> id, position |-> position]
               ELSE IF Contains(rows, id)
                    THEN [id |-> id,
                          position |-> CHOOSE i \in DOMAIN rows : rows[i] = id]
                    ELSE [id |-> rows[place], position |-> place]
  BY DEF reconcile_selection
<1> HIDE DEF rows, place, choice
<1>3. ASSUME rows = <<>> PROVE Fits
  <2>1. ~(id \in matching /\ Contains(agents, id)) \/ choice.id = id
    BY <1>2, <1>3
  <2> QED
    BY <1>2, <1>3, <2>1
<1>4. ASSUME rows # <<>>, Contains(rows, id) PROVE Fits
  <2>1. PICK i \in DOMAIN rows : rows[i] = id
    BY <1>1, <1>4 DEF Contains
  <2>2. (CHOOSE j \in DOMAIN rows : rows[j] = id) \in DOMAIN rows
    BY <2>1
  <2>3. DOMAIN rows \subseteq Nat \ {0}
    BY <1>1
  <2> QED
    BY <1>2, <1>4, <2>2, <2>3
<1>5. ASSUME rows # <<>>, ~Contains(rows, id) PROVE Fits
  <2>1. place \in 1..Len(rows)
    BY <1>1, <1>5 DEF place, Smaller
  <2>2. rows[place] \in Agent /\ place \in Nat \ {0}
    BY <1>1, <2>1
  <2>3. ~(id \in matching /\ Contains(agents, id))
    BY <1>1, <1>5 DEF Contains
  <2> QED
    BY <1>2, <1>5, <2>2, <2>3
<1> QED
  BY <1>3, <1>4, <1>5 DEF choice

(* The keys drawn are those of sessions.                                   *)
LEMMA KeysOfSessions ==
    ASSUME NEW agents \in Seq(Agent), NEW matching \in SUBSET Agent,
           NEW search \in BOOLEAN
    PROVE  from_list(agents, matching, search) \in Seq(Agent \ Child)
<1>1. CASE search
  BY <1>1 DEF from_list
<1>2. CASE ~search
  <2> DEFINE sessions == visible_indices(agents, matching \ Child)
  <2>1. sessions \in Seq(Agent \cap (matching \ Child))
    BY VisibleIndices
  <2>2. sessions \in Seq(Agent \ Child)
    BY <2>1
  <2>3. from_list(agents, matching, search)
           = SubSeq(sessions, 1, Smaller(Keys, Len(sessions)))
    BY <1>2 DEF from_list
  <2> HIDE DEF sessions
  <2>4. /\ Smaller(Keys, Len(sessions)) \in Nat
        /\ Smaller(Keys, Len(sessions)) <= Len(sessions)
    BY <2>2, SidebarAssumption DEF Smaller
  <2> QED
    BY <2>2, <2>3, <2>4
<1> QED
  BY <1>1, <1>2

(* Selecting what reconcile_selection finds keeps the selection's type.    *)
LEMMA SelectedType ==
    ASSUME NEW agents \in Lists, NEW matching \in SUBSET Agent,
           NEW id \in Agent \cup {None}, NEW position \in Nat \ {0},
           Select(reconcile_selection(agents, matching, id, position))
    PROVE  /\ selected_id' \in Agent \cup {None}
           /\ selected_position' \in Nat \ {0}
           /\ id \in matching /\ Contains(agents, id) => selected_id' = id
  BY Reconciled, SidebarAssumption DEF Select

(* The first frame is current.                                             *)
LEMMA SidebarInvInit ==
    ASSUME SidebarInit PROVE SidebarInv
<1> DEFINE first == reconcile_selection(list, Agent, None, 1)
<1>1. list \in Seq(Agent) /\ Agent \in SUBSET Agent
  BY SidebarAssumption DEF SidebarInit
<1>2. first.id \in Agent \cup {None} /\ first.position \in Nat \ {0}
  BY <1>1, Reconciled
<1>3. rendered_shortcuts \in Seq(Agent \ Child)
  BY <1>1, KeysOfSessions DEF SidebarInit
<1>4. /\ selected_id = first.id /\ selected_position = first.position
      /\ screen = Picture(list, Agent, FALSE, first.id)
  BY DEF SidebarInit
<1> HIDE DEF first
<1>5. /\ searching \in BOOLEAN /\ visible \in BOOLEAN /\ dirty \in BOOLEAN
      /\ hidden_once \in BOOLEAN /\ moved \in BOOLEAN
  BY Zenon DEF SidebarInit
<1>6. SidebarTypeOK
  <2>1. /\ list \in Lists /\ query = Agent /\ pending_shared_selection = None
        /\ option = None /\ tasks = {} /\ wakes = 0
    BY DEF SidebarInit
  <2> QED
    BY <1>2, <1>3, <1>4, <1>5, <2>1, SidebarAssumption DEF SidebarTypeOK
<1>7. Drawn
  <2>1. screen = Picture(list, query, searching, selected_id)
    BY <1>4, Zenon DEF SidebarInit
  <2>2. screen.keys = from_list(list, Agent, FALSE)
    BY <1>4 DEF Picture
  <2>3. rendered_shortcuts = screen.keys
    BY <2>2, Zenon DEF SidebarInit
  <2> QED
    BY <2>1, <2>3 DEF Drawn
<1>8. Shared
  BY DEF SidebarInit, Shared
<1> QED
  BY <1>6, <1>7, <1>8 DEF SidebarInv

(* A change of the selection, from outside a broadcast.                    *)
LEMMA MovedStep ==
    ASSUME SidebarInv, Move, UNCHANGED <<option, wakes, pending_shared_selection>>,
           tasks \subseteq tasks' \/ tasks' = tasks
    PROVE  Shared' /\ moved' \in BOOLEAN
<1>1. moved \in BOOLEAN
  BY DEF SidebarInv, SidebarTypeOK
<1>2. moved' = (moved \/ selected_id' # selected_id)
  BY DEF Move
<1>3. moved' \in BOOLEAN
  BY <1>1, <1>2, Zenon
<1>4. moved \/ selected_id = option => moved' \/ selected_id' = option
  BY <1>2
<1> QED
  BY <1>3, <1>4 DEF SidebarInv, Shared

(* A key that changes the search or the selection asks for a frame.        *)
LEMMA KeyStep ==
    ASSUME SidebarInv,
           NEW matching \in SUBSET Agent, NEW search \in BOOLEAN,
           NEW id \in Agent \cup {None}, NEW position \in Nat \ {0},
           Type(matching, search, id, position),
           UNCHANGED tasks
    PROVE  SidebarInv'
<1>1. /\ selected_id' \in Agent \cup {None}
      /\ selected_position' \in Nat \ {0}
  BY SelectedType DEF Type, SidebarInv, SidebarTypeOK
<1>2. Shared' /\ moved' \in BOOLEAN
  BY MovedStep DEF Type, others
<1>3. \/ view_changed
      \/ UNCHANGED schedule /\ UNCHANGED selection
  BY DEF Type
<1>4. dirty' \in BOOLEAN /\ UNCHANGED <<visible, hidden_once>>
  <2>1. CASE view_changed
    BY <2>1, Zenon DEF view_changed
  <2>2. CASE UNCHANGED schedule
    BY <2>2 DEF schedule, SidebarInv, SidebarTypeOK
  <2> QED
    BY <1>3, <2>1, <2>2
<1>5. SidebarTypeOK'
  BY <1>1, <1>2, <1>4
     DEF Type, drawn, others, SidebarInv, SidebarTypeOK
<1>6. Drawn'
  <2>1. CASE view_changed
    BY <2>1 DEF view_changed, Type, drawn, SidebarInv, Drawn
  <2>2. CASE UNCHANGED schedule /\ UNCHANGED selection
    BY <2>2 DEF schedule, selection, Type, drawn, SidebarInv, Drawn
  <2> QED
    BY <1>3, <2>1, <2>2
<1> QED
  BY <1>2, <1>5, <1>6 DEF SidebarInv

(* So does an activation.                                                  *)
LEMMA ActivatedStep ==
    ASSUME SidebarInv, NEW id \in Agent,
           Activated(id), tasks' \subseteq Task, tasks \subseteq tasks'
    PROVE  SidebarInv'
<1>1. /\ list' \in Lists /\ searching' \in BOOLEAN /\ query' \in SUBSET Agent
      /\ selected_id' \in Agent \cup {None}
      /\ selected_position' \in Nat \ {0}
  <2>1. CASE /\ list' \in Lists
             /\ searching' = FALSE
             /\ query' = Agent
             /\ Select(reconcile_selection(list', Agent, id,
                                              selected_position))
    <3>1. selected_position \in Nat \ {0} /\ Agent \in SUBSET Agent
      BY DEF SidebarInv, SidebarTypeOK
    <3>2. /\ selected_id' \in Agent \cup {None}
          /\ selected_position' \in Nat \ {0}
      BY <2>1, <3>1, SelectedType
    <3> QED
      BY <2>1, <3>1, <3>2
  <2>2. CASE /\ selected_id' = id
             /\ UNCHANGED <<list, searching, query, selected_position>>
    BY <2>2 DEF SidebarInv, SidebarTypeOK
  <2> QED
    BY <2>1, <2>2 DEF Activated
<1>2. Shared' /\ moved' \in BOOLEAN
  BY MovedStep DEF Activated
<1>3. dirty' /\ dirty' \in BOOLEAN /\ UNCHANGED <<visible, hidden_once>>
  BY Zenon DEF Activated, view_changed
<1>4. SidebarTypeOK'
  BY <1>1, <1>2, <1>3 DEF Activated, drawn, SidebarInv, SidebarTypeOK
<1>5. Drawn'
  BY <1>3 DEF Activated, drawn, SidebarInv, Drawn
<1> QED
  BY <1>2, <1>4, <1>5 DEF SidebarInv

(* Every step keeps the sidebar's invariant.                               *)
LEMMA SidebarInvStep ==
    ASSUME SidebarInv, [SidebarNext]_sidebarVars
    PROVE  SidebarInv'
<1> USE DEF SidebarInv
<1>1. CASE SyncSharedSelection
  <2>1. wakes' \in 0..MaxWake
    BY <1>1, SidebarAssumption DEF SyncSharedSelection, SidebarTypeOK
  <2>2. pending_shared_selection' \in Agent \cup {None}
    BY <1>1 DEF SyncSharedSelection, SidebarTypeOK
  <2>3. SidebarTypeOK'
    BY <1>1, <2>1, <2>2
       DEF SyncSharedSelection, selection, schedule, drawn, SidebarTypeOK
  <2>4. Drawn'
    BY <1>1 DEF SyncSharedSelection, selection, schedule, drawn, Drawn
  <2>5. Shared'
    BY <1>1 DEF SyncSharedSelection, Shared
  <2> QED
    BY <2>3, <2>4, <2>5
<1>2. CASE apply_pending_shared_selection
  <2>1. /\ pending_shared_selection \in Agent
        /\ Contains(list, pending_shared_selection)
        /\ list \in Lists
    BY <1>2 DEF apply_pending_shared_selection, Arrived, SidebarTypeOK
  <2>2. /\ selected_id' = pending_shared_selection
        /\ selected_position' \in Nat \ {0}
    BY <1>2, <2>1, SelectedType DEF apply_pending_shared_selection
  <2>3. /\ query' = Agent /\ searching' \in BOOLEAN /\ moved' \in BOOLEAN
    BY <1>2, Zenon DEF apply_pending_shared_selection
  <2>4. \/ dirty' /\ dirty' \in BOOLEAN /\ hidden_once' \in BOOLEAN /\ UNCHANGED visible
        \/ UNCHANGED schedule /\ UNCHANGED selection
    BY <1>2, Zenon DEF apply_pending_shared_selection
  <2>5. /\ dirty' \in BOOLEAN /\ hidden_once' \in BOOLEAN /\ visible' \in BOOLEAN
    BY <2>4 DEF schedule, SidebarTypeOK
  <2>6. SidebarTypeOK'
    BY <1>2, <2>1, <2>2, <2>3, <2>5
       DEF apply_pending_shared_selection, drawn, others, SidebarTypeOK
  <2>7. Drawn'
    BY <1>2, <2>4
       DEF apply_pending_shared_selection, schedule, selection, drawn, Drawn
  <2>8. Shared'
    BY <1>2, <2>1, <2>2, SidebarAssumption
       DEF apply_pending_shared_selection, others, Shared
  <2> QED
    BY <2>6, <2>7, <2>8
<1>3. CASE Draw
  <2>1. /\ selected_id' \in Agent \cup {None}
        /\ selected_position' \in Nat \ {0}
    BY <1>3, SelectedType DEF Draw, Reconcile, SidebarTypeOK
  <2>2. Shared' /\ moved' \in BOOLEAN
    BY <1>3, MovedStep DEF Draw, others
  <2>3. rendered_shortcuts' \in Seq(Agent \ Child)
    BY <1>3, KeysOfSessions, SidebarAssumption DEF Draw, SidebarTypeOK
  <2>4. dirty' \in BOOLEAN /\ hidden_once' \in BOOLEAN
    BY <1>3, Zenon DEF Draw
  <2>5. SidebarTypeOK'
    BY <1>3, <2>1, <2>2, <2>3, <2>4 DEF Draw, others, SidebarTypeOK
  <2>6. Drawn'
    BY <1>3 DEF Draw, Picture, Drawn
  <2> QED
    BY <2>2, <2>5, <2>6
<1>4. CASE apply_daemon_refresh
  <2>1. /\ selected_id' \in Agent \cup {None}
        /\ selected_position' \in Nat \ {0}
    BY <1>4, SelectedType DEF apply_daemon_refresh, Reconcile, SidebarTypeOK
  <2>2. Shared' /\ moved' \in BOOLEAN
    BY <1>4, MovedStep DEF apply_daemon_refresh, others
  <2>3. dirty' /\ dirty' \in BOOLEAN /\ UNCHANGED <<visible, hidden_once>>
    BY <1>4, Zenon DEF apply_daemon_refresh, view_changed
  <2>4. SidebarTypeOK'
    BY <1>4, <2>1, <2>2, <2>3
       DEF apply_daemon_refresh, drawn, others, SidebarTypeOK
  <2>5. Drawn'
    BY <1>4, <2>3 DEF apply_daemon_refresh, drawn, Drawn
  <2> QED
    BY <2>2, <2>4, <2>5
<1>5. CASE visibility_checked
  <2>1. visible' \in BOOLEAN /\ dirty' \in BOOLEAN
    BY <1>5, Zenon DEF visibility_checked
  <2>2. SidebarTypeOK'
    BY <1>5, <2>1
       DEF visibility_checked, selection, drawn, others, SidebarTypeOK
  <2>3. visible' => dirty'
    BY <1>5 DEF visibility_checked
  <2>4. Drawn'
    BY <1>5, <2>3 DEF visibility_checked, drawn, Drawn
  <2>5. Shared'
    BY <1>5 DEF visibility_checked, selection, others, Shared
  <2> QED
    BY <2>2, <2>4, <2>5
<1>6. CASE Search
  <2>1. /\ query \in SUBSET Agent /\ Agent \in SUBSET Agent
        /\ Queries \subseteq SUBSET Agent
        /\ selected_id \in Agent \cup {None} /\ selected_position \in Nat \ {0}
        /\ TRUE \in BOOLEAN /\ FALSE \in BOOLEAN
    BY SidebarAssumption DEF SidebarTypeOK
  <2>2. \E matching \in SUBSET Agent, search \in BOOLEAN :
           Type(matching, search, selected_id, selected_position)
    BY <1>6, <2>1 DEF Search
  <2>3. UNCHANGED tasks
    BY <2>2 DEF Type, others
  <2> QED
    BY <2>1, <2>2, <2>3, KeyStep
<1>7. CASE NavigateList
  <2>1. query \in SUBSET Agent /\ searching \in BOOLEAN /\ list \in Seq(Agent)
    BY SidebarAssumption DEF SidebarTypeOK
  <2>2. PICK i \in DOMAIN visible_indices(list, query) :
           Type(query, searching, visible_indices(list, query)[i], i)
    BY <1>7 DEF NavigateList
  <2>3. /\ visible_indices(list, query)[i] \in Agent
        /\ i \in Nat \ {0}
    <3> DEFINE rows == visible_indices(list, query)
    <3>1. rows \in Seq(Agent \cap query) /\ i \in DOMAIN rows
      BY <2>1, <2>2, VisibleIndices
    <3> HIDE DEF rows
    <3>2. rows[i] \in Agent /\ i \in Nat \ {0}
      BY <3>1
    <3> QED
      BY <3>2 DEF rows
  <2>4. UNCHANGED tasks
    BY <2>2 DEF Type, others
  <2> QED
    BY <2>1, <2>2, <2>3, <2>4, KeyStep
<1>8. CASE Enter
  <2>1. query \in SUBSET Agent /\ list \in Seq(Agent) /\ tasks \subseteq Task
    BY SidebarAssumption DEF SidebarTypeOK
  <2>2. selected_id \in Agent
    <3> DEFINE rows == visible_indices(list, query)
    <3>1. rows \in Seq(Agent \cap query)
      BY <2>1, VisibleIndices
    <3>2. Contains(rows, selected_id)
      BY <1>8 DEF Enter
    <3> HIDE DEF rows
    <3> QED
      BY <3>1, <3>2 DEF Contains
  <2> QED
    BY <1>8, <2>1, <2>2, ActivatedStep DEF Enter
<1>9. CASE Click
  <2>1. query \in SUBSET Agent /\ list \in Seq(Agent) /\ tasks \subseteq Task
    BY SidebarAssumption DEF SidebarTypeOK
  <2>2. PICK i \in DOMAIN visible_indices(list, query) :
           Activated(visible_indices(list, query)[i])
    BY <1>9 DEF Click
  <2>3. visible_indices(list, query)[i] \in Agent
    <3> DEFINE rows == visible_indices(list, query)
    <3>1. rows \in Seq(Agent \cap query) /\ i \in DOMAIN rows
      BY <2>1, <2>2, VisibleIndices
    <3> HIDE DEF rows
    <3>2. rows[i] \in Agent
      BY <3>1
    <3> QED
      BY <3>2 DEF rows
  <2> QED
    BY <1>9, <2>1, <2>2, <2>3, ActivatedStep DEF Click
<1>10. CASE Sibling
  <2>1. \A id \in Agent : [agent |-> id, step |-> "set"] \in Task
    BY DEF Task
  <2>2. tasks' \subseteq Task /\ tasks \subseteq tasks'
    BY <1>10, <2>1 DEF Sibling, SidebarTypeOK
  <2>3. SidebarTypeOK'
    BY <1>10, <2>2 DEF Sibling, selection, schedule, drawn, SidebarTypeOK
  <2>4. Drawn'
    BY <1>10 DEF Sibling, selection, schedule, drawn, Drawn
  <2>5. Shared'
    BY <1>10, <2>2 DEF Sibling, selection, Shared
  <2> QED
    BY <2>3, <2>4, <2>5
<1>11. ASSUME NEW slot \in 1..Keys, ActivateShortcut(slot) PROVE SidebarInv'
  <2> DEFINE id == rendered_shortcuts[slot]
  <2>1. id \in Agent
    BY <1>11 DEF ActivateShortcut, SidebarTypeOK
  <2>2. /\ Activated(id)
        /\ tasks' = tasks \cup {[agent |-> id, step |-> "set"]}
    BY <1>11 DEF ActivateShortcut
  <2> HIDE DEF id
  <2>3. tasks' \subseteq Task /\ tasks \subseteq tasks'
    BY <2>1, <2>2 DEF Task, SidebarTypeOK
  <2> QED
    BY <2>1, <2>2, <2>3, ActivatedStep
<1>12. ASSUME NEW task \in tasks, broadcast_ui_selection(task)
       PROVE  SidebarInv'
  <2>1. task \in Task /\ wakes \in 0..MaxWake /\ MaxWake \in Nat
    BY SidebarAssumption DEF SidebarTypeOK
  <2>2. CASE /\ task.step = "set"
             /\ tasks' = (tasks \ {task}) \cup {[task EXCEPT !.step = "wake"]}
             /\ option' = task.agent
             /\ UNCHANGED wakes
    <3>1. /\ tasks' \subseteq Task /\ option' \in Agent
          /\ \E other \in tasks' : other.step = "wake"
      <4> DEFINE other == [task EXCEPT !.step = "wake"]
      <4>1. other \in Task /\ other.step = "wake" /\ task.agent \in Agent
        BY <2>1 DEF Task
      <4> HIDE DEF other
      <4>2. tasks' = (tasks \ {task}) \cup {other} /\ tasks \subseteq Task
        BY <2>2 DEF other, SidebarTypeOK
      <4> QED
        BY <2>2, <4>1, <4>2
    <3>2. SidebarTypeOK'
      BY <1>12, <2>2, <3>1
         DEF broadcast_ui_selection, selection, schedule, drawn, SidebarTypeOK
    <3>3. Shared'
      BY <3>1 DEF Shared
    <3>4. Drawn'
      BY <1>12 DEF broadcast_ui_selection, selection, schedule, drawn, Drawn
    <3> QED
      BY <3>2, <3>3, <3>4
  <2>3. CASE /\ task.step = "wake" /\ wakes < MaxWake
             /\ tasks' = tasks \ {task}
             /\ wakes' = wakes + 1
             /\ UNCHANGED option
    <3>1. wakes' \in 0..MaxWake /\ wakes' # 0
      BY <2>1, <2>3
    <3>2. SidebarTypeOK'
      BY <1>12, <2>3, <3>1
         DEF broadcast_ui_selection, selection, schedule, drawn, SidebarTypeOK
    <3>3. Shared'
      BY <3>1 DEF Shared
    <3>4. Drawn'
      BY <1>12 DEF broadcast_ui_selection, selection, schedule, drawn, Drawn
    <3> QED
      BY <3>2, <3>3, <3>4
  <2> QED
    BY <1>12, <2>2, <2>3 DEF broadcast_ui_selection
<1>13. CASE UNCHANGED sidebarVars
  <2>1. SidebarTypeOK'
    BY <1>13 DEF sidebarVars, selection, schedule, drawn, others, SidebarTypeOK
  <2> QED
    BY <1>13, <2>1
       DEF sidebarVars, selection, schedule, drawn, others, Drawn, Shared
<1> QED
  BY <1>1, <1>2, <1>3, <1>4, <1>5, <1>6, <1>7, <1>8, <1>9, <1>10, <1>11,
     <1>12, <1>13 DEF SidebarNext

(* What a sidebar draws, selects and shares stays in step, for any agents, *)
(* lists and queries.                                                      *)
THEOREM SidebarInvariance ==
    SidebarSpec => []SidebarInv
<1>1. SidebarInit => SidebarInv
  BY SidebarInvInit
<1>2. SidebarInv /\ [SidebarNext]_sidebarVars => SidebarInv'
  BY SidebarInvStep
<1> QED
  BY <1>1, <1>2, PTL DEF SidebarSpec

(* The list, the selection and the keys drawn keep their types: only       *)
(* sessions get keys, and what is selected is an agent.                    *)
THEOREM SidebarTypeCorrect ==
    SidebarSpec => []SidebarTypeOK
  BY SidebarInvariance, PTL DEF SidebarInv

(* When a displayed sidebar waits for a key or a click, its screen shows   *)
(* the list, search and selection that the key or click will meet.         *)
THEOREM ScreenStaysCurrent ==
    SidebarSpec => []ScreenIsCurrent
<1>1. SidebarInv => ScreenIsCurrent
  BY DEF SidebarInv, SidebarTypeOK, Drawn, ScreenIsCurrent, Waiting, should_render
<1> QED
  BY <1>1, SidebarInvariance, PTL

(* Sidebars whose users did not move agree on what the last broadcast      *)
(* stored once all keys of broadcasts have been read.                      *)
THEOREM SelectionShared ==
    SidebarSpec => []SelectionIsShared
<1>1. SidebarInv => SelectionIsShared
  BY DEF SidebarInv, Shared, SelectionIsShared, Arrived
<1> QED
  BY <1>1, SidebarInvariance, PTL

(* A numeric key activates the session it was drawn next to, or nothing.   *)
THEOREM ShortcutHits ==
    SidebarSpec => ShortcutHitsWhatIsDrawn
<1>1. ASSUME SidebarInv, [SidebarNext]_sidebarVars, pressed' # pressed
      PROVE  /\ pressed'.slot \in DOMAIN screen.keys
             /\ pressed'.activated = screen.keys[pressed'.slot]
  <2>1. PICK slot \in 1..Keys : ActivateShortcut(slot)
    BY <1>1
       DEF SidebarNext, sidebarVars, SyncSharedSelection,
           apply_pending_shared_selection, Draw, apply_daemon_refresh,
           visibility_checked, Search, Type, NavigateList, Enter, Click,
           Sibling, broadcast_ui_selection
  <2>2. /\ slot \in DOMAIN rendered_shortcuts
        /\ pressed' = [slot |-> slot, activated |-> rendered_shortcuts[slot]]
    BY <2>1 DEF ActivateShortcut
  <2>3. rendered_shortcuts = screen.keys
    BY <1>1 DEF SidebarInv, Drawn
  <2> QED
    BY <2>2, <2>3
<1>2. SidebarInv /\ [SidebarNext]_sidebarVars =>
         [pressed' # pressed =>
             /\ pressed'.slot \in DOMAIN screen.keys
             /\ pressed'.activated = screen.keys[pressed'.slot]]_sidebarVars
  BY <1>1
<1> QED
  BY <1>2, SidebarInvariance, PTL DEF SidebarSpec, ShortcutHitsWhatIsDrawn
=============================================================================
