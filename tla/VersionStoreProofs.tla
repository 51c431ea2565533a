-------------------------- MODULE VersionStoreProofs --------------------------
(***************************************************************************)
(* Proofs about VersionStore, for any versions, any number of operations   *)
(* and any faults.                                                         *)
(***************************************************************************)
EXTENDS VersionStore, TLAPS

(* Each step belongs to the operations that have it.                       *)
Roles ==
    \A o \in Operation :
        /\ pc[o] \notin {"idle", "report"} =>
              want[o] \in Version /\ verb[o] # None
        /\ pc[o] \in {"controller", "compare"} => verb[o] = "update"
        /\ pc[o] = "check" => verb[o] \in {"rollback", "bootstrap"}
        /\ pc[o] \in {"fetch", "manager"} => verb[o] # "rollback"
        /\ pc[o] = "activate" => verb[o] # "adopt"
        /\ pc[o] \in {"restart", "wait", "restore", "again", "lost"} =>
              ~IsBoot(o)
        /\ pc[o] \in {"ready", "bootwait", "bootagain"} => IsBoot(o)
        /\ verb[o] = "adopt" => was[o] # None

(* Who has the lock is at work, and only a bootstrap works without it.     *)
Owner ==
    /\ lock # None => pc[lock] \notin {"idle", "report"}
    /\ \A o \in Operation :
          pc[o] \notin {"idle", "report"} /\ ~IsBoot(o) => lock = o

(* What an operation selects is installed.                                 *)
Planned ==
    /\ SelectionsAreInstalled
    /\ \A o \in Operation :
          /\ was[o] \in Optional(store)
          /\ pc[o] = "manager" => want[o] \in store \cap Managing
          /\ pc[o] = "activate" => want[o] \in store

(* The holder of the lock knows what is selected, and an update goes up,   *)
(* as does a bootstrap that does not repair a version of another protocol. *)
Kept ==
    /\ \A o \in Operation : lock = o =>
          /\ pc[o] \in {"check", "controller", "compare", "fetch", "manager",
                       "activate"} => current = was[o]
          /\ pc[o] \in {"restart", "wait", "restore"} => current = want[o]
          /\ pc[o] \in {"again", "failed"} /\ ~IsBoot(o) => current = was[o]
    /\ \A o \in Operation :
          /\ pc[o] \in {"fetch", "manager", "activate"}
          /\ verb[o] \in {"update", "bootstrap"}
          => \/ was[o] = None \/ was[o] < want[o]
             \/ verb[o] = "bootstrap" /\ ~Fits(o, was[o])

(* Once an operation has seen a version selected, or bootstrap has         *)
(* selected one, there is one, and nobody is left who would restore none.  *)
Selected ==
    \A b \in Operation :
        was[b] # None \/ pc[b] \in {"ready", "bootwait", "bootagain"} =>
            /\ current # None
            /\ \A o \in Operation : lock = o /\ ~IsBoot(o) => was[o] # None

(* From its announcement on, an update or rollback finds no READY that     *)
(* could be trusted.                                                       *)
Announced ==
    \A o \in Operation :
        /\ pc[o] \in {"fetch", "manager", "activate", "restart", "wait",
                     "restore", "again"}
        /\ ~IsBoot(o)
        => status = None \/ unsaid

(* Who is about to restart the daemon.                                     *)
Restarting(o) ==
    \/ lock = o /\ pc[o] \in {"restart", "restore"}
    \/ lock = o /\ pc[o] = "ready" /\ current # was[o]
    \/ ChildAt(o, "stop")

(* A daemon of another version is excused, or about to be restarted.       *)
Fresh ==
    current # None /\ ~excused =>
        daemon \in {None, current} \/ \E o \in Operation : Restarting(o)

(* The inductive invariant.                                                *)
IInv ==
    /\ TypeOK
    /\ Roles /\ Owner
    /\ Planned /\ Kept /\ Selected
    /\ Announced /\ ReadyNamesCurrent
    /\ Fresh

-----------------------------------------------------------------------------
(* It holds at the start.                                                  *)
LEMMA InitIInv == Init => IInv
  <1> SUFFICES ASSUME Init PROVE IInv
    OBVIOUS
  <1> USE VersionAssumption DEF Init, Optional
  <1>1. TypeOK
    BY DEF TypeOK, Steps
  <1>2. Roles
    BY DEF Roles, Verbs
  <1>3. Owner
    BY DEF Owner
  <1>4. Planned
    BY DEF Planned, SelectionsAreInstalled
  <1>5. Selected
    BY DEF Selected
  <1>6. Kept /\ Announced /\ ReadyNamesCurrent /\ Fresh
    BY DEF Kept, Announced, ReadyNamesCurrent, Fresh
  <1>7. QED
    BY <1>1, <1>2, <1>3, <1>4, <1>5, <1>6 DEF IInv

(* A restart that moves on stays a restart.                                *)
LEMMA ChildMoves ==
    ASSUME TypeOK, NEW o \in Operation, child[o] # None,
           NEW where \in {"stop", "start", "ok", "failed"}, ChildGoes(o, where)
    PROVE  child' \in [Operation -> Optional(Restarts)]
  <1> USE DEF TypeOK, Optional, ChildGoes
  <1>1. child[o] \in Restarts
    OBVIOUS
  <1>2. [child[o] EXCEPT !.at = where] \in Restarts
    BY <1>1 DEF Restarts
  <1>3. QED
    BY <1>2

(* Every step keeps the types.                                             *)
LEMMA TypeStep == IInv /\ [Next]_vars => TypeOK'
  <1> SUFFICES ASSUME IInv, [Next]_vars PROVE TypeOK'
    OBVIOUS
  <1> USE VersionAssumption DEF IInv, TypeOK, files, task, running, ops,
        Goto, At, IsBoot, Optional, Verbs, Steps, Restarts, Roles
  <1>1. CASE UNCHANGED vars
    BY <1>1 DEF vars
  <1>2. CASE \E o \in Operation : Operate(o) \/ RestartStep(o)
    <2> PICK o \in Operation : Operate(o) \/ RestartStep(o)
      BY <1>2
    <2>1. CASE Acquire(o)
      BY <2>1 DEF Acquire
    <2>2. CASE \/ AcquireFails(o) \/ CheckRollback(o)
      <3>1. CASE AcquireFails(o)
        BY <3>1 DEF AcquireFails
      <3>2. CASE CheckRollback(o)
        BY <3>2 DEF CheckRollback, is_installed, write_status, ROLLING_BACK
      <3>3. QED
        BY <2>2, <3>1, <3>2
    <2>3. CASE \/ RefuseRollback(o) \/ ensure_manager_from_current(o)
      <3>1. CASE RefuseRollback(o)
        BY <3>1 DEF RefuseRollback, is_installed, Fail, write_status, FAILED
      <3>2. CASE ensure_manager_from_current(o)
        BY <3>2 DEF ensure_manager_from_current
      <3>3. QED
        BY <2>3, <3>1, <3>2
    <2>4. CASE ControllerFails(o)
      BY <2>4 DEF ControllerFails, Fail, write_status, FAILED
    <2>5. CASE AlreadyCurrent(o)
      BY <2>5 DEF AlreadyCurrent, RunningVersion, installed_version, newer,
         write_status, Ready
    <2>6. CASE \/ StartInstalling(o) \/ CompareFails(o)
      <3>1. CASE StartInstalling(o)
        BY <3>1 DEF StartInstalling, newer, installed_version, write_status,
           INSTALLING
      <3>2. CASE CompareFails(o)
        BY <3>2 DEF newer, installed_version, write_status, CompareFails,
           Fail, FAILED
      <3>3. QED
        BY <2>6, <3>1, <3>2
    <2>7. CASE \E floor \in Version : BootKeeps(o, floor)
      BY <2>7 DEF BootKeeps, compatible, write_status, Ready
    <2>8. CASE \E floor \in Version : BootPlans(o, floor)
      <3> PICK floor \in Version : BootPlans(o, floor)
        BY <2>8
      <3>1. status' \in Optional(Version) /\ unsaid' \in BOOLEAN
        BY DEF BootPlans, write_status, INSTALLING
      <3>2. pc' \in [Operation -> Steps]
        BY DEF BootPlans
      <3>3. verb' \in [Operation -> Optional(Verbs)]
        BY DEF BootPlans
      <3>4. QED
        BY <3>1, <3>2, <3>3 DEF BootPlans
    <2>9. CASE \E floor \in Version : BootRefuses(o, floor)
      BY <2>9 DEF BootRefuses, compatible, Fail, write_status, FAILED
    <2>10. CASE \/ Publish(o) \/ PublishFails(o)
      <3>1. CASE Publish(o)
        BY <3>1 DEF Publish
      <3>2. CASE PublishFails(o)
        BY <3>2 DEF PublishFails, Fail, write_status, FAILED
      <3>3. QED
        BY <2>10, <3>1, <3>2
    <2>11. CASE activate_manager_if_newer(o)
      BY <2>11 DEF activate_manager_if_newer, MayMoveLinks, NextStep
    <2>12. CASE activate(o)
      BY <2>12 DEF activate, MayMoveLinks
    <2>13. CASE ActivateFails(o)
      BY <2>13 DEF ActivateFails, MayMoveLinks, Fail, write_status, FAILED
    <2>14. CASE restart(o)
      <3>1. current \in Version
        BY <2>14 DEF restart, Owner, Kept
      <3>2. QED
        BY <2>14, <3>1 DEF restart, SpawnRestart
    <2>15. CASE RestartFails(o)
      BY <2>15 DEF RestartFails
    <2>16. CASE Finish(o)
      BY <2>16 DEF Finish, ChildAt, Reap, write_status, Ready
    <2>17. CASE FinishFails(o)
      BY <2>17 DEF FinishFails, ChildAt, Reap
    <2>18. CASE Restore(o)
      BY <2>18 DEF Restore
    <2>19. CASE \/ RestoreFails(o) \/ Restored(o)
      <3>1. CASE RestoreFails(o)
        BY <3>1 DEF RestoreFails
      <3>2. CASE Restored(o)
        BY <3>2 DEF Restored, ChildAt, Reap
      <3>3. QED
        BY <2>19, <3>1, <3>2
    <2>20. CASE BootReady(o)
      <3>1. current \in Version
        BY <2>20 DEF BootReady, Selected
      <3>2. QED
        <4>1. [exe |-> current, at |-> "stop"] \in Restarts
          BY <3>1
        <4>2. child' \in [Operation -> Optional(Restarts)]
          BY <2>20, <4>1 DEF BootReady, SpawnRestart
        <4>3. QED
          BY <2>20, <3>1, <4>2 DEF BootReady, write_status, Ready
    <2>21. CASE \/ ReadyFails(o) \/ BootRestarted(o)
      <3>1. CASE ReadyFails(o)
        BY <3>1 DEF ReadyFails, Fail, write_status, FAILED
      <3>2. CASE BootRestarted(o)
        BY <3>2 DEF BootRestarted, ChildAt, Reap
      <3>3. QED
        BY <2>21, <3>1, <3>2
    <2>22. CASE BootStartsAgain(o)
      <3>1. current \in Version
        BY <2>22 DEF BootStartsAgain, Selected
      <3>2. QED
        BY <2>22, <3>1 DEF BootStartsAgain
    <2>23. CASE Release(o)
      BY <2>23 DEF Release, End
    <2>24. CASE Report(o)
      BY <2>24 DEF Report, write_status, FAILED
    <2>25. CASE Kill(o)
      BY <2>25 DEF Kill, End, Activated, ChildAt
    <2>26. CASE Interrupted(o)
      BY <2>26 DEF Interrupted, write_status, FAILED, Activated
    <2>27. CASE StopDaemon(o)
      BY <2>27, ChildMoves DEF StopDaemon, ChildAt
    <2>28. CASE StopFails(o)
      BY <2>28, ChildMoves DEF StopFails, ChildAt
    <2>29. CASE EnsureDaemon(o)
      <3>1. child' \in [Operation -> Optional(Restarts)]
        BY <2>29, ChildMoves DEF EnsureDaemon, ChildAt
      <3>2. daemon' \in Optional(Version) /\ excused' \in BOOLEAN
        <4>1. child[o] \in Restarts
          BY <2>29 DEF EnsureDaemon, ChildAt
        <4>2. child[o].exe \in Version
          BY <4>1
        <4>3. CASE UNCHANGED <<daemon, excused>>
          BY <4>3
        <4>4. CASE StartDaemon(child[o].exe)
          BY <4>2, <4>4 DEF StartDaemon
        <4>5. QED
          BY <2>29, <4>3, <4>4 DEF EnsureDaemon
      <3>3. QED
        BY <2>29, <3>1, <3>2 DEF EnsureDaemon
    <2>30. CASE EnsureFails(o)
      BY <2>30, ChildMoves DEF EnsureFails, ChildAt
    <2>31. QED
      BY <2>1, <2>2, <2>3, <2>4, <2>5, <2>6, <2>7, <2>8, <2>9, <2>10, <2>11,
         <2>12, <2>13, <2>14, <2>15, <2>16, <2>17, <2>18, <2>19, <2>20,
         <2>21, <2>22, <2>23, <2>24, <2>25, <2>26, <2>27, <2>28, <2>29,
         <2>30 DEF Operate, RestartStep
  <1>3. CASE \E v \in Version : CommandEnsures(v)
    BY <1>3 DEF CommandEnsures, StartDaemon
  <1>4. CASE DaemonStops
    BY <1>4 DEF DaemonStops
  <1>5. QED
    BY <1>1, <1>2, <1>3, <1>4 DEF Next

(* Steps keep to their operations, and work to the owner of the lock.      *)
LEMMA RolesStep == IInv /\ [Next]_vars => Roles' /\ Owner'
  <1> SUFFICES ASSUME IInv, [Next]_vars PROVE Roles' /\ Owner'
    OBVIOUS
  <1> USE VersionAssumption DEF IInv, TypeOK, files, task, running, ops,
        Goto, At, IsBoot, Optional, Verbs, Roles, Owner
  <1>1. CASE UNCHANGED vars
    BY <1>1 DEF vars
  <1>2. CASE \E o \in Operation : Operate(o) \/ RestartStep(o)
    <2> PICK o \in Operation : Operate(o) \/ RestartStep(o)
      BY <1>2
    <2>1. CASE \/ Acquire(o) \/ AcquireFails(o) \/ CheckRollback(o)
               \/ RefuseRollback(o) \/ ensure_manager_from_current(o)
      BY <2>1 DEF Acquire, AcquireFails, CheckRollback, is_installed,
         write_status, ROLLING_BACK, RefuseRollback, Fail, FAILED,
         ensure_manager_from_current
    <2>2. CASE \/ ControllerFails(o) \/ AlreadyCurrent(o)
               \/ StartInstalling(o) \/ CompareFails(o)
               \/ (\E floor \in Version : BootKeeps(o, floor))
      BY <2>2 DEF ControllerFails, Fail, write_status, FAILED,
         AlreadyCurrent, installed_version, newer, Ready, StartInstalling,
         INSTALLING, CompareFails, BootKeeps, compatible
    <2>3. CASE \/ (\E floor \in Version : BootPlans(o, floor))
               \/ (\E floor \in Version : BootRefuses(o, floor))
               \/ Publish(o) \/ PublishFails(o)
               \/ activate_manager_if_newer(o)
      BY <2>3 DEF BootPlans, compatible, write_status, INSTALLING,
         BootRefuses, Fail, FAILED, Publish, PublishFails,
         activate_manager_if_newer, MayMoveLinks, NextStep
    <2>4. CASE \/ activate(o) \/ ActivateFails(o) \/ restart(o)
               \/ RestartFails(o) \/ Finish(o)
      BY <2>4 DEF activate, MayMoveLinks, ActivateFails, Fail, write_status,
         FAILED, restart, SpawnRestart, RestartFails, Finish, ChildAt, Reap,
         Ready
    <2>5. CASE \/ FinishFails(o) \/ Restore(o) \/ RestoreFails(o)
               \/ Restored(o) \/ BootReady(o)
      BY <2>5 DEF FinishFails, ChildAt, Reap, Restore, RestoreFails,
         Restored, BootReady, write_status, Ready, SpawnRestart
    <2>6. CASE \/ ReadyFails(o) \/ BootRestarted(o) \/ BootStartsAgain(o)
               \/ Release(o) \/ Report(o)
      BY <2>6 DEF ReadyFails, Fail, write_status, FAILED, BootRestarted,
         ChildAt, Reap, BootStartsAgain, Release, End, Report
    <2>7. CASE \/ Kill(o) \/ Interrupted(o) \/ StopDaemon(o) \/ StopFails(o)
               \/ EnsureDaemon(o)
      BY <2>7 DEF Kill, End, Activated, ChildAt, Interrupted, write_status,
         FAILED, StopDaemon, ChildGoes, StopFails, EnsureDaemon, StartDaemon
    <2>8. CASE EnsureFails(o)
      BY <2>8 DEF EnsureFails, ChildAt, ChildGoes
    <2>9. QED
      BY <2>1, <2>2, <2>3, <2>4, <2>5, <2>6, <2>7, <2>8 DEF Operate,
         RestartStep
  <1>3. CASE \E v \in Version : CommandEnsures(v)
    BY <1>3 DEF CommandEnsures, StartDaemon
  <1>4. CASE DaemonStops
    BY <1>4 DEF DaemonStops
  <1>5. QED
    BY <1>1, <1>2, <1>3, <1>4 DEF Next

(* What is selected, or about to be, is installed.                         *)
LEMMA PlannedStep == IInv /\ [Next]_vars => Planned'
  <1> SUFFICES ASSUME IInv, [Next]_vars PROVE Planned'
    OBVIOUS
  <1> USE VersionAssumption DEF IInv, TypeOK, files, task, running, ops,
        Goto, At, IsBoot, Optional, Verbs, Roles, Owner, Planned, Kept,
        SelectionsAreInstalled
  <1>1. CASE UNCHANGED vars
    BY <1>1 DEF vars
  <1>2. CASE \E o \in Operation : Operate(o) \/ RestartStep(o)
    <2> PICK o \in Operation : Operate(o) \/ RestartStep(o)
      BY <1>2
    <2>1. CASE \/ Acquire(o) \/ AcquireFails(o) \/ CheckRollback(o)
               \/ RefuseRollback(o) \/ ensure_manager_from_current(o)
      BY <2>1 DEF Acquire, AcquireFails, CheckRollback, is_installed,
         write_status, ROLLING_BACK, RefuseRollback, Fail, FAILED,
         ensure_manager_from_current
    <2>2. CASE \/ ControllerFails(o) \/ AlreadyCurrent(o)
               \/ StartInstalling(o) \/ CompareFails(o)
               \/ (\E floor \in Version : BootKeeps(o, floor))
      BY <2>2 DEF ControllerFails, Fail, write_status, FAILED,
         AlreadyCurrent, installed_version, newer, Ready, StartInstalling,
         INSTALLING, CompareFails, BootKeeps, compatible
    <2>3. CASE \/ (\E floor \in Version : BootPlans(o, floor))
               \/ (\E floor \in Version : BootRefuses(o, floor))
               \/ Publish(o) \/ PublishFails(o)
               \/ activate_manager_if_newer(o)
      BY <2>3 DEF BootPlans, compatible, write_status, INSTALLING,
         BootRefuses, Fail, FAILED, Publish, PublishFails,
         activate_manager_if_newer, MayMoveLinks, NextStep
    <2>4. CASE \/ activate(o) \/ ActivateFails(o) \/ restart(o)
               \/ RestartFails(o) \/ Finish(o)
      BY <2>4 DEF activate, MayMoveLinks, ActivateFails, Fail, write_status,
         FAILED, restart, SpawnRestart, RestartFails, Finish, ChildAt, Reap,
         Ready
    <2>5. CASE \/ FinishFails(o) \/ Restore(o) \/ RestoreFails(o)
               \/ Restored(o) \/ BootReady(o)
      BY <2>5 DEF FinishFails, ChildAt, Reap, Restore, RestoreFails,
         Restored, BootReady, write_status, Ready, SpawnRestart
    <2>6. CASE \/ ReadyFails(o) \/ BootRestarted(o) \/ BootStartsAgain(o)
               \/ Release(o) \/ Report(o)
      BY <2>6 DEF ReadyFails, Fail, write_status, FAILED, BootRestarted,
         ChildAt, Reap, BootStartsAgain, Release, End, Report
    <2>7. CASE \/ Kill(o) \/ Interrupted(o) \/ StopDaemon(o) \/ StopFails(o)
               \/ EnsureDaemon(o)
      BY <2>7 DEF Kill, End, Activated, ChildAt, Interrupted, write_status,
         FAILED, StopDaemon, ChildGoes, StopFails, EnsureDaemon, StartDaemon
    <2>8. CASE EnsureFails(o)
      BY <2>8 DEF EnsureFails, ChildAt, ChildGoes
    <2>9. QED
      BY <2>1, <2>2, <2>3, <2>4, <2>5, <2>6, <2>7, <2>8 DEF Operate,
         RestartStep
  <1>3. CASE \E v \in Version : CommandEnsures(v)
    BY <1>3 DEF CommandEnsures, StartDaemon
  <1>4. CASE DaemonStops
    BY <1>4 DEF DaemonStops
  <1>5. QED
    BY <1>1, <1>2, <1>3, <1>4 DEF Next

(* What an operation has seen selected is a version, hence a number.       *)
LEMMA SeenIsNumber ==
    ASSUME TypeOK, NEW o \in Operation, was[o] # None
    PROVE  was[o] \in Nat
  BY VersionAssumption DEF TypeOK, Optional

(* Nobody moves the selection under the holder of the lock.                *)
LEMMA KeptStep == IInv /\ [Next]_vars => Kept'
  <1> SUFFICES ASSUME IInv, [Next]_vars PROVE Kept'
    OBVIOUS
  <1> USE VersionAssumption DEF IInv, TypeOK, files, task, running, ops,
        Goto, At, IsBoot, Optional, Verbs, Roles, Owner, Kept, Fits
  <1>1. CASE UNCHANGED vars
    BY <1>1 DEF vars
  <1>2. CASE \E o \in Operation : Operate(o) \/ RestartStep(o)
    <2> PICK o \in Operation : Operate(o) \/ RestartStep(o)
      BY <1>2
    <2>1. CASE \/ Acquire(o) \/ AcquireFails(o) \/ CheckRollback(o)
               \/ RefuseRollback(o) \/ ensure_manager_from_current(o)
      BY <2>1 DEF Acquire, AcquireFails, CheckRollback, is_installed,
         write_status, ROLLING_BACK, RefuseRollback, Fail, FAILED,
         ensure_manager_from_current
    <2>2. CASE \/ ControllerFails(o) \/ AlreadyCurrent(o)
               \/ StartInstalling(o) \/ CompareFails(o)
               \/ (\E floor \in Version : BootKeeps(o, floor))
      BY <2>2 DEF ControllerFails, Fail, write_status, FAILED,
         AlreadyCurrent, installed_version, newer, Ready, StartInstalling,
         INSTALLING, CompareFails, BootKeeps, compatible
    <2>3. CASE \E floor \in Version : BootPlans(o, floor)
      <3> PICK floor \in Version : BootPlans(o, floor)
        BY <2>3
      <3>1. floor \in Nat /\ want[o] \in Nat /\ want[o] >= floor
        BY DEF BootPlans
      <3>2. was[o] # None => was[o] \in Nat
        BY SeenIsNumber
      <3>3. \/ was[o] = None \/ was[o] < want[o] \/ verb'[o] = "adopt"
            \/ Launcher[was[o]] # protocol[o]
        <4>1. CASE compatible(o, floor)
          BY <4>1 DEF BootPlans
        <4>2. CASE was[o] # None /\ ~(was[o] >= floor)
          BY <4>2, <3>1, <3>2
        <4>3. QED
          BY <4>1, <4>2 DEF compatible
      <3>4. QED
        BY <3>3 DEF BootPlans, write_status, INSTALLING, compatible
    <2>4. CASE \/ (\E floor \in Version : BootRefuses(o, floor))
               \/ Publish(o) \/ PublishFails(o)
               \/ activate_manager_if_newer(o) \/ activate(o)
      BY <2>4 DEF BootRefuses, compatible, Fail, write_status, FAILED,
         Publish, PublishFails, activate_manager_if_newer, MayMoveLinks,
         NextStep, activate
    <2>5. CASE \/ ActivateFails(o) \/ restart(o) \/ RestartFails(o)
               \/ Finish(o) \/ FinishFails(o)
      BY <2>5 DEF ActivateFails, MayMoveLinks, Fail, write_status, FAILED,
         restart, SpawnRestart, RestartFails, Finish, ChildAt, Reap, Ready,
         FinishFails
    <2>6. CASE \/ Restore(o) \/ RestoreFails(o) \/ Restored(o)
               \/ BootReady(o) \/ ReadyFails(o)
      BY <2>6 DEF Restore, RestoreFails, Restored, ChildAt, Reap, BootReady,
         write_status, Ready, SpawnRestart, ReadyFails, Fail, FAILED
    <2>7. CASE \/ BootRestarted(o) \/ BootStartsAgain(o) \/ Release(o)
               \/ Report(o) \/ Kill(o)
      BY <2>7 DEF BootRestarted, ChildAt, Reap, BootStartsAgain, Release,
         End, Report, write_status, FAILED, Kill, Activated
    <2>8. CASE \/ Interrupted(o) \/ StopDaemon(o) \/ StopFails(o)
               \/ EnsureDaemon(o) \/ EnsureFails(o)
      BY <2>8 DEF Interrupted, write_status, FAILED, Activated, StopDaemon,
         ChildAt, ChildGoes, StopFails, EnsureDaemon, StartDaemon,
         EnsureFails
    <2>9. QED
      BY <2>1, <2>2, <2>3, <2>4, <2>5, <2>6, <2>7, <2>8 DEF Operate,
         RestartStep
  <1>3. CASE \E v \in Version : CommandEnsures(v)
    BY <1>3 DEF CommandEnsures, StartDaemon
  <1>4. CASE DaemonStops
    BY <1>4 DEF DaemonStops
  <1>5. QED
    BY <1>1, <1>2, <1>3, <1>4 DEF Next

(* A selection that was seen does not vanish.                              *)
LEMMA SelectedStep == IInv /\ [Next]_vars => Selected'
  <1> SUFFICES ASSUME IInv, [Next]_vars PROVE Selected'
    OBVIOUS
  <1> USE VersionAssumption DEF IInv, TypeOK, files, task, running, ops,
        Goto, At, IsBoot, Optional, Verbs, Roles, Owner, Kept, Selected
  <1>1. CASE UNCHANGED vars
    BY <1>1 DEF vars
  <1>2. CASE \E o \in Operation : Operate(o) \/ RestartStep(o)
    <2> PICK o \in Operation : Operate(o) \/ RestartStep(o)
      BY <1>2
    <2>1. CASE \/ Acquire(o) \/ AcquireFails(o) \/ CheckRollback(o)
               \/ RefuseRollback(o) \/ ensure_manager_from_current(o)
      BY <2>1 DEF Acquire, AcquireFails, CheckRollback, is_installed,
         write_status, ROLLING_BACK, RefuseRollback, Fail, FAILED,
         ensure_manager_from_current
    <2>2. CASE \/ ControllerFails(o) \/ AlreadyCurrent(o)
               \/ StartInstalling(o) \/ CompareFails(o)
               \/ (\E floor \in Version : BootKeeps(o, floor))
      BY <2>2 DEF ControllerFails, Fail, write_status, FAILED,
         AlreadyCurrent, installed_version, newer, Ready, StartInstalling,
         INSTALLING, CompareFails, BootKeeps, compatible
    <2>3. CASE \/ (\E floor \in Version : BootPlans(o, floor))
               \/ (\E floor \in Version : BootRefuses(o, floor))
               \/ Publish(o) \/ PublishFails(o)
               \/ activate_manager_if_newer(o)
      BY <2>3 DEF BootPlans, compatible, write_status, INSTALLING,
         BootRefuses, Fail, FAILED, Publish, PublishFails,
         activate_manager_if_newer, MayMoveLinks, NextStep
    <2>4. CASE \/ activate(o) \/ ActivateFails(o) \/ restart(o)
               \/ RestartFails(o) \/ Finish(o)
      BY <2>4 DEF activate, MayMoveLinks, ActivateFails, Fail, write_status,
         FAILED, restart, SpawnRestart, RestartFails, Finish, ChildAt, Reap,
         Ready
    <2>5. CASE \/ FinishFails(o) \/ Restore(o) \/ RestoreFails(o)
               \/ Restored(o) \/ BootReady(o)
      BY <2>5 DEF FinishFails, ChildAt, Reap, Restore, RestoreFails,
         Restored, BootReady, write_status, Ready, SpawnRestart
    <2>6. CASE \/ ReadyFails(o) \/ BootRestarted(o) \/ BootStartsAgain(o)
               \/ Release(o) \/ Report(o)
      BY <2>6 DEF ReadyFails, Fail, write_status, FAILED, BootRestarted,
         ChildAt, Reap, BootStartsAgain, Release, End, Report
    <2>7. CASE \/ Kill(o) \/ Interrupted(o) \/ StopDaemon(o) \/ StopFails(o)
               \/ EnsureDaemon(o)
      BY <2>7 DEF Kill, End, Activated, ChildAt, Interrupted, write_status,
         FAILED, StopDaemon, ChildGoes, StopFails, EnsureDaemon, StartDaemon
    <2>8. CASE EnsureFails(o)
      BY <2>8 DEF EnsureFails, ChildAt, ChildGoes
    <2>9. QED
      BY <2>1, <2>2, <2>3, <2>4, <2>5, <2>6, <2>7, <2>8 DEF Operate,
         RestartStep
  <1>3. CASE \E v \in Version : CommandEnsures(v)
    BY <1>3 DEF CommandEnsures, StartDaemon
  <1>4. CASE DaemonStops
    BY <1>4 DEF DaemonStops
  <1>5. QED
    BY <1>1, <1>2, <1>3, <1>4 DEF Next

(* READY is said of what is selected, and of nothing during a change.      *)
LEMMA AnnouncedStep == IInv /\ [Next]_vars => Announced' /\ ReadyNamesCurrent'
  <1> SUFFICES ASSUME IInv, [Next]_vars PROVE Announced' /\ ReadyNamesCurrent'
    OBVIOUS
  <1> USE VersionAssumption DEF IInv, TypeOK, files, task, running, ops,
        Goto, At, IsBoot, Optional, Verbs, Roles, Owner, Kept, Announced,
        ReadyNamesCurrent
  <1>1. CASE UNCHANGED vars
    BY <1>1 DEF vars
  <1>2. CASE \E o \in Operation : Operate(o) \/ RestartStep(o)
    <2> PICK o \in Operation : Operate(o) \/ RestartStep(o)
      BY <1>2
    <2>1. CASE \/ Acquire(o) \/ AcquireFails(o) \/ CheckRollback(o)
               \/ RefuseRollback(o) \/ ensure_manager_from_current(o)
      BY <2>1 DEF Acquire, AcquireFails, CheckRollback, is_installed,
         write_status, ROLLING_BACK, RefuseRollback, Fail, FAILED,
         ensure_manager_from_current
    <2>2. CASE \/ ControllerFails(o) \/ AlreadyCurrent(o)
               \/ StartInstalling(o) \/ CompareFails(o)
               \/ (\E floor \in Version : BootKeeps(o, floor))
      <3>1. CASE ControllerFails(o)
        BY <3>1 DEF ControllerFails, Fail, write_status, FAILED
      <3>2. CASE AlreadyCurrent(o)
        BY <3>2 DEF write_status, AlreadyCurrent, installed_version, newer,
           Ready
      <3>3. CASE StartInstalling(o)
        BY <3>3 DEF write_status, installed_version, newer, StartInstalling,
           INSTALLING
      <3>4. CASE CompareFails(o)
        BY <3>4 DEF Fail, write_status, FAILED, installed_version, newer,
           CompareFails
      <3>5. CASE \E floor \in Version : BootKeeps(o, floor)
        BY <3>5 DEF write_status, Ready, BootKeeps, compatible
      <3>6. QED
        BY <2>2, <3>1, <3>2, <3>3, <3>4, <3>5
    <2>3. CASE \/ (\E floor \in Version : BootPlans(o, floor))
               \/ (\E floor \in Version : BootRefuses(o, floor))
               \/ Publish(o) \/ PublishFails(o)
               \/ activate_manager_if_newer(o)
      BY <2>3 DEF BootPlans, compatible, write_status, INSTALLING,
         BootRefuses, Fail, FAILED, Publish, PublishFails,
         activate_manager_if_newer, MayMoveLinks, NextStep
    <2>4. CASE \/ activate(o) \/ ActivateFails(o) \/ restart(o)
               \/ RestartFails(o) \/ Finish(o)
      <3>1. CASE activate(o)
        BY <3>1 DEF activate, MayMoveLinks, restart, SpawnRestart
      <3>2. CASE ActivateFails(o)
        BY <3>2 DEF activate, MayMoveLinks, ActivateFails, Fail, write_status,
           FAILED, restart, SpawnRestart
      <3>3. CASE restart(o)
        BY <3>3 DEF restart, SpawnRestart
      <3>4. CASE RestartFails(o)
        BY <3>4 DEF restart, SpawnRestart, RestartFails
      <3>5. CASE Finish(o)
        BY <3>5 DEF write_status, Finish, ChildAt, Reap, Ready
      <3>6. QED
        BY <2>4, <3>1, <3>2, <3>3, <3>4, <3>5
    <2>5. CASE \/ FinishFails(o) \/ Restore(o) \/ RestoreFails(o)
               \/ Restored(o) \/ BootReady(o)
      <3>1. CASE FinishFails(o) \/ Restored(o)
        BY <3>1 DEF FinishFails, Restored, ChildAt, Reap
      <3>2. CASE Restore(o)
        BY <3>2 DEF Restore
      <3>3. CASE RestoreFails(o)
        BY <3>3 DEF RestoreFails
      <3>4. CASE BootReady(o)
        BY <3>4 DEF BootReady, write_status, Ready, SpawnRestart
      <3>5. QED
        BY <2>5, <3>1, <3>2, <3>3, <3>4
    <2>6. CASE \/ ReadyFails(o) \/ BootRestarted(o) \/ BootStartsAgain(o)
               \/ Release(o) \/ Report(o)
      BY <2>6 DEF ReadyFails, Fail, write_status, FAILED, BootRestarted,
         ChildAt, Reap, BootStartsAgain, Release, End, Report
    <2>7. CASE \/ Kill(o) \/ Interrupted(o) \/ StopDaemon(o) \/ StopFails(o)
               \/ EnsureDaemon(o)
      BY <2>7 DEF Kill, End, Activated, ChildAt, Interrupted, write_status,
         FAILED, StopDaemon, ChildGoes, StopFails, EnsureDaemon, StartDaemon
    <2>8. CASE EnsureFails(o)
      BY <2>8 DEF EnsureFails, ChildAt, ChildGoes
    <2>9. QED
      BY <2>1, <2>2, <2>3, <2>4, <2>5, <2>6, <2>7, <2>8 DEF Operate,
         RestartStep
  <1>3. CASE \E v \in Version : CommandEnsures(v)
    BY <1>3 DEF CommandEnsures, StartDaemon
  <1>4. CASE DaemonStops
    BY <1>4 DEF DaemonStops
  <1>5. QED
    BY <1>1, <1>2, <1>3, <1>4 DEF Next

(* A daemon left behind is excused or restarted.                           *)
LEMMA FreshStep == IInv /\ [Next]_vars => Fresh'
  <1> SUFFICES ASSUME IInv, [Next]_vars PROVE Fresh'
    OBVIOUS
  <1> USE VersionAssumption DEF IInv, TypeOK, files, task, running, ops,
        Goto, At, IsBoot, Optional, Verbs, Roles, Owner, Kept, Fresh,
        Restarting, ChildAt, Restarts
  <1>1. CASE UNCHANGED vars
    BY <1>1 DEF vars
  <1>2. CASE \E o \in Operation : Operate(o) \/ RestartStep(o)
    <2> PICK o \in Operation : Operate(o) \/ RestartStep(o)
      BY <1>2
    <2>1. CASE \/ Acquire(o) \/ AcquireFails(o) \/ CheckRollback(o)
      BY <2>1 DEF Acquire, AcquireFails, CheckRollback, is_installed,
         write_status, ROLLING_BACK
    <2>2. CASE \/ RefuseRollback(o) \/ ensure_manager_from_current(o)
               \/ ControllerFails(o)
      BY <2>2 DEF RefuseRollback, is_installed, Fail, write_status, FAILED,
         ensure_manager_from_current, ControllerFails
    <2>3. CASE \/ AlreadyCurrent(o) \/ StartInstalling(o) \/ CompareFails(o)
      BY <2>3 DEF AlreadyCurrent, installed_version, newer, write_status,
         Ready, StartInstalling, INSTALLING, CompareFails, Fail, FAILED
    <2>4. CASE \/ (\E floor \in Version : BootKeeps(o, floor))
               \/ (\E floor \in Version : BootPlans(o, floor))
               \/ (\E floor \in Version : BootRefuses(o, floor))
      BY <2>4 DEF BootKeeps, compatible, write_status, Ready, BootPlans,
         INSTALLING, BootRefuses, Fail, FAILED
    <2>5. CASE \/ Publish(o) \/ PublishFails(o)
               \/ activate_manager_if_newer(o)
      BY <2>5 DEF Publish, PublishFails, Fail, write_status, FAILED,
         activate_manager_if_newer, MayMoveLinks, NextStep
    <2>6. CASE \/ activate(o) \/ ActivateFails(o) \/ restart(o)
      BY <2>6 DEF activate, MayMoveLinks, ActivateFails, Fail, write_status,
         FAILED, restart, SpawnRestart
    <2>7. CASE \/ RestartFails(o) \/ Finish(o) \/ FinishFails(o)
      BY <2>7 DEF RestartFails, Finish, Reap, write_status, Ready,
         FinishFails
    <2>8. CASE \/ Restore(o) \/ RestoreFails(o) \/ Restored(o)
      BY <2>8 DEF Restore, RestoreFails, Restored, Reap
    <2>9. CASE BootReady(o)
      <3>1. /\ pc[o] = "ready" /\ UNCHANGED <<current, daemon, lock, was>>
            /\ \A a \in Operation \ {o} :
                  pc'[a] = pc[a] /\ child'[a] = child[a]
        BY <2>9 DEF BootReady, SpawnRestart
      <3>2. CASE SpawnRestart(o)
        <4>1. current \in Version
          BY <3>1 DEF Selected
        <4>2. child'[o] = [exe |-> current, at |-> "stop"]
          BY <3>2 DEF SpawnRestart
        <4>3. child'[o] \in Restarts /\ child'[o].at = "stop"
          BY <4>1, <4>2
        <4>4. QED
          BY <4>3
      <3>3. CASE excused' = (excused \/ current # was[o]) /\ UNCHANGED child
        <4>1. ~excused' => ~excused /\ current = was[o]
          BY <3>3
        <4>2. QED
          BY <3>1, <3>3, <4>1
      <3>4. QED
        BY <2>9, <3>2, <3>3 DEF BootReady
    <2>10. CASE ReadyFails(o)
      <3>1. /\ pc[o] = "ready" /\ pc' = [pc EXCEPT ![o] = "failed"]
            /\ UNCHANGED <<current, daemon, lock, was, child>>
        BY <2>10 DEF ReadyFails, Fail
      <3>2. ~excused' => ~excused /\ current = was[o]
        BY <2>10 DEF ReadyFails, Fail
      <3>3. QED
        BY <3>1, <3>2
    <2>11. CASE \/ BootRestarted(o) \/ BootStartsAgain(o) \/ Release(o)
      BY <2>11 DEF BootRestarted, Reap, BootStartsAgain, Release, End
    <2>12. CASE Report(o)
      BY <2>12 DEF Report, write_status, FAILED
    <2>13. CASE Kill(o)
      <3>1. ASSUME NEW a \in Operation, Restarting(a), ~excused'
            PROVE  Restarting(a)'
        <4>1. CASE a = o
          <5>1. ChildAt(o, "stop")
            BY <2>13, <3>1, <4>1 DEF Kill, Activated
          <5>2. child' = child
            BY <2>13, <5>1 DEF Kill
          <5>3. QED
            BY <4>1, <5>1, <5>2
        <4>2. CASE a # o
          <5>1. pc'[a] = pc[a] /\ was'[a] = was[a] /\ child'[a] = child[a]
            BY <2>13, <4>2 DEF Kill, End
          <5>2. current' = current /\ (lock = a => lock' = a)
            BY <2>13, <4>2 DEF Kill
          <5>3. QED
            BY <3>1, <5>1, <5>2
        <4>3. QED
          BY <4>1, <4>2
      <3>2. UNCHANGED <<current, daemon>> /\ (~excused' => ~excused)
        BY <2>13 DEF Kill
      <3>3. QED
        BY <3>1, <3>2
    <2>14. CASE Interrupted(o)
      BY <2>14 DEF Interrupted, write_status, FAILED, Activated
    <2>15. CASE \/ StopDaemon(o) \/ StopFails(o) \/ EnsureDaemon(o)
      <3>1. CASE StopDaemon(o)
        BY <3>1 DEF StopDaemon, ChildGoes
      <3>2. CASE StopFails(o)
        BY <3>2 DEF ChildGoes, StopFails
      <3>3. CASE EnsureDaemon(o)
        <4>1. ASSUME NEW a \in Operation, Restarting(a)
              PROVE  Restarting(a)'
          <5>1. CASE a = o
            BY <3>3, <4>1, <5>1 DEF EnsureDaemon
          <5>2. CASE a # o
            <6>1. child'[a] = child[a]
              BY <3>3, <5>2 DEF EnsureDaemon, ChildGoes
            <6>2. UNCHANGED <<lock, pc, current, was>>
              BY <3>3 DEF EnsureDaemon
            <6>3. QED
              BY <4>1, <6>1, <6>2
          <5>3. QED
            BY <5>1, <5>2
        <4>2. CASE daemon = None
          BY <3>3, <4>2 DEF EnsureDaemon, StartDaemon
        <4>3. CASE daemon # None
          <5>1. UNCHANGED <<daemon, excused, current>>
            BY <3>3, <4>3 DEF EnsureDaemon
          <5>2. QED
            BY <4>1, <5>1
        <4>4. QED
          BY <4>2, <4>3
      <3>4. QED
        BY <2>15, <3>1, <3>2, <3>3
    <2>16. CASE EnsureFails(o)
      BY <2>16 DEF EnsureFails, ChildGoes
    <2>17. QED
      BY <2>1, <2>2, <2>3, <2>4, <2>5, <2>6, <2>7, <2>8, <2>9, <2>10, <2>11,
         <2>12, <2>13, <2>14, <2>15, <2>16 DEF Operate, RestartStep
  <1>3. CASE \E v \in Version : CommandEnsures(v)
    BY <1>3 DEF CommandEnsures, StartDaemon
  <1>4. CASE DaemonStops
    BY <1>4 DEF DaemonStops
  <1>5. QED
    BY <1>1, <1>2, <1>3, <1>4 DEF Next

(* Only activating and restoring move the selection.                       *)
LEMMA SelectionMoves ==
    [Next]_vars =>
        \/ UNCHANGED current
        \/ \E o \in Operation : activate(o) \/ Restore(o)
  <1> SUFFICES ASSUME [Next]_vars
               PROVE  \/ UNCHANGED current
                      \/ \E o \in Operation : activate(o) \/ Restore(o)
    OBVIOUS
  <1> USE VersionAssumption DEF files, task, running, ops
  <1>1. CASE UNCHANGED vars
    BY <1>1 DEF vars
  <1>2. CASE \E o \in Operation : Operate(o) \/ RestartStep(o)
    <2> PICK o \in Operation : Operate(o) \/ RestartStep(o)
      BY <1>2
    <2>1. CASE \/ Acquire(o) \/ AcquireFails(o) \/ CheckRollback(o)
               \/ RefuseRollback(o) \/ ensure_manager_from_current(o)
               \/ ControllerFails(o) \/ AlreadyCurrent(o)
               \/ StartInstalling(o)
      BY <2>1 DEF Acquire, AcquireFails, CheckRollback, is_installed,
         write_status, ROLLING_BACK, RefuseRollback, Fail, FAILED,
         ensure_manager_from_current, ControllerFails, AlreadyCurrent,
         installed_version, newer, Ready, StartInstalling, INSTALLING
    <2>2. CASE \/ CompareFails(o)
               \/ (\E floor \in Version : BootKeeps(o, floor))
               \/ (\E floor \in Version : BootPlans(o, floor))
               \/ (\E floor \in Version : BootRefuses(o, floor))
               \/ Publish(o) \/ PublishFails(o)
               \/ activate_manager_if_newer(o)
      BY <2>2 DEF CompareFails, newer, installed_version, Fail, write_status,
         FAILED, BootKeeps, compatible, Ready, BootPlans, INSTALLING,
         BootRefuses, Publish, PublishFails, activate_manager_if_newer,
         MayMoveLinks, NextStep
    <2>3. CASE activate(o)
      BY <2>3 DEF activate, MayMoveLinks
    <2>4. CASE \/ ActivateFails(o) \/ restart(o) \/ RestartFails(o)
               \/ Finish(o) \/ FinishFails(o)
      BY <2>4 DEF ActivateFails, MayMoveLinks, Fail, write_status, FAILED,
         restart, SpawnRestart, RestartFails, Finish, ChildAt, Reap, Ready,
         FinishFails
    <2>5. CASE Restore(o)
      BY <2>5 DEF Restore
    <2>6. CASE \/ RestoreFails(o) \/ Restored(o) \/ BootReady(o)
               \/ ReadyFails(o) \/ BootRestarted(o) \/ BootStartsAgain(o)
               \/ Release(o) \/ Report(o)
      BY <2>6 DEF RestoreFails, Restored, ChildAt, Reap, BootReady,
         write_status, Ready, SpawnRestart, ReadyFails, Fail, FAILED,
         BootRestarted, BootStartsAgain, Release, End, Report
    <2>7. CASE \/ Kill(o) \/ Interrupted(o) \/ StopDaemon(o) \/ StopFails(o)
               \/ EnsureDaemon(o) \/ EnsureFails(o)
      BY <2>7 DEF Kill, End, Activated, ChildAt, Interrupted, write_status,
         FAILED, StopDaemon, ChildGoes, StopFails, EnsureDaemon, StartDaemon,
         EnsureFails
    <2>8. QED
      BY <2>1, <2>2, <2>3, <2>4, <2>5, <2>6, <2>7 DEF Operate, RestartStep
  <1>3. CASE \E v \in Version : CommandEnsures(v)
    BY <1>3 DEF CommandEnsures, StartDaemon
  <1>4. CASE DaemonStops
    BY <1>4 DEF DaemonStops
  <1>5. QED
    BY <1>1, <1>2, <1>3, <1>4 DEF Next

(* Only two steps move the controller.                                     *)
LEMMA ControllerMoves ==
    [Next]_vars =>
        \/ UNCHANGED manager
        \/ \E o \in Operation : ensure_manager_from_current(o)
                                  \/ activate_manager_if_newer(o)
  <1> SUFFICES ASSUME [Next]_vars
               PROVE  \/ UNCHANGED manager
                      \/ \E o \in Operation : ensure_manager_from_current(o)
                                               \/ activate_manager_if_newer(o)
    OBVIOUS
  <1> USE VersionAssumption DEF files, task, running, ops
  <1>1. CASE UNCHANGED vars
    BY <1>1 DEF vars
  <1>2. CASE \E o \in Operation : Operate(o) \/ RestartStep(o)
    <2> PICK o \in Operation : Operate(o) \/ RestartStep(o)
      BY <1>2
    <2>1. CASE \/ Acquire(o) \/ AcquireFails(o) \/ CheckRollback(o)
               \/ RefuseRollback(o)
      BY <2>1 DEF Acquire, AcquireFails, CheckRollback, is_installed,
         write_status, ROLLING_BACK, RefuseRollback, Fail, FAILED
    <2>2. CASE ensure_manager_from_current(o)
      BY <2>2 DEF ensure_manager_from_current
    <2>3. CASE \/ ControllerFails(o) \/ AlreadyCurrent(o)
               \/ StartInstalling(o) \/ CompareFails(o)
               \/ (\E floor \in Version : BootKeeps(o, floor))
               \/ (\E floor \in Version : BootPlans(o, floor))
               \/ (\E floor \in Version : BootRefuses(o, floor))
               \/ Publish(o)
      BY <2>3 DEF ControllerFails, Fail, write_status, FAILED,
         AlreadyCurrent, installed_version, newer, Ready, StartInstalling,
         INSTALLING, CompareFails, BootKeeps, compatible, BootPlans,
         BootRefuses, Publish
    <2>4. CASE PublishFails(o)
      BY <2>4 DEF PublishFails, Fail, write_status, FAILED
    <2>5. CASE activate_manager_if_newer(o)
      BY <2>5 DEF activate_manager_if_newer, MayMoveLinks, NextStep
    <2>6. CASE \/ activate(o) \/ ActivateFails(o) \/ restart(o)
               \/ RestartFails(o) \/ Finish(o) \/ FinishFails(o)
               \/ Restore(o) \/ RestoreFails(o)
      BY <2>6 DEF activate, MayMoveLinks, ActivateFails, Fail, write_status,
         FAILED, restart, SpawnRestart, RestartFails, Finish, ChildAt, Reap,
         Ready, FinishFails, Restore, RestoreFails
    <2>7. CASE \/ Restored(o) \/ BootReady(o) \/ ReadyFails(o)
               \/ BootRestarted(o) \/ BootStartsAgain(o) \/ Release(o)
               \/ Report(o) \/ Kill(o)
      BY <2>7 DEF Restored, ChildAt, Reap, BootReady, write_status, Ready,
         SpawnRestart, ReadyFails, Fail, FAILED, BootRestarted,
         BootStartsAgain, Release, End, Report, Kill, Activated
    <2>8. CASE \/ Interrupted(o) \/ StopDaemon(o) \/ StopFails(o)
               \/ EnsureDaemon(o) \/ EnsureFails(o)
      BY <2>8 DEF Interrupted, write_status, FAILED, Activated, StopDaemon,
         ChildAt, ChildGoes, StopFails, EnsureDaemon, StartDaemon,
         EnsureFails
    <2>9. QED
      BY <2>1, <2>2, <2>3, <2>4, <2>5, <2>6, <2>7, <2>8 DEF Operate,
         RestartStep
  <1>3. CASE \E v \in Version : CommandEnsures(v)
    BY <1>3 DEF CommandEnsures, StartDaemon
  <1>4. CASE DaemonStops
    BY <1>4 DEF DaemonStops
  <1>5. QED
    BY <1>1, <1>2, <1>3, <1>4 DEF Next

-----------------------------------------------------------------------------
(* It holds always.                                                        *)
THEOREM Invariance == Spec => []IInv
  <1>1. IInv /\ [Next]_vars => IInv'
    BY TypeStep, RolesStep, PlannedStep, KeptStep, SelectedStep, AnnouncedStep,
       FreshStep DEF IInv
  <1>2. QED
    BY InitIInv, <1>1, PTL DEF Spec

(* The variables keep their types.                                         *)
THEOREM TypeCorrect == Spec => []TypeOK
  <1>1. IInv => TypeOK
    BY DEF IInv
  <1>2. QED
    BY Invariance, <1>1, PTL

(* "current" and "manager" always name installed versions, the latter one  *)
(* that can manage, whatever fails and whoever dies.                       *)
THEOREM SelectionsStayInstalled == Spec => []SelectionsAreInstalled
  <1>1. IInv => SelectionsAreInstalled
    BY DEF IInv, Planned
  <1>2. QED
    BY Invariance, <1>1, PTL

(* install-status says READY of the selected version only.                 *)
THEOREM ReadyIsTrue == Spec => []ReadyNamesCurrent
  <1>1. IInv => ReadyNamesCurrent
    BY DEF IInv
  <1>2. QED
    BY Invariance, <1>1, PTL

(* A failed update or rollback leaves the selection as it was.             *)
THEOREM FailureIsUndone == Spec => []FailureKeepsPrevious
  <1>1. IInv => FailureKeepsPrevious
    BY DEF IInv, Owner, Kept, FailureKeepsPrevious
  <1>2. QED
    BY Invariance, <1>1, PTL

(* When nothing is going on the daemon is of the selected version, or it   *)
(* is known why not.                                                       *)
THEOREM DaemonFollows == Spec => []DaemonIsCurrent
  <1>1. IInv => DaemonIsCurrent
    BY VersionAssumption DEF IInv, Fresh, Restarting, ChildAt, DaemonIsCurrent
  <1>2. QED
    BY Invariance, <1>1, PTL

(* No step replaces the controller by an older one.                        *)
LEMMA ControllerStep ==
    IInv /\ [Next]_vars => (manager # None => manager' # None /\ manager' >= manager)
  <1> SUFFICES ASSUME IInv, [Next]_vars, manager # None
               PROVE  manager' # None /\ manager' >= manager
    OBVIOUS
  <1> USE VersionAssumption DEF IInv, TypeOK, Optional
  <1>1. manager \in Nat
    OBVIOUS
  <1>2. CASE \E o \in Operation : ensure_manager_from_current(o)
    BY <1>1, <1>2 DEF ensure_manager_from_current
  <1>3. CASE \E o \in Operation : activate_manager_if_newer(o)
    <2> PICK o \in Operation : activate_manager_if_newer(o)
      BY <1>3
    <2>1. want[o] \in Nat /\ want[o] # None
      BY DEF activate_manager_if_newer, At, Roles
    <2>2. manager' = manager \/ (manager' = want[o] /\ manager < want[o])
      BY DEF activate_manager_if_newer
    <2>3. QED
      BY <1>1, <2>1, <2>2
  <1>4. QED
    BY <1>1, <1>2, <1>3, ControllerMoves

(* No step selects an older version, except a rollback's, the repair of a  *)
(* version of another launcher protocol, and the one that undoes an        *)
(* operation's own.                                                        *)
LEMMA SelectionStep ==
    IInv /\ [Next]_vars =>
        (current # None /\ current' # current =>
            (current' # None /\ current' > current) \/ SelectionGoesBack)
  <1> SUFFICES ASSUME IInv, [Next]_vars, current # None, current' # current
               PROVE  (current' # None /\ current' > current) \/ SelectionGoesBack
    OBVIOUS
  <1> USE VersionAssumption
          DEF IInv, TypeOK, Optional, At, IsBoot, Verbs, SelectionGoesBack
  <1>1. CASE \E o \in Operation : activate(o)
    <2> PICK o \in Operation : activate(o)
      BY <1>1
    <2>1. lock = o /\ current = was[o] /\ current' = want[o]
      BY DEF activate, MayMoveLinks, Owner, Kept
    <2>2. \/ verb[o] = "rollback" \/ was[o] = None \/ was[o] < want[o]
          \/ verb[o] = "bootstrap" /\ ~Fits(o, was[o])
      BY DEF activate, Roles, Kept
    <2>3. want[o] \in Nat /\ want[o] # None
      BY DEF activate, Roles
    <2>4. current # None => current \in Nat
      OBVIOUS
    <2>5. QED
      BY <2>1, <2>2, <2>3, <2>4 DEF activate
  <1>2. CASE \E o \in Operation : Restore(o)
    BY <1>2 DEF Restore, Roles, Owner, Kept
  <1>3. QED
    BY <1>1, <1>2, SelectionMoves

(* However operations interleave, fail and die, only a rollback or the     *)
(* repair of a version of another launcher protocol selects an older       *)
(* version, and nothing brings an older controller.                        *)
THEOREM NothingElseGoesBack == Spec => OnlyRollbackGoesBack
  <1>1. IInv /\ [Next]_vars =>
          /\ current # None /\ current' # current =>
                (current' # None /\ current' > current) \/ SelectionGoesBack
          /\ manager # None => manager' # None /\ manager' >= manager
    BY ControllerStep, SelectionStep
  <1>2. QED
    BY Invariance, <1>1, PTL DEF Spec, OnlyRollbackGoesBack

=============================================================================
