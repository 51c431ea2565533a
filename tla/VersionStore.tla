---------------------------- MODULE VersionStore ----------------------------
(***************************************************************************)
(* Which version of tmux-agent is installed, which one is selected, and    *)
(* which one runs (src/update.rs, scripts/bootstrap).                      *)
(*                                                                         *)
(* A version is a directory that appears under versions/ by one rename and *)
(* never changes.  The link "current" selects what commands and daemons    *)
(* run, the link "manager" the controller that runs update and rollback;   *)
(* install-status tells other programs how things stand.  An operation is  *)
(* one run of `update`, `rollback` or scripts/bootstrap.  It holds the     *)
(* installation lock from its first look at the links to its end, but it   *)
(* can be killed between any two of its steps, any of its files can fail,  *)
(* and the daemon is restarted by a process of its own, which outlives it. *)
(* Commands that were started earlier, with an older binary, start daemons *)
(* as well.                                                                *)
(*                                                                         *)
(* A checkout and a binary of one launcher protocol do not take a version  *)
(* of another for valid: update and rollback refuse to work beside one,    *)
(* and bootstrap replaces it as "current" by the version of its checkout.  *)
(*                                                                         *)
(* Abstractions: a version is a number; the lock excludes (InstallLock     *)
(* says when it does) and is free again when its owner dies; downloading,  *)
(* verifying and extracting succeed or fail as a whole; a published        *)
(* directory stays valid.  The import of a directly installed binary by    *)
(* bootstrap is left out.  Starting and stopping a daemon is one step each *)
(* (Lifecycle has the steps between).                                      *)
(***************************************************************************)
EXTENDS Integers

CONSTANTS
    Version,    \* semantic versions, in their order
    Managing,   \* the versions with management_protocol=1 in COMPATIBILITY
    Launcher,   \* the launcher_protocol of each version's COMPATIBILITY
    Operation,  \* slots for runs of update, rollback and bootstrap
    Faults,     \* what may go wrong: "kill", "signal", "io", "network", "ipc"
    None

(* What an operation does; "adopt" is the bootstrap that only installs a   *)
(* controller.                                                             *)
Verbs == {"update", "rollback", "bootstrap", "adopt"}

(* A `daemon restart` process: whose binary it runs, and how far it is.    *)
Restarts == [exe : Version, at : {"stop", "start", "ok", "failed"}]

ASSUME VersionAssumption ==
    /\ Version \subseteq Nat
    /\ Managing \subseteq Version
    /\ Launcher \in [Version -> Nat]
    /\ None \notin Version \cup Operation \cup Restarts \cup Verbs
    /\ Faults \subseteq {"kill", "signal", "io", "network", "ipc"}

VARIABLES
    store,      \* the versions under versions/
    current,    \* the version "current" links to, or None
    manager,    \* the version "manager" links to, or None
    status,     \* the version install-status says is READY, or None: it says
                \* MISSING, INSTALLING, ROLLING_BACK or FAILED
    lock,       \* the operation that holds .install.lock
    pc, verb, want,     \* per operation: its step, what it does, to which
                        \* version
    was,        \* per operation: "current" when it got the lock
    protocol,   \* per operation: the launcher protocol of the checkout or
                \* binary that runs it
    child,      \* per operation: its `daemon restart` process, or None
    daemon,     \* the version of the daemon that serves, or None
    unsaid,     \* history: bootstrap moved "current" after install-status was
                \* written, or wrote that without the lock
    excused     \* history: the daemon need not be of the current version

files == <<store, current, manager, status>>
task == <<verb, want, was, protocol>>
ops == <<lock, pc, task>>
running == <<child, daemon, excused>>
vars == <<files, ops, running, unsaid>>

Steps == {"idle", "check", "controller", "compare", "fetch", "manager",
          "activate", "restart", "wait", "restore", "again", "ready",
          "bootwait", "bootagain", "done", "failed", "lost", "report"}

Optional(values) == values \cup {None}

(* Those in which an operation has moved "current" and not finished.       *)
Activated == {"restart", "wait", "restore", "again", "ready", "bootwait",
              "bootagain", "lost"}

(* What install-status says: READY of a version, or that none is ready.    *)
Ready(v) == v
INSTALLING == None
ROLLING_BACK == None
FAILED == None

-----------------------------------------------------------------------------
(* Steps of an operation.                                                  *)

At(o, step) == pc[o] = step
Goto(o, step) == pc' = [pc EXCEPT ![o] = step]
IsBoot(o) == verb[o] \in {"bootstrap", "adopt"}

(* write_status: a temporary file and a rename.                            *)
write_status(o, value) ==
    /\ status' = value
    /\ unsaid' = (value # None /\ lock # o)

(* An error ends an update or rollback, which says so when the lock is     *)
(* free again.  bootstrap says so at once, or when it exits; if it had     *)
(* moved "current", the daemon stays the one of before.                    *)
Fail(o) ==
    /\ Goto(o, "failed")
    /\ \/ IsBoot(o) /\ write_status(o, FAILED)
       \/ UNCHANGED <<status, unsaid>>
    /\ excused' = (excused \/ (At(o, "ready") /\ current # was[o]))
    /\ UNCHANGED <<store, current, manager, lock, task, child, daemon>>

(* The operation ends and forgets what it was about.                       *)
End(o, step) ==
    /\ Goto(o, step)
    /\ verb' = [verb EXCEPT ![o] = None]
    /\ want' = [want EXCEPT ![o] = None]
    /\ was' = [was EXCEPT ![o] = None]
    /\ protocol' = [protocol EXCEPT ![o] = None]

(* A command gets the lock and takes its first look at the links.  What it *)
(* was told to do did not matter before.                                   *)
Acquire(o) ==
    /\ At(o, "idle")
    /\ child[o] = None
    /\ lock = None
    /\ lock' = o
    /\ \E kind \in {"update", "rollback", "bootstrap"}, v \in Version :
          /\ verb' = [verb EXCEPT ![o] = kind]
          /\ want' = [want EXCEPT ![o] = v]
          /\ Goto(o, IF kind = "update" THEN "controller" ELSE "check")
    /\ was' = [was EXCEPT ![o] = current]
    /\ \E runs \in Version : protocol' = [protocol EXCEPT ![o] = Launcher[runs]]
    /\ UNCHANGED <<files, running, unsaid>>

(* Thirty seconds pass, or the store cannot be created: it never held the  *)
(* lock and still writes FAILED.                                           *)
AcquireFails(o) ==
    /\ At(o, "idle")
    /\ child[o] = None
    /\ lock # None \/ "io" \in Faults
    /\ Goto(o, "report")
    /\ UNCHANGED <<files, lock, task, running, unsaid>>

(* A bug to look for: any directory name will do.                          *)
is_installed_unchecked(v) == TRUE

is_installed(v) == v \in store

(* A version that the operation takes for valid, or none.                  *)
Fits(o, v) == v # None => Launcher[v] = protocol[o]

(* perform_rollback goes on only to an installed version that is not the   *)
(* current one, and with a controller in place.  All three have to be      *)
(* valid.                                                                  *)
CheckRollback(o) ==
    /\ At(o, "check")
    /\ verb[o] = "rollback"
    /\ was[o] # None /\ manager # None
    /\ want[o] # was[o]
    /\ is_installed(want[o])
    /\ Fits(o, was[o]) /\ Fits(o, manager) /\ Fits(o, want[o])
    /\ write_status(o, ROLLING_BACK)
    /\ Goto(o, "activate")
    /\ UNCHANGED <<store, current, manager, lock, task, running>>

RefuseRollback(o) ==
    /\ At(o, "check")
    /\ verb[o] = "rollback"
    /\ \/ was[o] = None \/ manager = None
       \/ want[o] = was[o]
       \/ ~is_installed(want[o])
       \/ ~(Fits(o, was[o]) /\ Fits(o, manager) /\ Fits(o, want[o]))
       \/ "io" \in Faults
    /\ Fail(o)

(* ensure_manager_from_current: a store without a controller gets one from *)
(* the current version if that can be one.                                 *)
ensure_manager_from_current(o) ==
    /\ At(o, "controller")
    /\ Fits(o, was[o]) /\ Fits(o, manager)
    /\ manager' = IF manager = None /\ was[o] \in Managing
                  THEN was[o] ELSE manager
    /\ Goto(o, "compare")
    /\ UNCHANGED <<store, current, status, lock, task, running, unsaid>>

ControllerFails(o) ==
    /\ At(o, "controller")
    /\ "io" \in Faults \/ ~(Fits(o, was[o]) /\ Fits(o, manager))
    /\ Fail(o)

(* Without a current version the running binary's counts as installed.     *)
RunningVersion(o) == {v \in Version : Launcher[v] = protocol[o]}

installed_version(o, running_version) ==
    IF was[o] # None THEN was[o] ELSE running_version

newer(requested, installed) == requested > installed

(* Nothing newer is wanted: nothing is touched and nothing restarted.      *)
AlreadyCurrent(o) ==
    /\ At(o, "compare")
    /\ manager # None
    /\ \E running_version \in RunningVersion(o) :
          LET installed == installed_version(o, running_version)
          IN  /\ ~newer(want[o], installed)
              /\ write_status(o, Ready(installed))
    /\ Goto(o, "done")
    /\ UNCHANGED <<store, current, manager, lock, task, running>>

(* A bug to look for: the installation is not announced.                   *)
StartInstalling_quietly(o) ==
    /\ At(o, "compare")
    /\ \E running_version \in RunningVersion(o) :
          newer(want[o], installed_version(o, running_version))
    /\ Goto(o, "fetch")
    /\ UNCHANGED <<files, lock, task, running, unsaid>>

StartInstalling(o) ==
    /\ At(o, "compare")
    /\ \E running_version \in RunningVersion(o) :
          newer(want[o], installed_version(o, running_version))
    /\ write_status(o, INSTALLING)
    /\ Goto(o, "fetch")
    /\ UNCHANGED <<store, current, manager, lock, task, running>>

(* No controller to go on with, or the release cannot be discovered.       *)
CompareFails(o) ==
    /\ At(o, "compare")
    /\ \/ manager = None /\ \E running_version \in RunningVersion(o) :
              ~newer(want[o], installed_version(o, running_version))
       \/ Faults \cap {"network", "io"} # {}
    /\ Fail(o)

(* Whether bootstrap leaves the current version alone; "floor" is the      *)
(* least version its checkout is compatible with.                          *)
compatible(o, floor) ==
    was[o] # None /\ Launcher[was[o]] = protocol[o] /\ was[o] >= floor

(* With a controller in place there is nothing to do then.                 *)
BootKeeps(o, floor) ==
    /\ At(o, "check")
    /\ verb[o] = "bootstrap"
    /\ compatible(o, floor)
    /\ manager # None /\ Fits(o, manager)
    /\ write_status(o, Ready(was[o]))
    /\ Goto(o, "done")
    /\ UNCHANGED <<store, current, manager, lock, task, running>>

(* Otherwise the version of the checkout is installed, as the current one  *)
(* or, to adopt the store, only as its controller.  A version that is      *)
(* there already is neither fetched nor announced.                         *)
BootPlans(o, floor) ==
    /\ At(o, "check")
    /\ verb[o] = "bootstrap"
    /\ want[o] >= floor
    /\ Fits(o, manager)
    /\ ~compatible(o, floor) \/ manager = None
    /\ verb' = [verb EXCEPT ![o] = IF compatible(o, floor) THEN "adopt" ELSE @]
    /\ IF want[o] \in store \cap Managing /\ Fits(o, want[o])
       THEN /\ Goto(o, "manager")
            /\ UNCHANGED <<status, unsaid>>
       ELSE /\ Goto(o, "fetch")
            /\ write_status(o, INSTALLING)
    /\ UNCHANGED <<store, current, manager, lock, want, was, protocol, running>>

(* A controller of another launcher protocol is not replaced.              *)
BootRefuses(o, floor) ==
    /\ At(o, "check")
    /\ verb[o] = "bootstrap"
    /\ \/ want[o] < floor /\ (~compatible(o, floor) \/ manager = None)
       \/ ~Fits(o, manager)
       \/ "io" \in Faults
    /\ Fail(o)

(* Download, verify, extract, validate, and publish by a rename; or find a *)
(* valid directory of that name.  A release has to be a controller of the  *)
(* operation's launcher protocol.                                          *)
Publish(o) ==
    /\ At(o, "fetch")
    /\ want[o] \in Managing /\ Fits(o, want[o])
    /\ store' = store \cup {want[o]}
    /\ Goto(o, "manager")
    /\ UNCHANGED <<current, manager, status, lock, task, running, unsaid>>

PublishFails(o) ==
    /\ At(o, "fetch")
    /\ \/ want[o] \notin Managing \/ ~Fits(o, want[o])
       \/ Faults \cap {"network", "io"} # {}
    /\ Fail(o)

(* A bug to look for: what it has planned it does.                         *)
MayMoveLinks_unasked(o) == TRUE

(* bootstrap moves a link only if it owns the lock at that time.           *)
MayMoveLinks(o) == IsBoot(o) => lock = o

NextStep(o) == IF verb[o] = "adopt" THEN "ready" ELSE "activate"

(* Who adopts found no controller when it had the lock.                    *)
activate_manager_if_newer(o) ==
    /\ At(o, "manager")
    /\ verb[o] = "adopt" => MayMoveLinks(o)
    /\ IF manager = None \/ manager < want[o]
       THEN MayMoveLinks(o) /\ manager' = want[o]
       ELSE UNCHANGED manager
    /\ Goto(o, NextStep(o))
    /\ UNCHANGED <<store, current, status, lock, task, running, unsaid>>

(* The selection moves by one rename.                                      *)
activate(o) ==
    /\ At(o, "activate")
    /\ MayMoveLinks(o)
    /\ current' = want[o]
    /\ unsaid' = (unsaid \/ (IsBoot(o) /\ current # want[o]))
    /\ Goto(o, IF IsBoot(o) THEN "ready" ELSE "restart")
    /\ UNCHANGED <<store, manager, status, lock, task, running>>

ActivateFails(o) ==
    /\ At(o, "manager") \/ At(o, "activate")
    /\ "io" \in Faults \/ ~MayMoveLinks(o)
    /\ Fail(o)

-----------------------------------------------------------------------------
(* Restarting the daemon: `current daemon restart`, a process of its own.  *)

SpawnRestart(o) ==
    child' = [child EXCEPT ![o] = [exe |-> current, at |-> "stop"]]

(* CommandRestarter::restart, after the link was read back.                *)
restart(o) ==
    /\ At(o, "restart")
    /\ SpawnRestart(o)
    /\ Goto(o, "wait")
    /\ UNCHANGED <<files, lock, task, daemon, excused, unsaid>>

(* The link cannot be read back, or the new binary does not run.           *)
RestartFails(o) ==
    /\ "io" \in Faults
    /\ At(o, "restart")
    /\ Goto(o, "restore")
    /\ UNCHANGED <<files, lock, task, running, unsaid>>

ChildAt(o, where) == child[o] # None /\ child[o].at = where

(* Nobody waits for the result of the restart of a killed operation.       *)
ChildGoes(o, where) ==
    IF At(o, "idle") /\ where \in {"ok", "failed"}
    THEN child' = [child EXCEPT ![o] = None]
    ELSE child' = [child EXCEPT ![o].at = where]

(* Whoever starts a daemon runs the binary it was started with; on systems *)
(* that do not resolve the link, the binary that is selected now.          *)
StartDaemon(exe) ==
    \E v \in {exe, current} \ {None} :
        /\ daemon' = v
        /\ excused' = (v # current)

(* The daemon is told to stop and does, or none answers.                   *)
StopDaemon(o) ==
    /\ ChildAt(o, "stop")
    /\ daemon' = None
    /\ excused' = FALSE
    /\ ChildGoes(o, "start")
    /\ UNCHANGED <<files, ops, unsaid>>

(* It does not answer, so that it is taken for absent; or it does not stop *)
(* in time.                                                                *)
StopFails(o) ==
    /\ "ipc" \in Faults
    /\ ChildAt(o, "stop")
    /\ daemon # None
    /\ excused' = TRUE
    /\ ChildGoes(o, "start") \/ ChildGoes(o, "failed")
    /\ UNCHANGED <<files, ops, daemon, unsaid>>

(* ensure_running: a daemon that answers is good enough.                   *)
EnsureDaemon(o) ==
    /\ ChildAt(o, "start")
    /\ IF daemon # None THEN UNCHANGED <<daemon, excused>>
                        ELSE StartDaemon(child[o].exe)
    /\ \/ ChildGoes(o, "ok")
       \/ "ipc" \in Faults /\ ChildGoes(o, "failed")
    /\ UNCHANGED <<files, ops, unsaid>>

EnsureFails(o) ==
    /\ "ipc" \in Faults
    /\ ChildAt(o, "start")
    /\ ChildGoes(o, "failed")
    /\ UNCHANGED <<files, ops, daemon, excused, unsaid>>

Reap(o) == child' = [child EXCEPT ![o] = None]

(* activate_and_restart succeeded: READY.                                  *)
Finish(o) ==
    /\ At(o, "wait")
    /\ ChildAt(o, "ok")
    /\ Reap(o)
    /\ write_status(o, Ready(want[o]))
    /\ Goto(o, "done")
    /\ UNCHANGED <<store, current, manager, lock, task, daemon, excused>>

(* A bug to look for: a failed restart is only reported.                   *)
FinishFails_reporting(o) ==
    /\ At(o, "wait")
    /\ ChildAt(o, "failed") \/ (ChildAt(o, "ok") /\ "io" \in Faults)
    /\ Reap(o)
    /\ Goto(o, "failed")
    /\ UNCHANGED <<files, lock, task, daemon, excused, unsaid>>

FinishFails(o) ==
    /\ At(o, "wait")
    /\ ChildAt(o, "failed") \/ (ChildAt(o, "ok") /\ "io" \in Faults)
    /\ Reap(o)
    /\ Goto(o, "restore")
    /\ UNCHANGED <<files, lock, task, daemon, excused, unsaid>>

(* A bug to look for: the daemon stays the one of the failed version.      *)
RestoreQuietly(o) ==
    /\ At(o, "restore")
    /\ current' = was[o]
    /\ Goto(o, "failed")
    /\ UNCHANGED <<store, manager, status, lock, task, running, unsaid>>

(* The previous selection comes back, and its daemon if there was one.     *)
Restore(o) ==
    /\ At(o, "restore")
    /\ current' = was[o]
    /\ IF was[o] = None
       THEN Goto(o, "failed") /\ UNCHANGED child
       ELSE /\ Goto(o, "again")
            /\ child' = [child EXCEPT ![o] = [exe |-> was[o], at |-> "stop"]]
    /\ UNCHANGED <<store, manager, status, lock, task, daemon, excused, unsaid>>

(* Restoring fails too: the new version stays selected.                    *)
RestoreFails(o) ==
    /\ "io" \in Faults
    /\ At(o, "restore")
    /\ excused' = TRUE
    /\ Goto(o, "lost")
    /\ UNCHANGED <<files, lock, task, child, daemon, unsaid>>

Restored(o) ==
    /\ At(o, "again")
    /\ ChildAt(o, "ok") \/ ChildAt(o, "failed")
    /\ Reap(o)
    /\ Goto(o, "failed")
    /\ UNCHANGED <<files, lock, task, daemon, excused, unsaid>>

(* bootstrap reports before it restarts, only if the selection moved and   *)
(* unless it was told not to.                                              *)
BootReady(o) ==
    /\ At(o, "ready")
    /\ write_status(o, Ready(current))
    /\ \/ /\ current # was[o]
          /\ SpawnRestart(o)
          /\ Goto(o, "bootwait")
          /\ UNCHANGED excused
       \/ /\ excused' = (excused \/ current # was[o])
          /\ Goto(o, "done")
          /\ UNCHANGED child
    /\ UNCHANGED <<store, current, manager, lock, task, daemon>>

ReadyFails(o) ==
    /\ "io" \in Faults
    /\ At(o, "ready")
    /\ Fail(o)

(* When the restart fails it tries `daemon start` once and goes on.        *)
BootRestarted(o) ==
    /\ \/ At(o, "bootwait") /\ ChildAt(o, "ok")
       \/ At(o, "bootagain") /\ (ChildAt(o, "ok") \/ ChildAt(o, "failed"))
    /\ Reap(o)
    /\ Goto(o, "done")
    /\ UNCHANGED <<files, lock, task, daemon, excused, unsaid>>

BootStartsAgain(o) ==
    /\ At(o, "bootwait") /\ ChildAt(o, "failed")
    /\ child' = [child EXCEPT ![o] = [exe |-> current, at |-> "start"]]
    /\ Goto(o, "bootagain")
    /\ UNCHANGED <<files, lock, task, daemon, excused, unsaid>>

-----------------------------------------------------------------------------
(* The lock is released first, and a failure reported afterwards.          *)
Release(o) ==
    /\ At(o, "done") \/ At(o, "failed") \/ At(o, "lost")
    /\ lock' = IF lock = o THEN None ELSE lock
    /\ End(o, IF At(o, "done") THEN "idle" ELSE "report")
    /\ UNCHANGED <<files, running, unsaid>>

(* The report may fail as well, which nobody minds.                        *)
Report(o) ==
    /\ At(o, "report")
    /\ \/ write_status(o, FAILED)
       \/ "io" \in Faults /\ UNCHANGED <<status, unsaid>>
    /\ Goto(o, "idle")
    /\ UNCHANGED <<store, current, manager, lock, task, running>>

(* An operation is killed; its lock is recovered by whoever comes next,    *)
(* and its restart goes on.                                                *)
Kill(o) ==
    /\ "kill" \in Faults
    /\ ~At(o, "idle")
    /\ End(o, "idle")
    /\ lock' = IF lock = o THEN None ELSE lock
    /\ excused' = (excused \/ pc[o] \in Activated)
    /\ child' = IF ChildAt(o, "ok") \/ ChildAt(o, "failed")
                THEN [child EXCEPT ![o] = None] ELSE child
    /\ UNCHANGED <<files, daemon, unsaid>>

(* A signal makes bootstrap give the lock back, remove its downloads,      *)
(* perhaps report FAILED, and then go on where it was.                     *)
Interrupted(o) ==
    /\ "signal" \in Faults
    /\ IsBoot(o)
    /\ lock = o /\ pc[o] \notin {"done", "failed"}
    /\ lock' = None
    /\ pc' = [pc EXCEPT ![o] = IF @ = "fetch" THEN "failed" ELSE @]
    /\ \/ write_status(o, FAILED)
       \/ UNCHANGED <<status, unsaid>>
    /\ excused' = (excused \/ pc[o] \in Activated)
    /\ UNCHANGED <<store, current, manager, task, child, daemon>>

(* Another command ensures that a daemon runs.  It may have been started   *)
(* long ago and has the binary that was selected then.                     *)
CommandEnsures(v) ==
    /\ v \in store
    /\ daemon = None
    /\ StartDaemon(v)
    /\ UNCHANGED <<files, ops, child, unsaid>>

(* The daemon stops: told to, killed, or without a tmux server.            *)
DaemonStops ==
    /\ daemon # None
    /\ daemon' = None
    /\ excused' = FALSE
    /\ UNCHANGED <<files, ops, child, unsaid>>

(* A fresh store, or one of an earlier installer, which had no controller. *)
Init ==
    /\ \E v \in Version \cup {None} :
          /\ current = v
          /\ store = {v} \ {None}
          /\ daemon \in {None, v}
    /\ manager = None
    /\ status = None
    /\ lock = None
    /\ pc = [o \in Operation |-> "idle"]
    /\ verb = [o \in Operation |-> None]
    /\ want = [o \in Operation |-> None]
    /\ was = [o \in Operation |-> None]
    /\ protocol = [o \in Operation |-> None]
    /\ child = [o \in Operation |-> None]
    /\ unsaid = FALSE
    /\ excused = FALSE

Operate(o) ==
    \/ Acquire(o) \/ AcquireFails(o)
    \/ CheckRollback(o) \/ RefuseRollback(o)
    \/ ensure_manager_from_current(o) \/ ControllerFails(o)
    \/ AlreadyCurrent(o) \/ StartInstalling(o) \/ CompareFails(o)
    \/ \E floor \in Version :
          BootKeeps(o, floor) \/ BootPlans(o, floor) \/ BootRefuses(o, floor)
    \/ Publish(o) \/ PublishFails(o)
    \/ activate_manager_if_newer(o) \/ activate(o) \/ ActivateFails(o)
    \/ restart(o) \/ RestartFails(o)
    \/ Finish(o) \/ FinishFails(o)
    \/ Restore(o) \/ RestoreFails(o) \/ Restored(o)
    \/ BootReady(o) \/ ReadyFails(o) \/ BootRestarted(o) \/ BootStartsAgain(o)
    \/ Release(o) \/ Report(o) \/ Kill(o) \/ Interrupted(o)

RestartStep(o) ==
    \/ StopDaemon(o) \/ StopFails(o) \/ EnsureDaemon(o) \/ EnsureFails(o)

Next ==
    \/ \E o \in Operation : Operate(o) \/ RestartStep(o)
    \/ \E v \in Version : CommandEnsures(v)
    \/ DaemonStops

Spec == Init /\ [][Next]_vars

-----------------------------------------------------------------------------
(* Properties.                                                             *)

TypeOK ==
    /\ store \subseteq Version
    /\ current \in Optional(Version)
    /\ manager \in Optional(Version)
    /\ status \in Optional(Version)
    /\ lock \in Optional(Operation)
    /\ pc \in [Operation -> Steps]
    /\ verb \in [Operation -> Optional(Verbs)]
    /\ want \in [Operation -> Optional(Version)]
    /\ was \in [Operation -> Optional(Version)]
    /\ protocol \in [Operation -> Optional({Launcher[v] : v \in Version})]
    /\ child \in [Operation -> Optional(Restarts)]
    /\ daemon \in Optional(Version)
    /\ unsaid \in BOOLEAN
    /\ excused \in BOOLEAN

(* The links name installed versions, and the controller's one that can    *)
(* run update and rollback, also while operations fail or die half way.    *)
SelectionsAreInstalled ==
    /\ current \in Optional(store)
    /\ manager \in Optional(store \cap Managing)

(* install-status never says READY of another version than the selected    *)
(* one, except for the moment in which bootstrap has moved the selection,  *)
(* and when a bootstrap that has lost its lock writes it.                  *)
ReadyNamesCurrent ==
    status # None /\ ~unsaid /\ current # None => status = current

(* The selection goes back to an older version, or to none, only by a      *)
(* rollback, by an operation that undoes its own step, or by the bootstrap *)
(* of a checkout whose launcher protocol the selected version does not     *)
(* have, which "is repaired from that pinned fallback"                     *)
(* (docs/architecture.md:360): not by an older checkout of that protocol,  *)
(* not by restoring over what another operation has selected, not by a     *)
(* bootstrap that has lost its lock, nor by an update, of whatever         *)
(* protocol.  The controller is never replaced by an older one, by no      *)
(* operation and no failure.                                               *)
SelectionGoesBack ==
    \E o \in Operation :
        /\ lock = o
        /\ \/ At(o, "activate") /\ verb[o] = "rollback"
           \/ At(o, "activate") /\ verb[o] = "bootstrap" /\ ~Fits(o, current)
           \/ At(o, "restore") /\ current = want[o]

OnlyRollbackGoesBack ==
    [][/\ current # None /\ current' # current =>
              (current' # None /\ current' > current) \/ SelectionGoesBack
       /\ manager # None => manager' # None /\ manager' >= manager]_vars

(* An update or rollback that fails, at any step, leaves the selection it  *)
(* found, unless restoring it failed too.                                  *)
FailureKeepsPrevious ==
    \A o \in Operation :
        pc[o] = "failed" /\ ~IsBoot(o) => current = was[o]

(* When nothing is going on the daemon is of the selected version.  What   *)
(* excuses another one: it did not answer or stop, an older command        *)
(* started it, restoring failed, or bootstrap was told not to restart,     *)
(* failed or was killed after it had moved the selection.                  *)
DaemonIsCurrent ==
    (/\ lock = None /\ ~excused /\ current # None
     /\ \A o \in Operation : child[o] = None)
    => daemon \in {None, current}
=============================================================================
