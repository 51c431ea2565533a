---------------------------- MODULE InstallLock ----------------------------
(***************************************************************************)
(* The lock that serializes bootstrap, update, rollback and version        *)
(* listing (src/update.rs InstallLock; scripts/lib.sh and scripts/bootstrap *)
(* follow the same protocol): a directory, and in it a file with the       *)
(* process ID of the owner.  A waiter removes a lock it judges stale: one  *)
(* whose owner is gone, or that still names no owner after the waiter's    *)
(* grace.  Looking and removing are separate system calls, and each is an  *)
(* action here.                                                            *)
(*                                                                         *)
(* Abstractions: an installer acquires the lock once; process IDs are not  *)
(* used again; a pid file that is still empty names no owner, as a missing *)
(* one, and is part of the same step as its content; a write of it that    *)
(* fails leaves no file.                                                   *)
(***************************************************************************)
EXTENDS Integers

CONSTANTS
    Installer,      \* processes that take the lock
    Attempts,       \* times an installer tries before it gives up
    Grace,          \* attempts an installer grants a lock without an owner
    Faults,         \* what may go wrong: "killed", "disk"
    None

ASSUME InstallLockAssumption ==
    /\ Attempts \in Nat /\ Grace \in Nat
    /\ Faults \subseteq {"killed", "disk"}
    /\ None \notin Installer

VARIABLES
    dir,        \* .install.lock exists
    pid,        \* the owner its pid file names
    pc,         \* where each installer is
    attempt,    \* the attempts it has used
    saw,        \* the owner it read last
    met,        \* history: it found the lock taken by a living process
    killed,     \* history: the installers that were killed
    robbed      \* history: a living installer's lock was removed by another

vars == <<dir, pid, pc, attempt, saw, met, killed, robbed>>

(* From its mkdir to its rmdir an installer counts on the directory.       *)
Holding == {"made", "published", "owner", "drop_file", "drop_dir"}
Phases == {"idle", "mkdir", "read", "judge", "unlink", "rmdir", "done", "gone"}
          \cup Holding

Holder(p) == pc[p] \in Holding
Taken(p) == \E q \in Installer \ {p} : Holder(q)

Init ==
    /\ dir = FALSE
    /\ pid = None
    /\ pc = [p \in Installer |-> "idle"]
    /\ attempt = [p \in Installer |-> 0]
    /\ saw = [p \in Installer |-> None]
    /\ met = [p \in Installer |-> FALSE]
    /\ killed = {}
    /\ robbed = FALSE

-----------------------------------------------------------------------------
Goto(p, from, to) == pc[p] = from /\ pc' = [pc EXCEPT ![p] = to]
TryAgain(p) == attempt' = [attempt EXCEPT ![p] = @ + 1]

Begin(p) ==
    /\ Goto(p, "idle", "mkdir")
    /\ UNCHANGED <<dir, pid, attempt, saw, met, killed, robbed>>

(* A bug to look for: a directory that exists is as good as a new one.     *)
MakeDirectoryAll(p) ==
    /\ attempt[p] < Attempts
    /\ Goto(p, "mkdir", "made")
    /\ dir' = TRUE
    /\ UNCHANGED <<pid, attempt, saw, met, killed, robbed>>

MakeDirectory(p) ==
    /\ attempt[p] < Attempts
    /\ ~dir
    /\ Goto(p, "mkdir", "made")
    /\ dir' = TRUE
    /\ UNCHANGED <<pid, attempt, saw, met, killed, robbed>>

DirectoryExists(p) ==
    /\ attempt[p] < Attempts
    /\ dir
    /\ Goto(p, "mkdir", "read")
    /\ met' = [met EXCEPT ![p] = @ \/ Taken(p)]
    /\ UNCHANGED <<dir, pid, attempt, saw, killed, robbed>>

TimesOut(p) ==
    /\ attempt[p] = Attempts
    /\ Goto(p, "mkdir", "done")
    /\ UNCHANGED <<dir, pid, attempt, saw, met, killed, robbed>>

(* lock_is_stale reads the pid file, then asks the system for the process. *)
ReadOwner(p) ==
    /\ Goto(p, "read", "judge")
    /\ saw' = [saw EXCEPT ![p] = pid]
    /\ UNCHANGED <<dir, pid, attempt, met, killed, robbed>>

(* A bug to look for: a lock without an owner is never given up.           *)
lock_is_stale_owned(p) == saw[p] # None /\ pc[saw[p]] = "gone"

lock_is_stale(p) ==
    IF saw[p] = None THEN attempt[p] >= Grace ELSE pc[saw[p]] = "gone"

JudgeStale(p) ==
    /\ lock_is_stale(p)
    /\ Goto(p, "judge", "unlink")
    /\ UNCHANGED <<dir, pid, attempt, saw, met, killed, robbed>>

Wait(p) ==
    /\ ~lock_is_stale(p)
    /\ Goto(p, "judge", "mkdir")
    /\ TryAgain(p)
    /\ UNCHANGED <<dir, pid, saw, met, killed, robbed>>

RemoveStaleFile(p) ==
    /\ Goto(p, "unlink", "rmdir")
    /\ pid' = None
    /\ robbed' = (robbed \/ Taken(p))
    /\ UNCHANGED <<dir, attempt, saw, met, killed>>

(* rmdir fails on a directory with a file in it; the waiter goes on.       *)
RemoveStaleDirectory(p) ==
    /\ Goto(p, "rmdir", "mkdir")
    /\ dir' = (dir /\ pid # None)
    /\ robbed' = (robbed \/ Taken(p))
    /\ TryAgain(p)
    /\ UNCHANGED <<pid, saw, met, killed>>

(* The owner names itself; when its directory is gone the write fails.     *)
PublishOwner(p) ==
    /\ dir
    /\ Goto(p, "made", "published")
    /\ pid' = p
    /\ UNCHANGED <<dir, attempt, saw, met, killed, robbed>>

(* A bug to look for: only a lock that names this owner is dropped.        *)
PublishFailsOwned(p) ==
    /\ ~dir \/ "disk" \in Faults
    /\ Goto(p, "made", IF pid = p THEN "drop_file" ELSE "done")
    /\ UNCHANGED <<dir, pid, attempt, saw, met, killed, robbed>>

PublishFails(p) ==
    /\ ~dir \/ "disk" \in Faults
    /\ Goto(p, "made", "drop_file")
    /\ UNCHANGED <<dir, pid, attempt, saw, met, killed, robbed>>

(* chmod of the pid file, whoever it names by now.                         *)
ProtectOwner(p) ==
    /\ pid # None
    /\ Goto(p, "published", "owner")
    /\ UNCHANGED <<dir, pid, attempt, saw, met, killed, robbed>>

ProtectFails(p) ==
    /\ pid = None \/ "disk" \in Faults
    /\ Goto(p, "published", "drop_file")
    /\ UNCHANGED <<dir, pid, attempt, saw, met, killed, robbed>>

(* Drop: a published lock is removed only when it still names its owner,   *)
(* one that was not published in any case.                                 *)
Release(p) ==
    /\ Goto(p, "owner", IF pid = p THEN "drop_file" ELSE "done")
    /\ UNCHANGED <<dir, pid, attempt, saw, met, killed, robbed>>

DropFile(p) ==
    /\ Goto(p, "drop_file", "drop_dir")
    /\ pid' = None
    /\ robbed' = (robbed \/ Taken(p))
    /\ UNCHANGED <<dir, attempt, saw, met, killed>>

DropDirectory(p) ==
    /\ Goto(p, "drop_dir", "done")
    /\ dir' = (dir /\ pid # None)
    /\ robbed' = (robbed \/ Taken(p))
    /\ UNCHANGED <<pid, attempt, saw, met, killed>>

Exit(p) ==
    /\ Goto(p, "done", "gone")
    /\ UNCHANGED <<dir, pid, attempt, saw, met, killed, robbed>>

(* An interrupt or a crash: Drop does not run.                             *)
Killed(p) ==
    /\ "killed" \in Faults
    /\ pc[p] \notin {"idle", "done", "gone"}
    /\ pc' = [pc EXCEPT ![p] = "gone"]
    /\ killed' = killed \cup {p}
    /\ UNCHANGED <<dir, pid, attempt, saw, met, robbed>>

Next ==
    \E p \in Installer :
        \/ Begin(p) \/ MakeDirectory(p) \/ DirectoryExists(p) \/ TimesOut(p)
        \/ ReadOwner(p) \/ JudgeStale(p) \/ Wait(p)
        \/ RemoveStaleFile(p) \/ RemoveStaleDirectory(p)
        \/ PublishOwner(p) \/ PublishFails(p)
        \/ ProtectOwner(p) \/ ProtectFails(p)
        \/ Release(p) \/ DropFile(p) \/ DropDirectory(p)
        \/ Exit(p) \/ Killed(p)

Spec == Init /\ [][Next]_vars

-----------------------------------------------------------------------------
TypeOK ==
    /\ dir \in BOOLEAN
    /\ pid \in Installer \cup {None}
    /\ pc \in [Installer -> Phases]
    /\ attempt \in [Installer -> 0..Attempts]
    /\ saw \in [Installer -> Installer \cup {None}]
    /\ met \in [Installer -> BOOLEAN]
    /\ killed \subseteq Installer
    /\ robbed \in BOOLEAN

(* Recovering the locks of dead owners does not by itself let two          *)
(* installers in: for that, one must have removed the directory or the     *)
(* file another living one still counted on.                               *)
ExclusiveUnlessRobbed ==
    ~robbed => \A p, q \in Installer : (Holder(p) /\ Holder(q)) => p = q

(* When all installers have ended and none was killed, the lock is free,   *)
(* whatever they did to each other's locks and whichever writes failed:    *)
(* the last one that wrote the pid file, or made the directory, drops it.  *)
LeavesNothingBehind ==
    (killed = {} /\ \A p \in Installer : pc[p] \in {"idle", "done", "gone"})
        => ~dir

(* An installer gives up only when it met a living one: the locks of the   *)
(* dead, published or not, are recovered within its attempts.              *)
GivesUpOnlyBehindTheLiving ==
    \A p \in Installer :
        (pc[p] = "mkdir" /\ attempt[p] = Attempts) => met[p]

=============================================================================
