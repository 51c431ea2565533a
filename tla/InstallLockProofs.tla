------------------------- MODULE InstallLockProofs -------------------------
(***************************************************************************)
(* Proofs about InstallLock, for any number of installers, attempts and    *)
(* any grace and faults.                                                   *)
(***************************************************************************)
EXTENDS InstallLock, FiniteSetTheorems, TLAPS

(* An installer past its mkdir has an attempt left.                        *)
Counting ==
    \A p \in Installer :
        pc[p] \in {"read", "judge", "unlink", "rmdir"} => attempt[p] < Attempts

(* A pid file is in the directory, and a holder's directory exists as long *)
(* as nobody removed a living installer's lock.                            *)
DirectoryStands ==
    /\ pid # None => dir
    /\ ~robbed => \A p \in Installer : Holder(p) => dir

(* Whoever made or emptied the directory last will remove it, and whoever  *)
(* its file names will remove that file.                                   *)
Caring == {"made", "published", "unlink", "rmdir", "drop_file", "drop_dir"}

SomebodyCares ==
    (killed = {} /\ dir) =>
        IF pid = None THEN \E p \in Installer : pc[p] \in Caring
        ELSE pc[pid] \in {"published", "owner", "drop_file"}

IInv == TypeOK /\ Counting /\ DirectoryStands /\ ExclusiveUnlessRobbed /\ SomebodyCares

-----------------------------------------------------------------------------
(* The invariant holds at first.                                           *)
LEMMA InitIInv == Init => IInv
  <1> SUFFICES ASSUME Init PROVE IInv
    OBVIOUS
  <1> USE InstallLockAssumption DEF Init
  <1>1. TypeOK
    <2>1. attempt \in [Installer -> 0..Attempts]
      OBVIOUS
    <2>2. pc \in [Installer -> Phases]
      BY DEF Phases
    <2>3. saw \in [Installer -> Installer \cup {None}] /\ met \in [Installer -> BOOLEAN]
      OBVIOUS
    <2>4. QED
      BY <2>1, <2>2, <2>3 DEF TypeOK
  <1>2. Counting
    BY DEF Counting
  <1>3. DirectoryStands /\ ExclusiveUnlessRobbed /\ SomebodyCares
    BY DEF DirectoryStands, ExclusiveUnlessRobbed, SomebodyCares, Holder, Holding
  <1>4. QED
    BY <1>1, <1>2, <1>3 DEF IInv

(* Every step keeps the types and the count of attempts.                   *)
LEMMA TypeStep == IInv /\ [Next]_vars => (TypeOK /\ Counting)'
  <1> SUFFICES ASSUME TypeOK, Counting, [Next]_vars
               PROVE  (TypeOK /\ Counting)'
    BY DEF IInv
  <1> USE InstallLockAssumption
  <1>1. CASE UNCHANGED vars
    BY <1>1 DEF vars, TypeOK, Counting
  <1>2. CASE Next
    <2> PICK p \in Installer :
            \/ Begin(p) \/ MakeDirectory(p) \/ DirectoryExists(p) \/ TimesOut(p)
            \/ ReadOwner(p) \/ JudgeStale(p) \/ Wait(p)
            \/ RemoveStaleFile(p) \/ RemoveStaleDirectory(p)
            \/ PublishOwner(p) \/ PublishFails(p)
            \/ ProtectOwner(p) \/ ProtectFails(p)
            \/ Release(p) \/ DropFile(p) \/ DropDirectory(p)
            \/ Exit(p) \/ Killed(p)
      BY <1>2 DEF Next
    <2> USE DEF TypeOK, Counting, Phases, Holding, Goto
    <2>1. CASE Begin(p)
      BY <2>1 DEF Begin
    <2>2. CASE MakeDirectory(p)
      BY <2>2 DEF MakeDirectory
    <2>3. CASE DirectoryExists(p)
      BY <2>3 DEF DirectoryExists, Taken
    <2>4. CASE TimesOut(p)
      BY <2>4 DEF TimesOut
    <2>5. CASE ReadOwner(p)
      BY <2>5 DEF ReadOwner
    <2>6. CASE JudgeStale(p)
      BY <2>6 DEF JudgeStale
    <2>7. CASE Wait(p)
      BY <2>7 DEF Wait, TryAgain
    <2>8. CASE RemoveStaleFile(p)
      BY <2>8 DEF RemoveStaleFile, Taken
    <2>9. CASE RemoveStaleDirectory(p)
      BY <2>9 DEF RemoveStaleDirectory, TryAgain, Taken
    <2>10. CASE PublishOwner(p)
      BY <2>10 DEF PublishOwner
    <2>11. CASE PublishFails(p)
      BY <2>11 DEF PublishFails
    <2>12. CASE ProtectOwner(p)
      BY <2>12 DEF ProtectOwner
    <2>13. CASE ProtectFails(p)
      BY <2>13 DEF ProtectFails
    <2>14. CASE Release(p)
      BY <2>14 DEF Release
    <2>15. CASE DropFile(p)
      BY <2>15 DEF DropFile, Taken
    <2>16. CASE DropDirectory(p)
      BY <2>16 DEF DropDirectory, Taken
    <2>17. CASE Exit(p)
      BY <2>17 DEF Exit
    <2>18. CASE Killed(p)
      BY <2>18 DEF Killed
    <2>19. QED
      BY <2>1, <2>2, <2>3, <2>4, <2>5, <2>6, <2>7, <2>8, <2>9, <2>10, <2>11,
         <2>12, <2>13, <2>14, <2>15, <2>16, <2>17, <2>18
  <1>3. QED
    BY <1>1, <1>2

(* Every step keeps the directory of its holders, their exclusion, and     *)
(* somebody who cares for it.                                              *)
LEMMA LockStep ==
    IInv /\ [Next]_vars => (DirectoryStands /\ ExclusiveUnlessRobbed /\ SomebodyCares)'
  <1> SUFFICES ASSUME IInv, [Next]_vars
               PROVE  (DirectoryStands /\ ExclusiveUnlessRobbed /\ SomebodyCares)'
    OBVIOUS
  <1> USE InstallLockAssumption DEF IInv, DirectoryStands, ExclusiveUnlessRobbed,
                                    SomebodyCares, Holder
  <1>1. CASE UNCHANGED vars
    BY <1>1 DEF vars
  <1>2. CASE Next
    <2> PICK p \in Installer :
            \/ Begin(p) \/ MakeDirectory(p) \/ DirectoryExists(p) \/ TimesOut(p)
            \/ ReadOwner(p) \/ JudgeStale(p) \/ Wait(p)
            \/ RemoveStaleFile(p) \/ RemoveStaleDirectory(p)
            \/ PublishOwner(p) \/ PublishFails(p)
            \/ ProtectOwner(p) \/ ProtectFails(p)
            \/ Release(p) \/ DropFile(p) \/ DropDirectory(p)
            \/ Exit(p) \/ Killed(p)
      BY <1>2 DEF Next
    <2> USE DEF TypeOK, Goto, Holding, Caring
    <2>1. CASE Begin(p)
      BY <2>1 DEF Begin
    <2>2. CASE MakeDirectory(p)
      BY <2>2 DEF MakeDirectory
    <2>3. CASE DirectoryExists(p)
      BY <2>3 DEF DirectoryExists
    <2>4. CASE TimesOut(p)
      BY <2>4 DEF TimesOut
    <2>5. CASE ReadOwner(p)
      BY <2>5 DEF ReadOwner
    <2>6. CASE JudgeStale(p)
      BY <2>6 DEF JudgeStale
    <2>7. CASE Wait(p)
      BY <2>7 DEF Wait
    <2>8. CASE RemoveStaleFile(p)
      BY <2>8 DEF RemoveStaleFile, Taken
    <2>9. CASE RemoveStaleDirectory(p)
      BY <2>9 DEF RemoveStaleDirectory, Taken
    <2>10. CASE PublishOwner(p)
      BY <2>10 DEF PublishOwner
    <2>11. CASE PublishFails(p)
      BY <2>11 DEF PublishFails
    <2>12. CASE ProtectOwner(p)
      BY <2>12 DEF ProtectOwner
    <2>13. CASE ProtectFails(p)
      BY <2>13 DEF ProtectFails
    <2>14. CASE Release(p)
      BY <2>14 DEF Release
    <2>15. CASE DropFile(p)
      BY <2>15 DEF DropFile, Taken
    <2>16. CASE DropDirectory(p)
      BY <2>16 DEF DropDirectory, Taken
    <2>17. CASE Exit(p)
      BY <2>17 DEF Exit
    <2>18. CASE Killed(p)
      BY <2>18 DEF Killed
    <2>19. QED
      BY <2>1, <2>2, <2>3, <2>4, <2>5, <2>6, <2>7, <2>8, <2>9, <2>10, <2>11,
         <2>12, <2>13, <2>14, <2>15, <2>16, <2>17, <2>18
  <1>3. QED
    BY <1>1, <1>2

(* The inductive invariant of the lock protocol.                           *)
THEOREM LockInvariance == Spec => []IInv
  <1>1. IInv /\ [Next]_vars => IInv'
    BY TypeStep, LockStep DEF IInv
  <1>2. QED
    BY InitIInv, <1>1, PTL DEF Spec

(* Every variable keeps its type; no attempt is used beyond the last.      *)
THEOREM LockTypeCorrect == Spec => []TypeOK
  BY LockInvariance, PTL DEF IInv

(* Two installers are in only after one removed the lock of the other.     *)
THEOREM LockExclusion == Spec => []ExclusiveUnlessRobbed
  BY LockInvariance, PTL DEF IInv

(* Installers that are not killed leave no lock behind.                    *)
THEOREM NothingLeftBehind == Spec => []LeavesNothingBehind
  <1>1. IInv => LeavesNothingBehind
    BY InstallLockAssumption
    DEF IInv, TypeOK, SomebodyCares, LeavesNothingBehind, Caring
  <1>2. QED
    BY LockInvariance, <1>1, PTL

-----------------------------------------------------------------------------
(* Giving up.  Every installer takes the lock once, so an attempt that     *)
(* fails without meeting a living holder is one of the grace or is owed to *)
(* another installer that took the lock meanwhile, and those run out.      *)

(* An installer that may still make the directory, and the others that     *)
(* will not any more.                                                      *)
BeforeMkdir == {"idle", "mkdir", "read", "judge", "unlink", "rmdir"}
Spent(p) == {q \in Installer \ {p} : pc[q] \notin BeforeMkdir}
Used(p) == Cardinality(Spent(p))

(* Another installer made the directory during this attempt of p.          *)
Charged(p) == attempt[p] + 1 < Grace + Used(p)

Patient(p) ==
    /\ pc[p] = "idle" => attempt[p] = 0
    /\ ~met[p] =>
        /\ pc[p] = "mkdir" => attempt[p] < Grace + Used(p) + (IF dir THEN 0 ELSE 1)
        /\ pc[p] \in {"read", "judge", "unlink", "rmdir"} =>
              /\ Used(p) > 0
              /\ attempt[p] < Grace + Used(p)
              /\ Charged(p) \/ ~Taken(p)
        /\ pc[p] = "judge" /\ saw[p] # None => Charged(p) \/ pc[saw[p]] = "gone"
        /\ pc[p] = "rmdir" /\ pid # None => Charged(p)

(* Somebody made the directory, and whom its file names is in or was       *)
(* killed there.                                                           *)
Made ==
    /\ dir => \E q \in Installer : pc[q] \notin BeforeMkdir
    /\ pid # None => pc[pid] \in {"published", "owner", "drop_file", "gone"}

PatienceInv == Made /\ \A p \in Installer : Patient(p)

(* Who is spent can be counted, and the installer itself is not one.       *)
LEMMA UsedIsBounded ==
    ASSUME IsFiniteSet(Installer), NEW p \in Installer
    PROVE  /\ IsFiniteSet(Spent(p))
           /\ Used(p) \in Nat
           /\ Used(p) < Cardinality(Installer)
           /\ Cardinality(Installer) \in Nat
  <1>1. /\ IsFiniteSet(Installer \ {p}) /\ Cardinality(Installer) \in Nat
        /\ Cardinality(Installer \ {p}) = Cardinality(Installer) - 1
    BY FS_RemoveElement, FS_CardinalityType
  <1>2. Spent(p) \in SUBSET (Installer \ {p})
    BY DEF Spent
  <1>3. /\ IsFiniteSet(Spent(p)) /\ Cardinality(Spent(p)) \in Nat
        /\ Cardinality(Spent(p)) <= Cardinality(Installer \ {p})
    BY <1>1, <1>2, FS_Subset, FS_CardinalityType
  <1> QED
    BY <1>1, <1>3 DEF Used

(* A step of p moves p alone, and nobody comes back from beyond mkdir.     *)
LEMMA OneMoves ==
    ASSUME TypeOK, NEW p \in Installer,
           \/ Begin(p) \/ MakeDirectory(p) \/ DirectoryExists(p) \/ TimesOut(p)
           \/ ReadOwner(p) \/ JudgeStale(p) \/ Wait(p)
           \/ RemoveStaleFile(p) \/ RemoveStaleDirectory(p)
           \/ PublishOwner(p) \/ PublishFails(p)
           \/ ProtectOwner(p) \/ ProtectFails(p)
           \/ Release(p) \/ DropFile(p) \/ DropDirectory(p)
           \/ Exit(p) \/ Killed(p)
    PROVE  /\ \A q \in Installer \ {p} :
                  /\ pc'[q] = pc[q] /\ attempt'[q] = attempt[q]
                  /\ saw'[q] = saw[q] /\ met'[q] = met[q]
           /\ pc[p] \notin BeforeMkdir => pc'[p] \notin BeforeMkdir
           /\ pc[p] = "gone" => pc'[p] = "gone"
           /\ Holder(p)' => Holder(p) \/ MakeDirectory(p)
           /\ dir' => dir \/ MakeDirectory(p)
           /\ MakeDirectory(p) => pc[p] \in BeforeMkdir /\ pc'[p] \notin BeforeMkdir
           /\ pid' = pid \/ pid' = None \/ (pid' = p /\ Holder(p) /\ Holder(p)')
  <1> USE DEF TypeOK, Goto, TryAgain, BeforeMkdir, Holder, Holding
  <1>m. MakeDirectory(p) => pc[p] \in BeforeMkdir /\ pc'[p] \notin BeforeMkdir
    BY DEF MakeDirectory
  <1> DEFINE Goal ==
        /\ \A q \in Installer \ {p} :
              /\ pc'[q] = pc[q] /\ attempt'[q] = attempt[q]
              /\ saw'[q] = saw[q] /\ met'[q] = met[q]
        /\ pc[p] \notin BeforeMkdir => pc'[p] \notin BeforeMkdir
        /\ pc[p] = "gone" => pc'[p] = "gone"
        /\ Holder(p)' => Holder(p) \/ MakeDirectory(p)
        /\ dir' => dir \/ MakeDirectory(p)
        /\ pid' = pid \/ pid' = None \/ (pid' = p /\ Holder(p) /\ Holder(p)')
  <1>1. ASSUME Begin(p) \/ MakeDirectory(p) \/ DirectoryExists(p) \/ TimesOut(p)
       PROVE  Goal
    BY <1>1 DEF Begin, MakeDirectory, DirectoryExists, TimesOut
  <1>2. ASSUME ReadOwner(p) \/ JudgeStale(p) \/ Wait(p)
       PROVE  Goal
    BY <1>2 DEF ReadOwner, JudgeStale, Wait
  <1>3. ASSUME RemoveStaleFile(p) \/ RemoveStaleDirectory(p)
       PROVE  Goal
    BY <1>3 DEF RemoveStaleFile, RemoveStaleDirectory
  <1>4. ASSUME PublishOwner(p) \/ PublishFails(p) \/ ProtectOwner(p) \/ ProtectFails(p)
       PROVE  Goal
    BY <1>4 DEF PublishOwner, PublishFails, ProtectOwner, ProtectFails
  <1>5. ASSUME Release(p) \/ DropFile(p) \/ DropDirectory(p)
       PROVE  Goal
    BY <1>5 DEF Release, DropFile, DropDirectory
  <1>6. ASSUME Exit(p) \/ Killed(p)
       PROVE  Goal
    BY <1>6 DEF Exit, Killed
  <1> QED
    BY <1>m, <1>1, <1>2, <1>3, <1>4, <1>5, <1>6

(* More and more installers are spent: one more of the others when p makes *)
(* the directory.                                                          *)
LEMMA UsedGrows ==
    ASSUME IsFiniteSet(Installer), NEW p \in Installer, NEW q \in Installer,
           \A r \in Installer \ {p} : pc'[r] = pc[r],
           pc[p] \notin BeforeMkdir => pc'[p] \notin BeforeMkdir
    PROVE  /\ Used(q) \in Nat /\ Used(q)' \in Nat
           /\ Used(q) <= Used(q)'
           /\ (p # q /\ pc[p] \in BeforeMkdir /\ pc'[p] \notin BeforeMkdir)
                  => Used(q)' = Used(q) + 1
  <1>1. Spent(q) \subseteq Spent(q)'
    BY DEF Spent
  <1>2. Spent(q)' \in SUBSET Installer /\ Spent(q) \in SUBSET Installer
    BY DEF Spent
  <1>3. IsFiniteSet(Spent(q)') /\ IsFiniteSet(Spent(q))
    BY <1>2, FS_Subset
  <1>4. /\ Used(q) \in Nat /\ Used(q)' \in Nat /\ Used(q) <= Used(q)'
    BY <1>1, <1>3, FS_Subset, FS_CardinalityType DEF Used
  <1>5. ASSUME p # q, pc[p] \in BeforeMkdir, pc'[p] \notin BeforeMkdir
        PROVE  Used(q)' = Used(q) + 1
    <2>1. Spent(q)' = Spent(q) \cup {p} /\ p \notin Spent(q)
      BY <1>5 DEF Spent
    <2> QED
      BY <1>3, <2>1, FS_AddElement DEF Used
  <1> QED
    BY <1>4, <1>5

(* What a step of p is to another installer q.                             *)
LEMMA OtherStaysPatient ==
    ASSUME IsFiniteSet(Installer), TypeOK, TypeOK', PatienceInv,
           NEW p \in Installer, NEW q \in Installer, p # q,
           \/ Begin(p) \/ MakeDirectory(p) \/ DirectoryExists(p) \/ TimesOut(p)
           \/ ReadOwner(p) \/ JudgeStale(p) \/ Wait(p)
           \/ RemoveStaleFile(p) \/ RemoveStaleDirectory(p)
           \/ PublishOwner(p) \/ PublishFails(p)
           \/ ProtectOwner(p) \/ ProtectFails(p)
           \/ Release(p) \/ DropFile(p) \/ DropDirectory(p)
           \/ Exit(p) \/ Killed(p)
    PROVE  Patient(q)'
  <1>1. /\ pc'[q] = pc[q] /\ attempt'[q] = attempt[q]
        /\ saw'[q] = saw[q] /\ met'[q] = met[q]
        /\ \A r \in Installer \ {p} : pc'[r] = pc[r]
        /\ pc[p] \notin BeforeMkdir => pc'[p] \notin BeforeMkdir
        /\ pc[p] = "gone" => pc'[p] = "gone"
        /\ Holder(p)' => Holder(p) \/ MakeDirectory(p)
        /\ dir' => dir \/ MakeDirectory(p)
        /\ pid' = pid \/ pid' = None \/ (pid' = p /\ Holder(p) /\ Holder(p)')
    BY OneMoves
  <1>2. /\ Used(q) \in Nat /\ Used(q)' \in Nat /\ Used(q) <= Used(q)'
        /\ MakeDirectory(p) => Used(q)' = Used(q) + 1
    <2>1. MakeDirectory(p) => pc[p] \in BeforeMkdir /\ pc'[p] \notin BeforeMkdir
      BY OneMoves
    <2> QED
      BY <1>1, <2>1, UsedGrows
  <1>3. attempt[q] \in Nat /\ Grace \in Nat /\ dir \in BOOLEAN /\ dir' \in BOOLEAN
    BY InstallLockAssumption DEF TypeOK
  <1>4. Patient(q)
    BY DEF PatienceInv
  <1>5. pc'[q] = "idle" => attempt'[q] = 0
    BY <1>1, <1>4 DEF Patient
  <1> SUFFICES ASSUME ~met'[q]
               PROVE  /\ pc[q] = "mkdir" => attempt[q] < Grace + Used(q)' + (IF dir' THEN 0 ELSE 1)
                      /\ pc[q] \in {"read", "judge", "unlink", "rmdir"} =>
                            /\ Used(q)' > 0
                            /\ attempt[q] < Grace + Used(q)'
                            /\ Charged(q)' \/ ~Taken(q)'
                      /\ pc[q] = "judge" /\ saw[q] # None
                            => Charged(q)' \/ pc'[saw[q]] = "gone"
                      /\ pc[q] = "rmdir" /\ pid' # None => Charged(q)'
    BY <1>1, <1>5 DEF Patient
  <1>6. ~met[q]
    BY <1>1
  <1>7. Charged(q) => Charged(q)'
    BY <1>1, <1>2, <1>3 DEF Charged
  <1>8. pc[q] = "mkdir" => attempt[q] < Grace + Used(q)' + (IF dir' THEN 0 ELSE 1)
    <2>1. pc[q] = "mkdir" => attempt[q] < Grace + Used(q) + (IF dir THEN 0 ELSE 1)
      BY <1>4, <1>6 DEF Patient
    <2> QED
      BY <1>1, <1>2, <1>3, <2>1
  <1>9. ASSUME pc[q] \in {"read", "judge", "unlink", "rmdir"}
        PROVE  /\ Used(q)' > 0
               /\ attempt[q] < Grace + Used(q)'
               /\ Charged(q)' \/ ~Taken(q)'
    <2>1. /\ Used(q) > 0 /\ attempt[q] < Grace + Used(q)
          /\ Charged(q) \/ ~Taken(q)
      BY <1>4, <1>6, <1>9 DEF Patient
    <2>2. Taken(q)' => Taken(q) \/ MakeDirectory(p)
      <3>1. \A r \in Installer \ {p} : Holder(r)' <=> Holder(r)
        BY <1>1 DEF Holder
      <3> QED
        BY <1>1, <3>1 DEF Taken
    <2>3. MakeDirectory(p) => Charged(q)'
      BY <1>1, <1>2, <1>3, <2>1 DEF Charged
    <2> QED
      BY <1>2, <1>3, <1>7, <2>1, <2>2, <2>3
  <1>10. pc[q] = "judge" /\ saw[q] # None => Charged(q)' \/ pc'[saw[q]] = "gone"
    <2>1. pc[q] = "judge" /\ saw[q] # None => Charged(q) \/ pc[saw[q]] = "gone"
      BY <1>4, <1>6 DEF Patient
    <2>2. saw[q] \in Installer \cup {None}
      BY DEF TypeOK
    <2> QED
      BY <1>1, <1>7, <2>1, <2>2
  <1>11. ASSUME pc[q] = "rmdir", pid' # None PROVE Charged(q)'
    <2>1. CASE pid # None
      BY <1>4, <1>6, <1>7, <1>11, <2>1 DEF Patient
    <2>2. CASE pid = None
      <3>1. Holder(p)
        BY <1>1, <1>11, <2>2
      <3>2. Charged(q)
        BY <1>4, <1>6, <1>11, <3>1 DEF Patient, Taken
      <3> QED
        BY <1>7, <3>2
    <2> QED
      BY <2>1, <2>2
  <1> QED
    BY <1>8, <1>9, <1>10, <1>11

(* What a step of p is to itself.                                          *)
LEMMA SelfStaysPatient ==
    ASSUME IsFiniteSet(Installer), TypeOK, TypeOK', PatienceInv,
           NEW p \in Installer,
           \/ Begin(p) \/ MakeDirectory(p) \/ DirectoryExists(p) \/ TimesOut(p)
           \/ ReadOwner(p) \/ JudgeStale(p) \/ Wait(p)
           \/ RemoveStaleFile(p) \/ RemoveStaleDirectory(p)
           \/ PublishOwner(p) \/ PublishFails(p)
           \/ ProtectOwner(p) \/ ProtectFails(p)
           \/ Release(p) \/ DropFile(p) \/ DropDirectory(p)
           \/ Exit(p) \/ Killed(p)
    PROVE  Patient(p)'
  <1>1. /\ \A r \in Installer \ {p} : pc'[r] = pc[r]
        /\ pc[p] \notin BeforeMkdir => pc'[p] \notin BeforeMkdir
    BY OneMoves
  <1>2. Used(p) \in Nat /\ Used(p)' = Used(p)
    <2>1. Spent(p)' = Spent(p)
      BY <1>1 DEF Spent
    <2> QED
      BY <2>1, UsedIsBounded DEF Used
  <1>3. /\ attempt[p] \in Nat /\ Grace \in Nat /\ dir \in BOOLEAN
        /\ saw[p] \in Installer \cup {None} /\ met[p] \in BOOLEAN
        /\ pc \in [Installer -> Phases] /\ attempt \in [Installer -> 0..Attempts]
        /\ saw \in [Installer -> Installer \cup {None}]
        /\ met \in [Installer -> BOOLEAN]
    BY InstallLockAssumption DEF TypeOK
  <1>4. Patient(p) /\ Made
    BY DEF PatienceInv
  <1>5. dir /\ pc[p] \in BeforeMkdir => Used(p) > 0
    <2> SUFFICES ASSUME dir, pc[p] \in BeforeMkdir PROVE Used(p) > 0
      OBVIOUS
    <2>1. Spent(p) # {}
      BY <1>4 DEF Made, Spent
    <2>2. Cardinality(Spent(p)) # 0
      BY <2>1, UsedIsBounded, FS_EmptySet
    <2> QED
      BY <1>2, <2>2 DEF Used
  <1>t. Taken(p)' = Taken(p)
    BY <1>1 DEF Taken, Holder
  <1>6. CASE Begin(p)
    <2>1. /\ pc[p] = "idle" /\ pc'[p] = "mkdir" /\ attempt'[p] = attempt[p] /\ dir' = dir
      BY <1>3, <1>6 DEF Begin, Goto
    <2>2. attempt[p] = 0
      BY <1>4, <2>1 DEF Patient
    <2>3. attempt'[p] < Grace + Used(p)' + (IF dir' THEN 0 ELSE 1)
      BY <1>2, <1>3, <1>5, <2>1, <2>2 DEF BeforeMkdir
    <2> QED
      BY <2>1, <2>3 DEF Patient
  <1>7. CASE DirectoryExists(p)
    <2>1. /\ pc[p] = "mkdir" /\ pc'[p] = "read" /\ attempt'[p] = attempt[p] /\ dir
          /\ met'[p] = (met[p] \/ Taken(p))
      BY <1>3, <1>7 DEF DirectoryExists, Goto
    <2>2. ~met'[p] => ~met[p] /\ ~Taken(p)
      BY <2>1
    <2>3. Used(p) > 0
      BY <1>5, <2>1 DEF BeforeMkdir
    <2>4. ~met[p] => attempt[p] < Grace + Used(p)
      BY <1>2, <1>3, <1>4, <2>1 DEF Patient
    <2> QED
      BY <1>2, <1>t, <2>1, <2>2, <2>3, <2>4 DEF Patient
  <1>8. CASE ReadOwner(p)
    <2>1. /\ pc[p] = "read" /\ pc'[p] = "judge" /\ attempt'[p] = attempt[p]
          /\ met'[p] = met[p] /\ saw'[p] = pid
          /\ pid \in Installer \cup {None}
      BY <1>3, <1>8 DEF ReadOwner, Goto, TypeOK
    <2>2. Charged(p)' <=> Charged(p)
      BY <1>2, <2>1 DEF Charged
    <2>3. ASSUME ~met[p], pid # None PROVE Charged(p) \/ pc'[pid] = "gone"
      <3>1. pc[pid] \in {"published", "owner", "drop_file", "gone"}
        BY <1>4, <2>3 DEF Made
      <3>2. pid # p
        BY <2>1, <3>1
      <3>3. pc[pid] # "gone" => Taken(p)
        BY <2>1, <2>3, <3>1, <3>2 DEF Taken, Holder, Holding
      <3> QED
        BY <1>1, <1>4, <2>1, <2>3, <3>2, <3>3 DEF Patient
    <2>4. ~met[p] => /\ Used(p) > 0 /\ attempt[p] < Grace + Used(p)
                     /\ Charged(p) \/ ~Taken(p)
      BY <1>4, <2>1 DEF Patient
    <2> QED
      BY <1>2, <1>t, <2>1, <2>2, <2>3, <2>4 DEF Patient
  <1>9. CASE JudgeStale(p)
    <2>1. /\ pc[p] = "judge" /\ pc'[p] = "unlink" /\ attempt'[p] = attempt[p]
          /\ met'[p] = met[p]
      BY <1>3, <1>9 DEF JudgeStale, Goto
    <2>2. Charged(p)' <=> Charged(p)
      BY <1>2, <2>1 DEF Charged
    <2> QED
      BY <1>2, <1>4, <1>t, <2>1, <2>2 DEF Patient
  <1>10. CASE RemoveStaleFile(p)
    <2>1. /\ pc[p] = "unlink" /\ pc'[p] = "rmdir" /\ attempt'[p] = attempt[p]
          /\ met'[p] = met[p] /\ pid' = None
      BY <1>3, <1>10 DEF RemoveStaleFile, Goto
    <2>2. Charged(p)' <=> Charged(p)
      BY <1>2, <2>1 DEF Charged
    <2> QED
      BY <1>2, <1>4, <1>t, <2>1, <2>2 DEF Patient
  <1>11. CASE RemoveStaleDirectory(p)
    <2>1. /\ pc[p] = "rmdir" /\ pc'[p] = "mkdir" /\ attempt'[p] = attempt[p] + 1
          /\ met'[p] = met[p]
          /\ dir' => pid # None
      BY <1>3, <1>11 DEF RemoveStaleDirectory, Goto, TryAgain
    <2>2. ~met[p] => attempt[p] < Grace + Used(p) /\ (dir' => Charged(p))
      BY <1>4, <2>1 DEF Patient
    <2>3. ~met[p] => attempt[p] + 1 < Grace + Used(p) + (IF dir' THEN 0 ELSE 1)
      BY <1>2, <1>3, <2>2 DEF Charged
    <2> QED
      BY <1>2, <2>1, <2>3 DEF Patient
  <1>12. CASE Wait(p)
    <2>1. /\ pc[p] = "judge" /\ pc'[p] = "mkdir" /\ attempt'[p] = attempt[p] + 1
          /\ met'[p] = met[p] /\ ~lock_is_stale(p)
      BY <1>3, <1>12 DEF Wait, Goto, TryAgain
    <2>2. ~met[p] => /\ Used(p) > 0
                     /\ saw[p] # None => Charged(p) \/ pc[saw[p]] = "gone"
      BY <1>4, <2>1 DEF Patient
    <2>3. ~met[p] => attempt[p] + 1 < Grace + Used(p)
      <3>1. CASE saw[p] = None
        BY <1>2, <1>3, <2>1, <2>2, <3>1 DEF lock_is_stale
      <3>2. CASE saw[p] # None
        BY <2>1, <2>2, <3>2 DEF lock_is_stale, Charged
      <3> QED
        BY <3>1, <3>2
    <2> QED
      BY <1>2, <1>3, <2>1, <2>3 DEF Patient
  <1>13. ASSUME pc'[p] \notin {"idle", "mkdir", "read", "judge", "unlink", "rmdir"}
         PROVE  Patient(p)'
    BY <1>13 DEF Patient
  <1>14. CASE MakeDirectory(p) \/ TimesOut(p) \/ PublishOwner(p) \/ PublishFails(p)
              \/ ProtectOwner(p) \/ ProtectFails(p)
    BY <1>3, <1>13, <1>14
    DEF MakeDirectory, TimesOut, PublishOwner, PublishFails, ProtectOwner,
        ProtectFails, Goto
  <1>15. CASE Release(p) \/ DropFile(p) \/ DropDirectory(p) \/ Exit(p) \/ Killed(p)
    BY <1>3, <1>13, <1>15 DEF Release, DropFile, DropDirectory, Exit, Killed, Goto
  <1> QED
    BY <1>6, <1>7, <1>8, <1>9, <1>10, <1>11, <1>12, <1>14, <1>15

(* Every step keeps every installer patient.                               *)
LEMMA PatienceStep ==
    ASSUME IsFiniteSet(Installer), TypeOK, TypeOK', PatienceInv, [Next]_vars
    PROVE  PatienceInv'
  <1>1. CASE UNCHANGED vars
    BY <1>1 DEF vars, PatienceInv, Patient, Made, Charged, Used, Spent, Taken, Holder
  <1>2. CASE Next
    <2> PICK p \in Installer :
            \/ Begin(p) \/ MakeDirectory(p) \/ DirectoryExists(p) \/ TimesOut(p)
            \/ ReadOwner(p) \/ JudgeStale(p) \/ Wait(p)
            \/ RemoveStaleFile(p) \/ RemoveStaleDirectory(p)
            \/ PublishOwner(p) \/ PublishFails(p)
            \/ ProtectOwner(p) \/ ProtectFails(p)
            \/ Release(p) \/ DropFile(p) \/ DropDirectory(p)
            \/ Exit(p) \/ Killed(p)
      BY <1>2 DEF Next
    <2>1. \A q \in Installer : Patient(q)'
      BY SelfStaysPatient, OtherStaysPatient
    <2>2. dir' => \E q \in Installer : pc'[q] \notin BeforeMkdir
      <3>1. /\ \A r \in Installer \ {p} : pc'[r] = pc[r]
            /\ pc[p] \notin BeforeMkdir => pc'[p] \notin BeforeMkdir
            /\ dir' => dir \/ MakeDirectory(p)
            /\ MakeDirectory(p) => pc'[p] \notin BeforeMkdir
        BY OneMoves
      <3> QED
        BY <3>1 DEF PatienceInv, Made
    <2>3. pid' # None => pc'[pid'] \in {"published", "owner", "drop_file", "gone"}
      <3> USE DEF PatienceInv, Made, TypeOK, Goto
      <3>1. CASE Begin(p) \/ MakeDirectory(p) \/ DirectoryExists(p) \/ TimesOut(p)
        BY <3>1 DEF Begin, MakeDirectory, DirectoryExists, TimesOut
      <3>2. CASE ReadOwner(p) \/ JudgeStale(p) \/ Wait(p)
        BY <3>2 DEF ReadOwner, JudgeStale, Wait
      <3>3. CASE RemoveStaleFile(p) \/ RemoveStaleDirectory(p)
        BY <3>3 DEF RemoveStaleFile, RemoveStaleDirectory
      <3>4. CASE PublishOwner(p) \/ PublishFails(p) \/ ProtectOwner(p) \/ ProtectFails(p)
        BY <3>4 DEF PublishOwner, PublishFails, ProtectOwner, ProtectFails
      <3>5. CASE Release(p) \/ DropFile(p) \/ DropDirectory(p)
        BY <3>5 DEF Release, DropFile, DropDirectory
      <3>6. CASE Exit(p) \/ Killed(p)
        BY <3>6 DEF Exit, Killed
      <3> QED
        BY <3>1, <3>2, <3>3, <3>4, <3>5, <3>6
    <2> QED
      BY <2>1, <2>2, <2>3 DEF PatienceInv, Made
  <1> QED
    BY <1>1, <1>2

(* With one attempt for each installer beyond the grace, an installer that *)
(* gives up has met a living holder.                                       *)
THEOREM PatienceSuffices ==
    ASSUME IsFiniteSet(Installer), Attempts >= Grace + Cardinality(Installer)
    PROVE  Spec => []GivesUpOnlyBehindTheLiving
  <1>1. Init => PatienceInv
    BY DEF Init, PatienceInv, Made, Patient
  <1>2. TypeOK /\ TypeOK' /\ PatienceInv /\ [Next]_vars => PatienceInv'
    BY PatienceStep
  <1>3. PatienceInv /\ TypeOK => GivesUpOnlyBehindTheLiving
    <2> SUFFICES ASSUME PatienceInv, TypeOK, NEW p \in Installer,
                        pc[p] = "mkdir", attempt[p] = Attempts, ~met[p]
                 PROVE  FALSE
      BY DEF GivesUpOnlyBehindTheLiving, TypeOK
    <2>1. attempt[p] < Grace + Used(p) + (IF dir THEN 0 ELSE 1)
      BY DEF PatienceInv, Patient
    <2>2. /\ Used(p) \in Nat /\ Cardinality(Installer) \in Nat
          /\ Used(p) < Cardinality(Installer)
      BY UsedIsBounded
    <2> QED
      BY <2>1, <2>2, InstallLockAssumption
  <1> QED
    BY <1>1, <1>2, <1>3, LockTypeCorrect, PTL DEF Spec

=============================================================================
