-------------------- MODULE ManagedRuntimeInstallerProofs --------------------
(* What holds of ManagedRuntimeInstaller for every set of processes, of    *)
(* pinned versions, of artifacts and of faults.                        *)
EXTENDS ManagedRuntimeInstaller, TLAPS

-----------------------------------------------------------------------------
(* Types.                                                                  *)

\* Unpacking a download gives files, whatever the download holds.
LEMMA UnpackType == \A o : Unpack(o) \in Files
  BY ConstantsAssumption DEF Unpack, Files, Contents

\* What a removal leaves is a directory, or none.
LEMMA LeavingsType ==
  ASSUME NEW dir \in Dirs, NEW left \in Leavings(dir)
  PROVE  left \in Dirs
<1>1. CASE dir = Absent \/ "removal" \notin Faults
  BY <1>1 DEF Leavings, Dirs
<1>2. CASE dir # Absent /\ "removal" \in Faults
  <2>1. dir \in Trees
    BY <1>2 DEF Dirs
  <2>2. \A kept \in SUBSET Payload :
          [f \in Payload |-> IF f \in kept THEN dir.files[f] ELSE None] \in Files
    BY <2>1 DEF Trees, Files, Contents
  <2>3. {dir.manifest, None} \subseteq Manifests
    BY <2>1 DEF Trees, Manifests
  <2> QED
    BY <1>2, <2>2, <2>3 DEF Leavings, Dirs, Trees
<1> QED
  BY <1>1, <1>2

\* What others put under the bundle's name is a directory of the model.
LEMMA ForeignTreesType == ForeignTrees \subseteq Dirs
<1>1. [f \in Payload |-> Theirs] \in Files
  BY DEF Files, Contents
<1> QED
  BY <1>1 DEF ForeignTrees, Dirs, Trees, Manifests

\* Reading the manifest of a directory gives a manifest, or none.
LEMMA ManifestOfType == \A dir \in Dirs : ManifestOf(dir) \in Manifests
  BY DEF ManifestOf, Dirs, Trees, Manifests

\* What a call holds in its hands at each step up to the promotion: only bytes
\* of the artifact its catalog pins, and then the whole install of them.
StagingInv ==
  \A p \in Procs :
    /\ pc[p] # "idle" => pin[p] \in Pins
    /\ pc[p] = "extract" => object[p] = pin[p]
    /\ pc[p] = "manifest" =>
         stage[p] = [manifest |-> None, files |-> Unpack(pin[p])]
    /\ pc[p] \in {"clearBackup", "statRoot", "setAside", "swapIn"} =>
         stage[p] = Whole(pin[p])

\* The first states are typed, and no call holds anything.
LEMMA InitTypes == Init => TypeOK /\ StagingInv
  BY ForeignTreesType
  DEF Init, TypeOK, StagingInv, Dirs, Labels, Ops, Outcomes, Contents, Files, Manifests, Objects

\* Every action keeps the types, given what a call holds in its hands.
LEMMA TypeStep == TypeOK /\ StagingInv /\ [Next]_vars => TypeOK'
<1> SUFFICES ASSUME TypeOK, StagingInv, [Next]_vars
             PROVE  TypeOK'
  OBVIOUS
<1> USE DEF Goto, Conclude, Fail
<1>0. Observe => sawIntact' \in [Procs -> BOOLEAN]
  BY DEF Observe
<1>1. ASSUME NEW p \in Procs, Start(p)
      PROVE  TypeOK'
  BY <1>0, <1>1 DEF Start, TypeOK, work, exam, history, Labels
<1>2. ASSUME NEW p \in Procs, StatBeforeReinstall(p)
      PROVE  TypeOK'
  BY <1>0, <1>2 DEF StatBeforeReinstall, TypeOK, call, work, exam, history, Labels
<1>3. ASSUME NEW p \in Procs, Reject(p)
      PROVE  TypeOK'
  BY <1>0, <1>3 DEF Reject, TypeOK, call, work, exam, history, Labels, Outcomes
<1>4. ASSUME NEW p \in Procs, AcquireBundleLock(p)
      PROVE  TypeOK'
  BY <1>0, <1>4 DEF AcquireBundleLock, TypeOK, call, work, exam, history, Labels,
                    Outcomes
<1>5. ASSUME NEW p \in Procs, ReleaseBundleLock(p)
      PROVE  TypeOK'
  BY <1>0, <1>5 DEF ReleaseBundleLock, AfterUnlock, TypeOK, call, work, exam,
                    history, Labels, Outcomes
<1>6. ASSUME NEW p \in Procs, Forget(p), Observe,
             root' = root, backup' = backup, lockFile' \in Procs \cup {Free, Stale}
      PROVE  TypeOK'
  BY <1>0, <1>6 DEF Forget, TypeOK, Labels, Ops, Outcomes, Contents, Files, Dirs,
                    Manifests, Objects
<1>7. ASSUME NEW p \in Procs, Return(p)
      PROVE  TypeOK'
  BY <1>6, <1>7 DEF Return, TypeOK
<1>8. ASSUME NEW p \in Procs, Crash(p)
      PROVE  TypeOK'
  BY <1>6, <1>8 DEF Crash, TypeOK
<1>9. ASSUME NEW p \in Procs, ValidateExistingRoot(p)
      PROVE  TypeOK'
  BY <1>0, <1>9, ManifestOfType
  DEF ValidateExistingRoot, TypeOK, call, work, exam, Labels, Outcomes
<1>10. ASSUME NEW p \in Procs, FetchPinnedObjects(p)
       PROVE  TypeOK'
  BY <1>0, <1>10 DEF FetchPinnedObjects, TypeOK, call, exam, history, Labels,
                     Outcomes, Objects
<1>11. ASSUME NEW p \in Procs, ExtractToStage(p)
       PROVE  TypeOK'
  <2>1. Unpack(object[p]) \in Files
    BY UnpackType DEF TypeOK
  <2>2. \A done \in SUBSET Payload :
          [f \in Payload |-> IF f \in done THEN Unpack(object[p])[f] ELSE None] \in Files
    BY <2>1 DEF Files, Contents
  <2>3. \A files \in Files : [manifest |-> None, files |-> files] \in Dirs
    BY DEF Dirs, Trees, Manifests
  <2>4. \E files \in Files :
          stage' = [stage EXCEPT ![p] = [manifest |-> None, files |-> files]]
    BY <1>11, <2>1, <2>2 DEF ExtractToStage
  <2>5. stage' \in [Procs -> Dirs]
    BY <2>3, <2>4 DEF TypeOK
  <2> QED
    BY <1>0, <1>11, <2>5
    DEF ExtractToStage, TypeOK, call, exam, history, Labels, Outcomes
<1>12. ASSUME NEW p \in Procs, WriteManifest(p)
       PROVE  TypeOK'
  <2>1. stage[p] = [manifest |-> None, files |-> Unpack(pin[p])] /\ pin[p] \in Pins
    BY <1>12 DEF WriteManifest, StagingInv
  <2>2. Unpack(pin[p]) \in Files
    BY <2>1, UnpackType DEF Contents
  <2>3. [stage[p] EXCEPT !.manifest = StagedManifest(p)] \in Dirs
    BY <2>1, <2>2 DEF StagedManifest, Dirs, Trees, Manifests, Receipts
  <2> QED
    BY <1>0, <1>12, <2>3
    DEF WriteManifest, TypeOK, call, exam, history, Labels, Outcomes
<1>13. ASSUME NEW p \in Procs, ClearBackup(p) \/ DropBackup(p)
       PROVE  TypeOK'
  <2>1. backup' \in Dirs
    BY <1>13, LeavingsType DEF ClearBackup, DropBackup, TypeOK
  <2> QED
    BY <1>0, <1>13, <2>1
    DEF ClearBackup, DropBackup, TypeOK, call, work, exam, history, Labels
<1>14. ASSUME NEW p \in Procs, StatRoot(p)
       PROVE  TypeOK'
  BY <1>0, <1>14 DEF StatRoot, TypeOK, call, exam, history, Labels, Outcomes
<1>15. ASSUME NEW p \in Procs, SetAside(p)
       PROVE  TypeOK'
  BY <1>0, <1>15 DEF SetAside, TypeOK, call, work, exam, Labels, Outcomes, Dirs
<1>16. ASSUME NEW p \in Procs, SwapIn(p)
       PROVE  TypeOK'
  BY <1>0, <1>16 DEF SwapIn, AfterFailedSwap, TypeOK, call, exam, history, Labels,
                     Outcomes, Dirs
<1>17. ASSUME NEW p \in Procs, RollBack(p)
       PROVE  TypeOK'
  BY <1>0, <1>17 DEF RollBack, TypeOK, call, work, exam, history, Labels, Dirs
<1>18. ASSUME NEW p \in Procs, RemoveStage(p)
       PROVE  TypeOK'
  BY <1>0, <1>18 DEF RemoveStage, TypeOK, call, exam, history, Labels, Dirs
<1>19. ASSUME NEW p \in Procs, InspectRoot(p)
       PROVE  TypeOK'
  BY <1>0, <1>19 DEF InspectRoot, TypeOK, call, work, exam, history, Labels, Outcomes
<1>20. ASSUME NEW p \in Procs, RemoveAll(p)
       PROVE  TypeOK'
  <2>1. root \in Trees
    BY <1>20 DEF RemoveAll, TypeOK, Dirs
  <2>2. root' \in Dirs
    BY <1>20, <2>1 DEF RemoveAll, Dirs, Trees, Files, Manifests, Contents
  <2> QED
    BY <1>0, <1>20, <2>2
    DEF RemoveAll, TypeOK, call, work, exam, history, Labels, Outcomes
<1>21. ASSUME NEW p \in Procs, DoctorManifest(p)
       PROVE  TypeOK'
  <2>1. ManifestOf(root) \in Receipts => ManifestOf(root).digests \in Files
    BY DEF Receipts
  <2>2. want' \in [Procs -> Files] /\ pending' \in [Procs -> SUBSET Payload]
    BY <1>21, <2>1 DEF DoctorManifest, TypeOK, exam
  <2>3. pc' \in [Procs -> Labels] /\ outcome' \in [Procs -> Outcomes]
    BY <1>21 DEF DoctorManifest, TypeOK, Labels, Outcomes
  <2> QED
    BY <1>0, <1>21, <2>2, <2>3 DEF DoctorManifest, TypeOK, call, work, history
<1>22. ASSUME NEW p \in Procs, DoctorCommand(p)
       PROVE  TypeOK'
  BY <1>0, <1>22 DEF DoctorCommand, TypeOK, call, work, exam, history, Labels, Outcomes
<1>23. ASSUME NEW p \in Procs, DoctorDigest(p)
       PROVE  TypeOK'
  BY <1>0, <1>23 DEF DoctorDigest, TypeOK, call, work, history, Labels, Outcomes
<1>24. CASE ClearStaleLock
  BY <1>0, <1>24 DEF ClearStaleLock, TypeOK, call, work, exam, history
<1>25. CASE Tamper
  <2>1. root \in Trees
    BY <1>25, ConstantsAssumption
    DEF Tamper, Managed, ManifestOf, TypeOK, Dirs
  <2>2. root' \in Dirs
    BY <1>25, <2>1 DEF Tamper, Dirs, Trees, Files, Contents
  <2> QED
    BY <1>0, <1>25, <2>2 DEF Tamper, TypeOK, call, work, exam, history
<1>26. CASE Squat
  BY <1>0, <1>26, ForeignTreesType DEF Squat, TypeOK, call, work, exam, history
<1>27. CASE UNCHANGED vars
  BY <1>27 DEF vars, TypeOK
<1> QED
  BY <1>1, <1>2, <1>3, <1>4, <1>5, <1>7, <1>8, <1>9, <1>10, <1>11, <1>12, <1>13,
     <1>14, <1>15, <1>16, <1>17, <1>18, <1>19, <1>20, <1>21, <1>22, <1>23, <1>24,
     <1>25, <1>26, <1>27 DEF Next, Step

-----------------------------------------------------------------------------
(* The bytes that are installed.                                           *)

\* Every action keeps what a call holds in its hands as its step needs it.
LEMMA StagingStep == TypeOK /\ StagingInv /\ [Next]_vars => StagingInv'
<1> SUFFICES ASSUME TypeOK, StagingInv, [Next]_vars
             PROVE  StagingInv'
  OBVIOUS
<1> USE DEF Goto, Conclude, Fail, call, work, exam, history, TypeOK, StagingInv
<1>1. ASSUME NEW p \in Procs, Start(p)
      PROVE  StagingInv'
  BY <1>1 DEF Start
<1>2. ASSUME NEW p \in Procs,
             \/ StatBeforeReinstall(p) \/ Reject(p) \/ AcquireBundleLock(p)
             \/ ReleaseBundleLock(p) \/ ValidateExistingRoot(p) \/ ClearBackup(p)
             \/ StatRoot(p) \/ SetAside(p)
      PROVE  StagingInv'
  BY <1>2 DEF StatBeforeReinstall, Reject, AcquireBundleLock, ReleaseBundleLock,
              ValidateExistingRoot, ClearBackup, StatRoot, SetAside
<1>3. ASSUME NEW p \in Procs,
             \/ SwapIn(p) \/ RollBack(p) \/ DropBackup(p) \/ RemoveStage(p)
             \/ InspectRoot(p) \/ RemoveAll(p)
      PROVE  StagingInv'
  BY <1>3 DEF SwapIn, AfterFailedSwap, RollBack, DropBackup, RemoveStage, InspectRoot,
              RemoveAll
<1>4. ASSUME NEW p \in Procs, DoctorManifest(p) \/ DoctorCommand(p) \/ DoctorDigest(p)
      PROVE  StagingInv'
  BY <1>4 DEF DoctorManifest, DoctorCommand, DoctorDigest
<1>5. ASSUME NEW p \in Procs, Return(p) \/ Crash(p)
      PROVE  StagingInv'
  BY <1>5 DEF Return, Crash, Forget
<1>6. ASSUME NEW p \in Procs, FetchPinnedObjects(p)
      PROVE  StagingInv'
  BY <1>6 DEF FetchPinnedObjects, Verified
<1>7. ASSUME NEW p \in Procs, ExtractToStage(p)
      PROVE  StagingInv'
  BY <1>7 DEF ExtractToStage
<1>8. ASSUME NEW p \in Procs, WriteManifest(p)
      PROVE  StagingInv'
  BY <1>8 DEF WriteManifest, StagedManifest, Whole, Receipt
<1>9. CASE ClearStaleLock \/ Tamper \/ Squat \/ UNCHANGED vars
  BY <1>9 DEF ClearStaleLock, Tamper, Squat, vars
<1> QED
  BY <1>1, <1>2, <1>3, <1>4, <1>5, <1>6, <1>7, <1>8, <1>9 DEF Next, Step

\* The state variables have their types in every reachable state.
THEOREM TypeCorrectness == Spec => []TypeOK
<1>1. TypeOK /\ StagingInv /\ [Next]_vars => (TypeOK /\ StagingInv)'
  BY TypeStep, StagingStep
<1> QED
  BY <1>1, InitTypes, PTL DEF Spec

\* Types and what the calls hold, in every reachable state.
LEMMA Staging == Spec => [](TypeOK /\ StagingInv)
<1>1. TypeOK /\ StagingInv /\ [Next]_vars => (TypeOK /\ StagingInv)'
  BY TypeStep, StagingStep
<1> QED
  BY <1>1, InitTypes, PTL DEF Spec

\* A receipt is a manifest, and a whole install is a directory.
LEMMA WholeType ==
  \A v \in Pins : Receipt(v) \in Receipts /\ Whole(v) \in Trees
  BY UnpackType DEF Receipt, Receipts, Whole, Trees, Manifests, Contents

\* What a removal leaves has the manifest it had, or none.
LEMMA LeavingsManifest ==
  ASSUME NEW dir, NEW left \in Leavings(dir)
  PROVE  ManifestOf(left) \in {None, ManifestOf(dir)}
  BY DEF Leavings, ManifestOf

\* Overwriting an installed file does not touch the manifest.
LEMMA TamperKeepsManifest ==
  ASSUME TypeOK, Tamper
  PROVE  ManifestOf(root)' = ManifestOf(root)
<1>1. root \in Trees
  BY ConstantsAssumption DEF Tamper, Managed, ManifestOf, TypeOK, Dirs
<1>2. PICK f \in Payload : root' = [root EXCEPT !.files[f] = Altered]
  BY DEF Tamper
<1>3. root' = [manifest |-> root.manifest, files |-> root'.files] /\ root' \in Trees
  BY <1>1, <1>2 DEF Trees, Files, Contents
<1> QED
  BY <1>1, <1>3, ConstantsAssumption DEF ManifestOf

\* Every action keeps the manifests to the digests of verified bytes.
LEMMA VerifiedStep ==
  TypeOK /\ StagingInv /\ ManifestsRecordVerifiedBytes /\ [Next]_vars
    => ManifestsRecordVerifiedBytes'
<1> SUFFICES ASSUME TypeOK, StagingInv, ManifestsRecordVerifiedBytes, [Next]_vars
             PROVE  ManifestsRecordVerifiedBytes'
  OBVIOUS
<1> DEFINE Truthful(m) == m \in Receipts => m = Receipt(m.pin)
<1>1. ManifestsRecordVerifiedBytes <=>
        Truthful(ManifestOf(root)) /\ Truthful(ManifestOf(backup))
  BY ConstantsAssumption DEF ManifestsRecordVerifiedBytes, Managed, ManifestOf
<1>2. ManifestsRecordVerifiedBytes' <=>
        Truthful(ManifestOf(root)') /\ Truthful(ManifestOf(backup)')
  BY ConstantsAssumption DEF ManifestsRecordVerifiedBytes, Managed, ManifestOf
<1>3. Truthful(None) /\ Truthful(OtherManifest)
  BY ConstantsAssumption
<1>4. CASE UNCHANGED <<root, backup>>
  BY <1>4, <1>1, <1>2 DEF ManifestOf
<1>5. ASSUME NEW p \in Procs, ClearBackup(p) \/ DropBackup(p)
      PROVE  ManifestsRecordVerifiedBytes'
  <2>1. root' = root /\ backup' \in Leavings(backup)
    BY <1>5 DEF ClearBackup, DropBackup
  <2>2. ManifestOf(backup)' \in {None, ManifestOf(backup)}
    BY <2>1, LeavingsManifest DEF ManifestOf
  <2> QED
    BY <2>1, <2>2, <1>1, <1>2, <1>3 DEF ManifestOf
<1>6. ASSUME NEW p \in Procs, SetAside(p) \/ RollBack(p)
      PROVE  ManifestsRecordVerifiedBytes'
  <2>1. \/ UNCHANGED <<root, backup>>
        \/ backup' = root /\ root' = Absent
        \/ root' = backup /\ backup' = Absent
    BY <1>6 DEF SetAside, RollBack
  <2> QED
    BY <2>1, <1>1, <1>2, <1>3 DEF ManifestOf
<1>7. ASSUME NEW p \in Procs, SwapIn(p)
      PROVE  ManifestsRecordVerifiedBytes'
  <2>1. backup' = backup /\ root' \in {root, Whole(pin[p])}
    BY <1>7 DEF SwapIn, StagingInv
  <2>2. Whole(pin[p]) # Absent => ManifestOf(Whole(pin[p])) = Receipt(pin[p])
    BY DEF ManifestOf, Whole
  <2>3. Truthful(Receipt(pin[p]))
    BY DEF Receipt
  <2> QED
    BY <2>1, <2>2, <2>3, <1>1, <1>2, <1>3 DEF ManifestOf
<1>8. ASSUME NEW p \in Procs, RemoveAll(p)
      PROVE  ManifestsRecordVerifiedBytes'
  <2>1. root \in Trees
    BY <1>8 DEF RemoveAll, TypeOK, Dirs
  <2>2. backup' = backup /\ ManifestOf(root)' \in {None, ManifestOf(root)}
    BY <1>8, <2>1 DEF RemoveAll, ManifestOf, Trees
  <2> QED
    BY <2>2, <1>1, <1>2, <1>3 DEF ManifestOf
<1>9. CASE Tamper
  BY <1>9, <1>1, <1>2, TamperKeepsManifest DEF Tamper, ManifestOf
<1>10. CASE Squat
  <2>1. backup' = backup /\ ManifestOf(root)' \in {None, OtherManifest}
    BY <1>10 DEF Squat, ForeignTrees, ManifestOf
  <2> QED
    BY <2>1, <1>1, <1>2, <1>3 DEF ManifestOf
<1> QED
  BY <1>4, <1>5, <1>6, <1>7, <1>8, <1>9, <1>10
  DEF Next, Step, vars, Start, StatBeforeReinstall, Reject, AcquireBundleLock,
      ReleaseBundleLock, Return, ValidateExistingRoot, FetchPinnedObjects,
      ExtractToStage, WriteManifest, StatRoot, RemoveStage, InspectRoot,
      DoctorManifest, DoctorCommand, DoctorDigest, Crash, ClearStaleLock

\* Whatever fails and whenever a call is killed, a manifest of the bundle on
\* disk records the digests of the artifact it names.
THEOREM VerifiedBytes == Spec => []ManifestsRecordVerifiedBytes
<1>1. Init => ManifestsRecordVerifiedBytes
  BY ConstantsAssumption
  DEF Init, ManifestsRecordVerifiedBytes, Managed, ManifestOf, ForeignTrees
<1> QED
  BY <1>1, VerifiedStep, Staging, PTL DEF Spec

-----------------------------------------------------------------------------
(* The lock.                                                               *)

\* Every action keeps the holders of the lock file apart.
LEMMA MutexStep == TypeOK /\ MutualExclusion /\ [Next]_vars => MutualExclusion'
<1> SUFFICES ASSUME TypeOK, MutualExclusion, [Next]_vars
             PROVE  \A q \in Procs : InExclusive(q)' => lockFile' = q
  BY DEF MutualExclusion
<1> USE ConstantsAssumption
    DEF Goto, Conclude, Fail, TypeOK, MutualExclusion, InExclusive, Exclusive
<1>1. ASSUME NEW p \in Procs, Start(p) \/ StatBeforeReinstall(p) \/ Reject(p)
      PROVE  \A q \in Procs : InExclusive(q)' => lockFile' = q
  BY <1>1 DEF Start, StatBeforeReinstall, Reject
<1>2. ASSUME NEW p \in Procs, AcquireBundleLock(p)
      PROVE  \A q \in Procs : InExclusive(q)' => lockFile' = q
  BY <1>2 DEF AcquireBundleLock, LockAvailable
<1>3. ASSUME NEW p \in Procs, ReleaseBundleLock(p)
      PROVE  \A q \in Procs : InExclusive(q)' => lockFile' = q
  BY <1>3 DEF ReleaseBundleLock, AfterUnlock
<1>4. ASSUME NEW p \in Procs, Return(p) \/ Crash(p)
      PROVE  \A q \in Procs : InExclusive(q)' => lockFile' = q
  BY <1>4 DEF Return, Crash, Forget
<1>5. ASSUME NEW p \in Procs,
             \/ ValidateExistingRoot(p) \/ FetchPinnedObjects(p) \/ ExtractToStage(p)
             \/ WriteManifest(p) \/ ClearBackup(p) \/ StatRoot(p) \/ SetAside(p)
      PROVE  \A q \in Procs : InExclusive(q)' => lockFile' = q
  BY <1>5 DEF ValidateExistingRoot, FetchPinnedObjects, ExtractToStage,
              WriteManifest, ClearBackup, StatRoot, SetAside
<1>6. ASSUME NEW p \in Procs,
             \/ SwapIn(p) \/ RollBack(p) \/ DropBackup(p) \/ RemoveStage(p)
             \/ InspectRoot(p) \/ RemoveAll(p)
      PROVE  \A q \in Procs : InExclusive(q)' => lockFile' = q
  BY <1>6 DEF SwapIn, AfterFailedSwap, RollBack, DropBackup, RemoveStage,
              InspectRoot, RemoveAll
<1>7. ASSUME NEW p \in Procs, DoctorManifest(p) \/ DoctorCommand(p) \/ DoctorDigest(p)
      PROVE  \A q \in Procs : InExclusive(q)' => lockFile' = q
  BY <1>7 DEF DoctorManifest, DoctorCommand, DoctorDigest
<1>8. CASE ClearStaleLock \/ Tamper \/ Squat \/ UNCHANGED vars
  BY <1>8 DEF ClearStaleLock, Tamper, Squat, vars
<1> QED
  BY <1>1, <1>2, <1>3, <1>4, <1>5, <1>6, <1>7, <1>8 DEF Next, Step

\* The bundle lock excludes, through crashes, failed unlocks and the removal
\* of stale lock files.
THEOREM LockExcludes == Spec => []MutualExclusion
<1>1. Init => MutualExclusion
  BY DEF Init, MutualExclusion, InExclusive, Exclusive
<1> QED
  BY <1>1, MutexStep, TypeCorrectness, PTL DEF Spec

-----------------------------------------------------------------------------
(* The replacement of an install.                                          *)

\* The labels before a call can have failed and still be replacing.
Untroubled == {"idle", "stat", "lock", "validate", "fetch", "extract", "manifest",
               "clearBackup", "statRoot", "setAside", "swapIn", "dropBackup",
               "inspect", "removing"}

\* Where the install that p replaces is, label by label.
SwapOf(p) ==
  /\ pc[p] \in Untroubled => outcome[p] = "none"
  /\ pc[p] \in {"inspect", "removing"} => op[p] = "uninstall"
  /\ pc[p] = "dropBackup" => ManifestOf(root) = Receipt(pin[p])
  /\ prior[p] \in Receipts /\ op[p] # "uninstall" =>
       /\ pc[p] \in {"fetch", "extract", "manifest", "clearBackup", "statRoot",
                     "setAside"} => ManifestOf(root) = prior[p]
       /\ pc[p] \in {"setAside", "swapIn"} => hadExisting[p]
       /\ pc[p] \in {"swapIn", "rollback"} => ManifestOf(backup) = prior[p]
       /\ pc[p] = "removeStage" => prior[p] \in {ManifestOf(root), ManifestOf(backup)}
       /\ pc[p] = "unlock" =>
            \/ prior[p] \in {ManifestOf(root), ManifestOf(backup)}
            \/ outcome[p] # "error" /\ ManifestOf(root) = Receipt(pin[p])

SwapInv == \A p \in Procs : SwapOf(p)

AllInv == TypeOK /\ StagingInv /\ MutualExclusion /\ SwapInv

\* A call that holds the lock cannot disturb the clause of another process.
LEMMA SwapFrame ==
  ASSUME AllInv, NEW p \in Procs, NEW q \in Procs, p # q, InExclusive(p),
         pc'[q] = pc[q], outcome'[q] = outcome[q], op'[q] = op[q]
  PROVE  SwapOf(q)'
  BY DEF AllInv, MutualExclusion, InExclusive, Exclusive, SwapInv, SwapOf

\* Nor can a step that moves nothing.
LEMMA SwapUnmoved ==
  ASSUME AllInv, NEW q \in Procs, UNCHANGED <<root, backup>>,
         pc'[q] = pc[q], outcome'[q] = outcome[q], prior'[q] = prior[q],
         op'[q] = op[q], pin'[q] = pin[q], hadExisting'[q] = hadExisting[q]
  PROVE  SwapOf(q)'
  BY DEF AllInv, SwapInv, SwapOf, ManifestOf

\* Nor does what happens to the root from outside.
LEMMA SwapOutside ==
  ASSUME AllInv, NEW q \in Procs,
         UNCHANGED <<backup, pc, call, work, outcome, history>>,
         \/ ManifestOf(root)' = ManifestOf(root)
         \/ ManifestOf(root) \notin Receipts
  PROVE  SwapOf(q)'
<1>1. SwapOf(q) /\ (pc[q] # "idle" => Receipt(pin[q]) \in Receipts)
  BY WholeType DEF AllInv, SwapInv, StagingInv
<1>2. ManifestOf(backup)' = ManifestOf(backup)
  BY DEF ManifestOf
<1> QED
  BY <1>1, <1>2 DEF SwapOf, call, work, history

\* Every action keeps the relation of root, copy and staged tree that each step of a
\* replacement needs.
LEMMA SwapStep == AllInv /\ [Next]_vars => SwapInv'
<1> SUFFICES ASSUME AllInv, [Next]_vars, NEW q \in Procs
             PROVE  SwapOf(q)'
  BY DEF SwapInv
<1> USE DEF Goto, Conclude, Fail, call, work, exam, history, Untroubled
<1> DEFINE Mine == prior[q] \in Receipts /\ op[q] # "uninstall"
<1>0. TypeOK /\ SwapOf(q)
  BY DEF AllInv, SwapInv
<1>1. ASSUME NEW p \in Procs, Start(p) \/ StatBeforeReinstall(p) \/ Reject(p)
      PROVE  SwapOf(q)'
  <2>1. CASE p = q
    BY <1>0, <1>1, <2>1 DEF Start, StatBeforeReinstall, Reject, SwapOf, TypeOK
  <2>2. CASE p # q
    BY <1>0, <1>1, <2>2, SwapUnmoved
    DEF Start, StatBeforeReinstall, Reject, TypeOK
  <2> QED
    BY <2>1, <2>2
<1>2. ASSUME NEW p \in Procs, AcquireBundleLock(p)
      PROVE  SwapOf(q)'
  <2>1. CASE p = q
    BY <1>0, <1>2, <2>1 DEF AcquireBundleLock, SwapOf, TypeOK
  <2>2. CASE p # q
    BY <1>0, <1>2, <2>2, SwapUnmoved DEF AcquireBundleLock, TypeOK
  <2> QED
    BY <2>1, <2>2
<1>3. ASSUME NEW p \in Procs, Return(p) \/ Crash(p)
      PROVE  SwapOf(q)'
  <2>1. CASE p = q
    BY <1>0, <1>3, <2>1 DEF Return, Crash, Forget, SwapOf, TypeOK
  <2>2. CASE p # q
    BY <1>0, <1>3, <2>2, SwapUnmoved DEF Return, Crash, Forget, TypeOK
  <2> QED
    BY <2>1, <2>2
<1>4. ASSUME NEW p \in Procs, DoctorManifest(p) \/ DoctorCommand(p) \/ DoctorDigest(p)
      PROVE  SwapOf(q)'
  <2>1. CASE p = q
    BY <1>0, <1>4, <2>1 DEF DoctorManifest, DoctorCommand, DoctorDigest, SwapOf, TypeOK
  <2>2. CASE p # q
    BY <1>0, <1>4, <2>2, SwapUnmoved
    DEF DoctorManifest, DoctorCommand, DoctorDigest, TypeOK
  <2> QED
    BY <2>1, <2>2
<1>5. ASSUME NEW p \in Procs, p # q,
             \/ ValidateExistingRoot(p) \/ FetchPinnedObjects(p) \/ ExtractToStage(p)
             \/ WriteManifest(p) \/ ClearBackup(p) \/ StatRoot(p) \/ SetAside(p)
             \/ SwapIn(p) \/ RollBack(p) \/ DropBackup(p) \/ RemoveStage(p)
             \/ InspectRoot(p) \/ RemoveAll(p) \/ ReleaseBundleLock(p)
      PROVE  SwapOf(q)'
  <2>1. InExclusive(p)
    BY <1>5 DEF InExclusive, Exclusive, ValidateExistingRoot, FetchPinnedObjects,
      ExtractToStage, WriteManifest, ClearBackup, StatRoot, SetAside, SwapIn,
      RollBack, DropBackup, RemoveStage, InspectRoot, RemoveAll, ReleaseBundleLock
  <2>2. pc'[q] = pc[q] /\ outcome'[q] = outcome[q] /\ op'[q] = op[q]
    BY <1>0, <1>5 DEF TypeOK, ValidateExistingRoot, FetchPinnedObjects,
      ExtractToStage, WriteManifest, ClearBackup, StatRoot, SetAside, SwapIn,
      RollBack, DropBackup, RemoveStage, InspectRoot, RemoveAll, ReleaseBundleLock
  <2> QED
    BY <1>5, <2>1, <2>2, SwapFrame
<1>6. CASE ValidateExistingRoot(q)
  BY <1>0, <1>6 DEF ValidateExistingRoot, SwapOf, ManifestOf, TypeOK
<1>7. CASE \/ FetchPinnedObjects(q) \/ ExtractToStage(q) \/ WriteManifest(q)
  BY <1>0, <1>7
  DEF FetchPinnedObjects, ExtractToStage, WriteManifest, SwapOf, ManifestOf, TypeOK
<1>8. CASE ClearBackup(q)
  BY <1>0, <1>8 DEF ClearBackup, SwapOf, ManifestOf, TypeOK
<1>9. CASE StatRoot(q)
  BY <1>0, <1>9, ConstantsAssumption DEF StatRoot, SwapOf, ManifestOf, TypeOK
<1>10. CASE SetAside(q)
  BY <1>0, <1>10 DEF SetAside, SwapOf, ManifestOf, TypeOK
<1>11. CASE SwapIn(q)
  <2>1. stage[q] = Whole(pin[q]) /\ pin[q] \in Pins
    BY <1>11 DEF SwapIn, AllInv, StagingInv
  <2>2. ManifestOf(stage[q]) = Receipt(pin[q])
    BY <2>1, WholeType, ConstantsAssumption DEF ManifestOf, Whole
  <2>3. CASE root' = stage[q]
    BY <1>0, <1>11, <2>2, <2>3 DEF SwapIn, AfterFailedSwap, SwapOf, ManifestOf, TypeOK
  <2>4. CASE UNCHANGED <<root, stage>> /\ Fail(q, AfterFailedSwap(q))
    BY <1>0, <1>11, <2>4 DEF SwapIn, AfterFailedSwap, SwapOf, ManifestOf, TypeOK
  <2> QED
    BY <1>11, <2>3, <2>4 DEF SwapIn
<1>12. CASE RollBack(q)
  BY <1>0, <1>12 DEF RollBack, SwapOf, ManifestOf, TypeOK
<1>13. CASE DropBackup(q)
  BY <1>0, <1>13 DEF DropBackup, SwapOf, ManifestOf, TypeOK
<1>14. CASE RemoveStage(q)
  BY <1>0, <1>14 DEF RemoveStage, SwapOf, ManifestOf, TypeOK
<1>15. CASE InspectRoot(q) \/ RemoveAll(q)
  BY <1>0, <1>15 DEF InspectRoot, RemoveAll, SwapOf, TypeOK
<1>16. CASE ReleaseBundleLock(q)
  BY <1>0, <1>16 DEF ReleaseBundleLock, SwapOf, TypeOK
<1>17. CASE ClearStaleLock \/ UNCHANGED vars
  BY <1>17, SwapUnmoved DEF ClearStaleLock, vars
<1>18. CASE Tamper
  BY <1>0, <1>18, TamperKeepsManifest, SwapOutside DEF Tamper
<1>19. CASE Squat
  BY <1>19, SwapOutside, ConstantsAssumption DEF Squat, ManifestOf
<1> QED
  BY <1>1, <1>2, <1>3, <1>4, <1>5, <1>6, <1>7, <1>8, <1>9, <1>10, <1>11, <1>12,
     <1>13, <1>14, <1>15, <1>16, <1>17, <1>18, <1>19 DEF Next, Step

\* The whole inductive invariant, in every reachable state.
LEMMA AllInvariant == Spec => []AllInv
<1>1. Init => AllInv
  BY InitTypes
  DEF Init, AllInv, MutualExclusion, InExclusive, Exclusive, SwapInv, SwapOf
<1>2. AllInv /\ [Next]_vars => AllInv'
  BY TypeStep, StagingStep, MutexStep, SwapStep DEF AllInv
<1> QED
  BY <1>1, <1>2, PTL DEF Spec

\* In every state of a replacement, and so wherever it may be killed, the
\* replaced install or the new one is at the root or the old one in its backup.
THEOREM CopySurvives == Spec => []PriorCopySurvives
<1>1. AllInv => PriorCopySurvives
  <2> SUFFICES ASSUME AllInv, NEW p \in Procs, Replacing(p)
               PROVE  \/ ManifestOf(root) = prior[p]
                      \/ ManifestOf(backup) = prior[p]
                      \/ outcome[p] # "error" /\ ManifestOf(root) = Receipt(pin[p])
    BY DEF PriorCopySurvives
  <2>1. SwapOf(p)
    BY DEF AllInv, SwapInv
  <2> QED
    BY <2>1 DEF SwapOf, Replacing, Untroubled
<1> QED
  BY <1>1, AllInvariant, PTL

\* The old install leaves the root only when its replacement is staged.
THEOREM StagedBeforeRemoved == Spec => OldInstallLeavesOnlyForStaged
<1> DEFINE StagedFirst ==
      \A p \in Procs :
        Replacing(p) /\ lockFile = p /\ ManifestOf(root) = prior[p] /\ root' = Absent
          => stage[p] = Whole(pin[p])
<1>1. AllInv /\ [Next]_vars => StagedFirst
  <2> SUFFICES ASSUME AllInv, [Next]_vars, NEW p \in Procs, Replacing(p), lockFile = p,
                      ManifestOf(root) = prior[p], root' = Absent
               PROVE  stage[p] = Whole(pin[p])
    OBVIOUS
  <2>1. root # Absent
    BY ConstantsAssumption DEF Replacing, ManifestOf
  <2>2. ~ UNCHANGED root
    BY <2>1
  <2>3. ASSUME NEW q \in Procs, SetAside(q)
        PROVE  stage[p] = Whole(pin[p])
    BY <2>3 DEF SetAside, AllInv, StagingInv, MutualExclusion, InExclusive, Exclusive
  <2>4. ASSUME NEW q \in Procs, RemoveAll(q)
        PROVE  FALSE
    BY <2>4 DEF RemoveAll, AllInv, MutualExclusion, InExclusive, Exclusive, Replacing
  <2>5. ASSUME NEW q \in Procs, SwapIn(q) \/ RollBack(q)
        PROVE  FALSE
    BY <2>1, <2>2, <2>5 DEF SwapIn, RollBack
  <2>6. CASE Tamper
    BY <2>6, <2>2, TamperKeepsManifest, ConstantsAssumption
    DEF AllInv, Replacing, ManifestOf
  <2>7. CASE Squat
    BY <2>1, <2>7 DEF Squat
  <2> QED
    BY <2>2, <2>3, <2>4, <2>5, <2>6, <2>7
    DEF Next, Step, vars, Start, StatBeforeReinstall, Reject, AcquireBundleLock,
        ReleaseBundleLock, Return, ValidateExistingRoot, FetchPinnedObjects,
        ExtractToStage, WriteManifest, ClearBackup, DropBackup, StatRoot, RemoveStage,
        InspectRoot, DoctorManifest, DoctorCommand, DoctorDigest, Crash, ClearStaleLock
<1> QED
  BY <1>1, AllInvariant, PTL DEF OldInstallLeavesOnlyForStaged, Spec

\* Whatever is killed or fails, in whichever of many calls, the last copy goes
\* only to an uninstaller or to a replacement that is completely staged.
THEOREM LastCopyYields == Spec => LastCopyYieldsToStaged
<1> DEFINE Yields == HasCopy /\ ~HasCopy' =>
                       \E p \in Procs : \/ pc[p] = "removing"
                                        \/ pc[p] = "clearBackup" /\ stage[p] = Whole(pin[p])
<1>1. AllInv /\ [Next]_vars => Yields
  <2> SUFFICES ASSUME AllInv, [Next]_vars, HasCopy, ~HasCopy'
               PROVE  \E p \in Procs : \/ pc[p] = "removing"
                                       \/ pc[p] = "clearBackup" /\ stage[p] = Whole(pin[p])
    OBVIOUS
  <2>1. /\ ManifestOf(root) \in Receipts \/ ManifestOf(backup) \in Receipts
        /\ ManifestOf(root)' \notin Receipts /\ ManifestOf(backup)' \notin Receipts
    BY DEF HasCopy, Managed
  <2>2. ~ UNCHANGED <<root, backup>>
    BY <2>1 DEF ManifestOf
  <2>3. ASSUME NEW p \in Procs, ClearBackup(p)
        PROVE  pc[p] = "clearBackup" /\ stage[p] = Whole(pin[p])
    BY <2>3 DEF ClearBackup, AllInv, StagingInv
  <2>4. ASSUME NEW p \in Procs, RemoveAll(p) PROVE pc[p] = "removing"
    BY <2>4 DEF RemoveAll
  <2>5. ASSUME NEW p \in Procs, DropBackup(p) PROVE FALSE
    <3>1. ManifestOf(root) = Receipt(pin[p]) /\ pin[p] \in Pins
      BY <2>5 DEF DropBackup, AllInv, SwapInv, SwapOf, StagingInv
    <3>2. ManifestOf(root) \in Receipts
      BY <3>1, WholeType
    <3> QED
      BY <2>1, <2>5, <3>2 DEF DropBackup, ManifestOf
  <2>6. ASSUME NEW p \in Procs, SetAside(p) PROVE FALSE
    <3>1. backup' = root /\ backup = Absent
      BY <2>2, <2>6 DEF SetAside
    <3>2. ManifestOf(backup)' = ManifestOf(root) /\ ManifestOf(backup) = None
      BY <3>1 DEF ManifestOf
    <3> QED
      BY <2>1, <3>2, ConstantsAssumption
  <2>7. ASSUME NEW p \in Procs, SwapIn(p) PROVE FALSE
    <3>1. root = Absent /\ backup' = backup
      BY <2>2, <2>7 DEF SwapIn
    <3>2. ManifestOf(backup)' = ManifestOf(backup) /\ ManifestOf(root) = None
      BY <3>1 DEF ManifestOf
    <3> QED
      BY <2>1, <3>2, ConstantsAssumption
  <2>8. ASSUME NEW p \in Procs, RollBack(p) PROVE FALSE
    <3>1. root = Absent /\ root' = backup
      BY <2>2, <2>8 DEF RollBack
    <3>2. ManifestOf(root)' = ManifestOf(backup) /\ ManifestOf(root) = None
      BY <3>1 DEF ManifestOf
    <3> QED
      BY <2>1, <3>2, ConstantsAssumption
  <2>9. CASE Tamper
    BY <2>1, <2>9, TamperKeepsManifest DEF Tamper, AllInv, ManifestOf
  <2>10. CASE Squat
    <3>1. backup' = backup /\ root = Absent
      BY <2>10 DEF Squat
    <3>2. ManifestOf(backup)' = ManifestOf(backup) /\ ManifestOf(root) = None
      BY <3>1 DEF ManifestOf
    <3> QED
      BY <2>1, <3>2, ConstantsAssumption
  <2> QED
    BY <2>2, <2>3, <2>4, <2>5, <2>6, <2>7, <2>8, <2>9, <2>10
    DEF Next, Step, vars, Start, StatBeforeReinstall, Reject, AcquireBundleLock,
        ReleaseBundleLock, Return, ValidateExistingRoot, FetchPinnedObjects,
        ExtractToStage, WriteManifest, StatRoot, RemoveStage, InspectRoot,
        DoctorManifest, DoctorCommand, DoctorDigest, Crash, ClearStaleLock
<1> QED
  BY <1>1, AllInvariant, PTL DEF LastCopyYieldsToStaged, Spec
=============================================================================
