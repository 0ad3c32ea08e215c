--------------------- MODULE ManagedRuntimeOutcomeProofs ---------------------
(* What the calls of ManagedRuntimeInstaller leave at the root, whatever    *)
(* fails and wherever they are killed.                                      *)
EXTENDS ManagedRuntimeRefinementProofs

\* All that the calls rely on, where nobody else makes a directory.
LEMMA MapInvariant ==
  ASSUME "squat" \notin Faults
  PROVE  Spec => []MapInv
<1>1. Init => MapInv
  BY InitMaps
<1>2. MapInv /\ ManifestsRecordVerifiedBytes /\ [Next]_vars => MapInv'
  BY NextMaps
<1> QED
  BY <1>1, <1>2, VerifiedBytes, PTL DEF Spec

\* No step but those of a removal makes a root that no later call would touch.
THEOREM OrphansOnlyByUninstall ==
  ASSUME "squat" \notin Faults
  PROVE  Spec => OnlyUninstallOrphansRoot
<1> DEFINE Orphaned == Usable(root) /\ ~Usable(root') => \E p \in Procs : pc[p] = "removing"
<1>1. MapInv /\ [Next]_vars => Orphaned
  <2> SUFFICES ASSUME MapInv, [Next]_vars, Usable(root), ~Usable(root')
               PROVE  \E p \in Procs : pc[p] = "removing"
    OBVIOUS
  <2>1. root' # root /\ root' # Absent
    BY DEF Usable, Managed, ManifestOf
  <2>2. ASSUME NEW p \in Procs, RollBack(p)
        PROVE  FALSE
    BY <2>1, <2>2 DEF RollBack, MapInv, PromotionInv, PromotionOf, RootIsClear, Renaming,
      Usable
  <2>3. ASSUME NEW p \in Procs, SwapIn(p)
        PROVE  FALSE
    <3>1. root' = Whole(pin[p]) /\ pin[p] \in Pins
      BY <2>1, <2>3 DEF SwapIn, MapInv, AllInv, StagingInv
    <3>2. Managed(Whole(pin[p]))
      BY <2>1, <3>1, WholeType DEF Whole, Managed, ManifestOf
    <3> QED
      BY <3>1, <3>2 DEF Usable
  <2>4. CASE Tamper
    BY <2>1, <2>4, TamperKeepsManifest DEF Tamper, Usable, Managed, ManifestOf, MapInv, AllInv
  <2>5. ASSUME NEW p \in Procs, RemoveAll(p)
        PROVE  pc[p] = "removing"
    BY <2>5 DEF RemoveAll
  <2> QED
    BY <2>1, <2>2, <2>3, <2>4, <2>5
    DEF Squat, ClearBackup, DropBackup, SetAside, Next, Step, vars, Start, StatBeforeReinstall, Reject, AcquireBundleLock,
        ReleaseBundleLock, Return, ValidateExistingRoot, FetchPinnedObjects,
        ExtractToStage, WriteManifest, StatRoot, RemoveStage, InspectRoot,
        DoctorManifest, DoctorCommand, DoctorDigest, Crash, ClearStaleLock
<1> QED
  BY <1>1, MapInvariant, PTL DEF Spec, OnlyUninstallOrphansRoot

\* No install, and no removal under way, is of a directory the installer did
\* not make.
OursInv ==
  /\ Managed(root) => ~Foreign(root)
  /\ Managed(backup) => ~Foreign(backup)
  /\ \A p \in Procs : pc[p] = "removing" => ~Foreign(root)

\* Every action keeps the installer to what it made.
LEMMA OursStep ==
  ASSUME "squat" \notin Faults, MapInv, OursInv, [Next]_vars
  PROVE  OursInv' /\ (Foreign(root) => root' = root)
<1> USE DEF Goto, Conclude, Fail, call, work, exam, history
<1>0. TypeOK /\ MutualExclusion /\ StagingInv
  BY DEF MapInv, AllInv
<1>1. ~Foreign(Absent) /\ ~Managed(Absent)
  BY AbsentUnmanaged, ConstantsAssumption DEF Foreign, FileOf
<1>2. CASE /\ UNCHANGED <<root, backup>>
           /\ \A p \in Procs : pc'[p] = "removing" => pc[p] = "removing"
  BY <1>2 DEF OursInv, Foreign, FileOf, Managed, ManifestOf
<1>3. ASSUME NEW p \in Procs, ClearBackup(p) \/ DropBackup(p)
      PROVE  OursInv' /\ (Foreign(root) => root' = root)
  <2>1. root' = root /\ backup' \in Leavings(backup)
        /\ \A q \in Procs : pc'[q] = "removing" => pc[q] = "removing"
    BY <1>0, <1>3 DEF ClearBackup, DropBackup, TypeOK
  <2>2. Managed(backup') => ~Foreign(backup')
    <3> SUFFICES ASSUME Managed(backup'), NEW f \in Payload, FileOf(backup', f) = Theirs
                 PROVE  FALSE
      BY DEF Foreign
    <3>1. backup' # Absent /\ backup # Absent
      BY <1>1, <2>1 DEF Leavings
    <3>2. Managed(backup) /\ backup'.files[f] \in {backup.files[f], None}
      BY <2>1, <3>1, ConstantsAssumption DEF Leavings, Managed, ManifestOf
    <3> QED
      BY <3>1, <3>2, ConstantsAssumption DEF FileOf, OursInv, Foreign
  <2> QED
    BY <2>1, <2>2 DEF OursInv, Foreign, FileOf, Managed, ManifestOf
<1>4. ASSUME NEW p \in Procs, SetAside(p) \/ RollBack(p)
      PROVE  OursInv' /\ (Foreign(root) => root' = root)
  <2>1. \A q \in Procs : pc'[q] # "removing"
    BY <1>0, <1>4 DEF SetAside, RollBack, TypeOK, MutualExclusion, InExclusive, Exclusive
  <2>2. \/ UNCHANGED <<root, backup>>
        \/ backup' = root /\ root' = Absent /\ Managed(root)
        \/ root' = backup /\ backup' = Absent /\ root = Absent
    BY <1>4 DEF SetAside, RollBack, MapInv, PromotionInv, PromotionOf, Usable
  <2> QED
    BY <1>1, <2>1, <2>2 DEF OursInv, Foreign, FileOf, Managed, ManifestOf
<1>5. ASSUME NEW p \in Procs, SwapIn(p)
      PROVE  OursInv' /\ (Foreign(root) => root' = root)
  <2>1. \A q \in Procs : pc'[q] # "removing"
    BY <1>0, <1>5
    DEF SwapIn, AfterFailedSwap, TypeOK, MutualExclusion, InExclusive, Exclusive
  <2>2. backup' = backup /\ root = Absent /\ root' \in {root, Whole(pin[p])} /\ pin[p] \in Pins
    BY <1>0, <1>5 DEF SwapIn, StagingInv, MapInv, PromotionInv, PromotionOf, Renaming
  <2>3. ~Foreign(Whole(pin[p]))
    <3>1. \A f \in Payload : Unpack(pin[p])[f] # Theirs
      BY <2>2, LookedFor, ConstantsAssumption
    <3> QED
      BY <3>1, ConstantsAssumption DEF Foreign, FileOf, Whole
  <2> QED
    BY <1>1, <2>1, <2>2, <2>3 DEF OursInv, Foreign, FileOf, Managed, ManifestOf
<1>6. ASSUME NEW f \in Payload, root' = [root EXCEPT !.files[f] = None]
                               \/ root' = [root EXCEPT !.files[f] = Altered],
             root \in Trees, ~Foreign(root)
      PROVE  ~Foreign(root')
  <2>1. root # Absent /\ root' # Absent
        /\ \A g \in Payload : root'.files[g] \in {root.files[g], None, Altered}
    BY <1>6, ConstantsAssumption DEF Trees, Files, Contents
  <2> QED
    BY <1>6, <2>1, ConstantsAssumption DEF Foreign, FileOf
<1>7. ASSUME NEW p \in Procs, RemoveAll(p)
      PROVE  OursInv' /\ (Foreign(root) => root' = root)
  <2>1. root \in Trees /\ ~Foreign(root) /\ backup' = backup
    BY <1>0, <1>7 DEF RemoveAll, OursInv, TypeOK, Dirs
  <2>2. ~Foreign([root EXCEPT !.manifest = None])
    BY <2>1, ConstantsAssumption DEF Foreign, FileOf, Trees, Manifests
  <2>3. ~Foreign(root')
    BY <1>1, <1>6, <1>7, <2>1, <2>2 DEF RemoveAll
  <2> QED
    BY <2>1, <2>3 DEF OursInv, Foreign, FileOf, Managed, ManifestOf
<1>8. ASSUME NEW p \in Procs, InspectRoot(p)
      PROVE  OursInv' /\ (Foreign(root) => root' = root)
  <2>1. UNCHANGED <<root, backup>>
        /\ \A q \in Procs : pc'[q] = "removing" => pc[q] = "removing" \/ Managed(root)
    BY <1>0, <1>1, <1>8 DEF InspectRoot, TypeOK
  <2> QED
    BY <2>1 DEF OursInv, Foreign, FileOf, Managed, ManifestOf
<1>9. CASE Tamper
  <2>1. root \in Trees /\ Managed(root) /\ ~Foreign(root) /\ UNCHANGED <<backup, pc>>
    BY <1>0, <1>9, ManagedTree DEF Tamper, OursInv, TypeOK
  <2>2. ~Foreign(root')
    BY <1>6, <1>9, <2>1 DEF Tamper
  <2> QED
    BY <2>1, <2>2 DEF OursInv, Foreign, FileOf, Managed, ManifestOf
<1>10. ASSUME NEW p \in Procs,
             \/ Start(p) \/ StatBeforeReinstall(p) \/ Reject(p) \/ AcquireBundleLock(p)
             \/ ReleaseBundleLock(p) \/ Return(p) \/ Crash(p) \/ ValidateExistingRoot(p)
             \/ FetchPinnedObjects(p) \/ ExtractToStage(p) \/ WriteManifest(p) \/ StatRoot(p)
             \/ RemoveStage(p) \/ DoctorManifest(p) \/ DoctorCommand(p) \/ DoctorDigest(p)
       PROVE  /\ UNCHANGED <<root, backup>>
              /\ \A q \in Procs : pc'[q] = "removing" => pc[q] = "removing"
  BY <1>0, <1>10
  DEF TypeOK, Start, StatBeforeReinstall, Reject, AcquireBundleLock,
      ReleaseBundleLock, Return, Crash, Forget, ValidateExistingRoot, FetchPinnedObjects,
      ExtractToStage, WriteManifest, StatRoot, RemoveStage, DoctorManifest, DoctorCommand,
      DoctorDigest
<1>11. CASE ClearStaleLock \/ UNCHANGED vars
  BY <1>2, <1>11 DEF ClearStaleLock, vars
<1>12. ~Squat
  BY DEF Squat
<1> QED
  BY <1>2, <1>3, <1>4, <1>5, <1>7, <1>8, <1>9, <1>10, <1>11, <1>12 DEF Next, Step

\* What was there before the installer, and is not the bundle, stays as it is.
THEOREM ForeignStays ==
  ASSUME "squat" \notin Faults
  PROVE  Spec => ForeignRootUntouched
<1>1. Init => OursInv
  BY ForeignUnmanaged, AbsentUnmanaged DEF Init, OursInv
<1>2. MapInv /\ OursInv /\ [Next]_vars => OursInv' /\ (Foreign(root) => root' = root)
  BY OursStep
<1> QED
  BY <1>1, <1>2, MapInvariant, PTL DEF Spec, ForeignRootUntouched

\* An install that has failed has what it meant to replace at the root.
KeptOf(p) ==
  /\ prior[p] \in Receipts /\ op[p] # "uninstall"
  /\ pc[p] = "removeStage" \/ (pc[p] = "unlock" /\ outcome[p] = "error")
  => ManifestOf(root) = prior[p]
KeptInv == \A p \in Procs : KeptOf(p)

\* A call that holds the lock is the only one that moves root and backup.
LEMMA HolderMoves ==
  ASSUME AllInv, NEW q \in Procs, InExclusive(q),
         NEW p \in Procs, p # q, Start(p) \/ Step(p) \/ Crash(p)
  PROVE  /\ UNCHANGED <<root, backup>>
         /\ pc'[q] = pc[q] /\ outcome'[q] = outcome[q] /\ op'[q] = op[q]
         /\ prior'[q] = prior[q] /\ object'[q] = object[q] /\ pin'[q] = pin[q]
<1> USE DEF Goto, Conclude, Fail, call, work, exam, history
<1>1. TypeOK /\ ~InExclusive(p)
  BY DEF AllInv, MutualExclusion
<1> QED
  BY <1>1
  DEF TypeOK, InExclusive, Exclusive, Step, Start, StatBeforeReinstall, Reject,
      AcquireBundleLock, ReleaseBundleLock, Return, ValidateExistingRoot,
      FetchPinnedObjects, ExtractToStage, WriteManifest, ClearBackup, StatRoot,
      SetAside, SwapIn, RollBack, DropBackup, RemoveStage, InspectRoot, RemoveAll,
      DoctorManifest, DoctorCommand, DoctorDigest, Crash, Forget

\* Every action keeps a failed install's prior at the root, if a rename back
\* does not fail.
LEMMA KeptStep ==
  ASSUME Faults \cap {"squat", "rollback"} = {}, MapInv, KeptInv, [Next]_vars
  PROVE  KeptInv'
<1> SUFFICES ASSUME NEW q \in Procs
             PROVE  KeptOf(q)'
  BY DEF KeptInv
<1> USE DEF Goto, Conclude, Fail, call, work, exam, history
<1>0. /\ TypeOK /\ AllInv /\ SwapOf(q) /\ KeptOf(q) /\ PromotionOf(q) /\ RootIsClear
      /\ CourseOf(q)
  BY DEF MapInv, AllInv, SwapInv, KeptInv, PromotionInv, CourseInv
<1>1. ASSUME NEW p \in Procs, p # q, Start(p) \/ Step(p) \/ Crash(p)
      PROVE  KeptOf(q)'
  <2>1. CASE InExclusive(q)
    BY <1>0, <1>1, <2>1, HolderMoves DEF KeptOf, ManifestOf
  <2>2. CASE ~InExclusive(q)
    <3>1. pc'[q] = pc[q]
      BY <1>0, <1>1
      DEF Step, TypeOK, Start, StatBeforeReinstall, Reject, AcquireBundleLock,
          ReleaseBundleLock, Return, ValidateExistingRoot, FetchPinnedObjects,
          ExtractToStage, WriteManifest, ClearBackup, StatRoot, SetAside, SwapIn, RollBack,
          DropBackup, RemoveStage, InspectRoot, RemoveAll, DoctorManifest, DoctorCommand,
          DoctorDigest, Crash, Forget
    <3> QED
      BY <2>2, <3>1 DEF KeptOf, InExclusive, Exclusive
  <2> QED
    BY <2>1, <2>2
<1>2. CASE \/ Start(q) \/ StatBeforeReinstall(q) \/ Reject(q) \/ AcquireBundleLock(q)
           \/ ReleaseBundleLock(q) \/ Return(q) \/ Crash(q) \/ ClearBackup(q)
           \/ DoctorManifest(q) \/ DoctorCommand(q) \/ DoctorDigest(q)
  BY <1>0, <1>2
  DEF TypeOK, KeptOf, Start, StatBeforeReinstall, Reject, AcquireBundleLock,
      ReleaseBundleLock, Return, Crash, Forget, ClearBackup, DoctorManifest, DoctorCommand,
      DoctorDigest
<1>3. CASE \/ ValidateExistingRoot(q) \/ FetchPinnedObjects(q) \/ ExtractToStage(q)
           \/ WriteManifest(q) \/ StatRoot(q)
  BY <1>0, <1>3
  DEF TypeOK, KeptOf, SwapOf, ManifestOf, ValidateExistingRoot, FetchPinnedObjects,
      ExtractToStage, WriteManifest, StatRoot
<1>4. CASE SetAside(q)
  BY <1>0, <1>4 DEF TypeOK, KeptOf, SwapOf, ManifestOf, SetAside
<1>5. CASE SwapIn(q)
  BY <1>0, <1>5 DEF TypeOK, KeptOf, SwapOf, ManifestOf, SwapIn, AfterFailedSwap, Untroubled
<1>6. CASE RollBack(q)
  <2>1. root = Absent /\ Managed(backup) /\ "rollback" \notin Faults
    BY <1>0, <1>6 DEF RollBack, PromotionOf, Renaming, RootIsClear
  <2>2. root' = backup
    BY <1>6, <2>1, AbsentUnmanaged DEF RollBack
  <2> QED
    BY <1>0, <1>6, <2>2 DEF TypeOK, KeptOf, SwapOf, ManifestOf, RollBack
<1>7. CASE DropBackup(q)
  BY <1>0, <1>7 DEF TypeOK, KeptOf, DropBackup, SwapOf, Untroubled
<1>8. CASE RemoveStage(q)
  BY <1>0, <1>8 DEF TypeOK, KeptOf, ManifestOf, RemoveStage
<1>9. CASE InspectRoot(q) \/ RemoveAll(q)
  BY <1>0, <1>9 DEF TypeOK, KeptOf, InspectRoot, RemoveAll, SwapOf
<1>10. CASE ClearStaleLock \/ UNCHANGED vars
  BY <1>0, <1>10 DEF KeptOf, ClearStaleLock, vars, ManifestOf
<1>11. CASE Tamper
  BY <1>0, <1>11, TamperKeepsManifest DEF KeptOf, Tamper
<1>12. ~Squat
  BY DEF Squat
<1> QED
  BY <1>1, <1>2, <1>3, <1>4, <1>5, <1>6, <1>7, <1>8, <1>9, <1>10, <1>11, <1>12 DEF Next, Step

\* A replacement that fails leaves the install it found at the root.
THEOREM FailureKeepsPrior ==
  ASSUME Faults \cap {"squat", "rollback"} = {}
  PROVE  Spec => []FailedInstallKeepsPrior
<1>1. Init => KeptInv
  BY DEF Init, KeptInv, KeptOf
<1>2. MapInv /\ KeptInv /\ [Next]_vars => KeptInv'
  BY KeptStep
<1>3. KeptInv => FailedInstallKeepsPrior
  BY DEF KeptInv, KeptOf, FailedInstallKeepsPrior, Replacing
<1>4. "squat" \notin Faults
  OBVIOUS
<1> QED
  BY <1>1, <1>2, <1>3, <1>4, MapInvariant, PTL DEF Spec

\* What a promotion finds where it renames to and from: nothing under .previous,
\* unless a removal may fail, and a root that it has seen.
ClearedOf(p) ==
  /\ pc[p] \in {"statRoot", "setAside"} => backup = Absent \/ "removal" \in Faults
  /\ pc[p] = "setAside" => root # Absent
ClearedInv == \A p \in Procs : ClearedOf(p)

\* Every action keeps that, in every environment.
LEMMA ClearedStep == AllInv /\ ClearedInv /\ [Next]_vars => ClearedInv'
<1> SUFFICES ASSUME AllInv, ClearedInv, [Next]_vars, NEW q \in Procs
             PROVE  ClearedOf(q)'
  BY DEF ClearedInv
<1> USE DEF Goto, Conclude, Fail, call, work, exam, history
<1>0. TypeOK /\ ClearedOf(q)
  BY DEF AllInv, ClearedInv
<1>1. ASSUME NEW p \in Procs, p # q, Start(p) \/ Step(p) \/ Crash(p)
      PROVE  ClearedOf(q)'
  <2>1. CASE InExclusive(q)
    BY <1>0, <1>1, <2>1, HolderMoves DEF ClearedOf
  <2>2. CASE ~InExclusive(q)
    <3>1. pc'[q] = pc[q]
      BY <1>0, <1>1
      DEF Step, TypeOK, Start, StatBeforeReinstall, Reject, AcquireBundleLock,
          ReleaseBundleLock, Return, ValidateExistingRoot, FetchPinnedObjects,
          ExtractToStage, WriteManifest, ClearBackup, StatRoot, SetAside, SwapIn, RollBack,
          DropBackup, RemoveStage, InspectRoot, RemoveAll, DoctorManifest, DoctorCommand,
          DoctorDigest, Crash, Forget
    <3> QED
      BY <2>2, <3>1 DEF ClearedOf, InExclusive, Exclusive
  <2> QED
    BY <2>1, <2>2
<1>2. CASE \/ Start(q) \/ StatBeforeReinstall(q) \/ Reject(q) \/ AcquireBundleLock(q)
           \/ ReleaseBundleLock(q) \/ Return(q) \/ Crash(q)
           \/ DoctorManifest(q) \/ DoctorCommand(q) \/ DoctorDigest(q)
  BY <1>0, <1>2
  DEF TypeOK, ClearedOf, Start, StatBeforeReinstall, Reject, AcquireBundleLock,
      ReleaseBundleLock, Return, Crash, Forget, DoctorManifest, DoctorCommand, DoctorDigest
<1>3. CASE \/ ValidateExistingRoot(q) \/ FetchPinnedObjects(q) \/ ExtractToStage(q)
           \/ WriteManifest(q) \/ SetAside(q) \/ SwapIn(q) \/ RollBack(q) \/ DropBackup(q)
           \/ RemoveStage(q) \/ InspectRoot(q) \/ RemoveAll(q)
  <2>1. pc'[q] \notin {"statRoot", "setAside"}
    BY <1>0, <1>3
    DEF TypeOK, ValidateExistingRoot, FetchPinnedObjects, ExtractToStage, WriteManifest,
        SetAside, SwapIn, AfterFailedSwap, RollBack, DropBackup, RemoveStage, InspectRoot,
        RemoveAll
  <2> QED
    BY <2>1 DEF ClearedOf
<1>4. CASE ClearBackup(q)
  BY <1>0, <1>4 DEF TypeOK, ClearedOf, ClearBackup, Leavings
<1>5. CASE StatRoot(q)
  BY <1>0, <1>5 DEF TypeOK, ClearedOf, StatRoot
<1>6. CASE ClearStaleLock \/ UNCHANGED vars
  BY <1>0, <1>6 DEF ClearedOf, ClearStaleLock, vars
<1>7. CASE Tamper
  <2>1. Managed(root)' /\ UNCHANGED <<backup, pc>>
    BY <1>0, <1>7, TamperKeepsManifest DEF Tamper, Managed
  <2>2. root' # Absent
    BY <2>1, AbsentUnmanaged, ConstantsAssumption DEF Managed, ManifestOf
  <2> QED
    BY <1>0, <2>1, <2>2 DEF ClearedOf
<1>8. CASE Squat
  <2>1. root' # Absent /\ UNCHANGED <<backup, pc>>
    BY <1>8, ForeignTreesType, ConstantsAssumption
    DEF Squat, ForeignTrees, Trees, Files, Contents, Manifests
  <2> QED
    BY <1>0, <2>1 DEF ClearedOf
<1> QED
  BY <1>1, <1>2, <1>3, <1>4, <1>5, <1>6, <1>7, <1>8 DEF Next, Step

\* A step in which a call fails is that call's own.
LEMMA CauseStep ==
  ASSUME AllInv, RootIsClear, ClearedInv, [Next]_vars, NEW q \in Procs
  PROVE  FailsForCause(q)
<1> USE DEF Goto, Conclude, Fail, call, work, exam, history
<1>0. /\ TypeOK /\ ClearedOf(q) /\ RootIsClear /\ StagingInv
      /\ (pc[q] \in {"inspect", "removing"} => op[q] = "uninstall")
  BY DEF AllInv, ClearedInv, SwapInv, SwapOf
<1>1. ASSUME NEW p \in Procs, p # q, Start(p) \/ Step(p) \/ Crash(p)
      PROVE  outcome'[q] = outcome[q]
  BY <1>0, <1>1
  DEF Step, TypeOK, Start, StatBeforeReinstall, Reject, AcquireBundleLock,
      ReleaseBundleLock, Return, ValidateExistingRoot, FetchPinnedObjects,
      ExtractToStage, WriteManifest, ClearBackup, StatRoot, SetAside, SwapIn, RollBack,
      DropBackup, RemoveStage, InspectRoot, RemoveAll, DoctorManifest, DoctorCommand,
      DoctorDigest, Crash, Forget
<1>2. CASE \/ Start(q) \/ StatBeforeReinstall(q) \/ ReleaseBundleLock(q) \/ Return(q)
           \/ Crash(q) \/ ClearBackup(q) \/ RollBack(q) \/ DropBackup(q) \/ RemoveStage(q)
           \/ DoctorCommand(q) \/ DoctorDigest(q) \/ InspectRoot(q) \/ RemoveAll(q)
  BY <1>0, <1>2
  DEF TypeOK, FailsForCause, Start, StatBeforeReinstall, ReleaseBundleLock, Return, Crash,
      Forget, ClearBackup, RollBack, DropBackup, RemoveStage, DoctorCommand, DoctorDigest,
      InspectRoot, RemoveAll
<1>3. CASE Reject(q) \/ AcquireBundleLock(q)
  BY <1>0, <1>3
  DEF TypeOK, FailsForCause, Reject, AcquireBundleLock, LockAvailable, OwnFault
<1>4. CASE ValidateExistingRoot(q)
  BY <1>0, <1>4 DEF TypeOK, FailsForCause, ValidateExistingRoot, Usable
<1>5. CASE FetchPinnedObjects(q) \/ WriteManifest(q) \/ StatRoot(q)
  BY <1>0, <1>5
  DEF TypeOK, FailsForCause, FetchPinnedObjects, WriteManifest, StatRoot, Verified, OwnFault
<1>6. CASE ExtractToStage(q)
  BY <1>0, <1>6 DEF TypeOK, FailsForCause, ExtractToStage, OwnFault
<1>7. CASE SetAside(q)
  BY <1>0, <1>7 DEF TypeOK, FailsForCause, ClearedOf, SetAside, OwnFault
<1>8. CASE SwapIn(q)
  BY <1>0, <1>8 DEF TypeOK, FailsForCause, RootIsClear, Renaming, SwapIn, Usable, OwnFault
<1>9. CASE DoctorManifest(q)
  <2>1. ManifestOf(root) = OtherManifest => ~Usable(root)
    BY ConstantsAssumption DEF Usable, Managed, ManifestOf
  <2> QED
    BY <1>0, <1>9, <2>1 DEF TypeOK, FailsForCause, DoctorManifest
<1>10. CASE ClearStaleLock \/ Tamper \/ Squat \/ UNCHANGED vars
  BY <1>10 DEF FailsForCause, ClearStaleLock, Tamper, Squat, vars
<1> QED
  BY <1>1, <1>2, <1>3, <1>4, <1>5, <1>6, <1>7, <1>8, <1>9, <1>10
  DEF Next, Step, FailsForCause

\* In every environment, an install or a reinstall fails only on the lock file,
\* on a root that is not the bundle's, on an artifact without the command, or
\* on a step of its own: what earlier calls left under .previous or staged
\* is never the reason, unless it could not be removed.
THEOREM FailuresHaveACause == Spec => InstallFailsForCause
<1>1. Init => RootIsClear /\ ClearedInv
  BY DEF Init, RootIsClear, Renaming, ClearedInv, ClearedOf
<1>2. AllInv /\ RootIsClear /\ ClearedInv /\ [Next]_vars => (RootIsClear /\ ClearedInv)'
  BY ClearStep, ClearedStep
<1>3. AllInv /\ RootIsClear /\ ClearedInv /\ [Next]_vars
        => [\A p \in Procs : FailsForCause(p)]_vars
  BY CauseStep
<1> QED
  BY <1>1, <1>2, <1>3, AllInvariant, PTL DEF Spec, InstallFailsForCause

\* What a Reinstall that is alone has seen of the install it replaces: the root
\* its first Lstat found stays until its own promotion moves it.
SoloOf(p) ==
  /\ pc[p] \in {"idle", "stat"} => ~swapped[p]
  /\ op[p] = "reinstall" =>
       /\ pc[p] \in {"lock", "validate", "fetch", "extract", "manifest", "clearBackup",
                     "statRoot", "setAside"} =>
            ~swapped[p] /\ (removed[p] <=> root # Absent)
       /\ pc[p] = "setAside" => root # Absent
       /\ pc[p] \in {"swapIn", "dropBackup"} \cup Examining => removed[p] = swapped[p]
       /\ pc[p] \in {"rollback", "removeStage"} => outcome[p] = "error"
       /\ pc[p] \in {"unlock", "returned"} =>
            outcome[p] = "error" \/ removed[p] = swapped[p]
SoloInv == \A p \in Procs : SoloOf(p)

\* Every action of a process that is alone keeps that.
LEMMA SoloStep ==
  ASSUME \A p, q \in Procs : p = q, "squat" \notin Faults,
         AllInv, SoloInv, [Next]_vars
  PROVE  SoloInv'
<1> SUFFICES ASSUME NEW q \in Procs
             PROVE  SoloOf(q)'
  BY DEF SoloInv
<1>0. /\ TypeOK /\ SoloOf(q)
      /\ (pc[q] \in {"inspect", "removing"} => op[q] = "uninstall")
  <2>1. SwapOf(q) /\ SoloOf(q)
    BY DEF AllInv, SwapInv, SoloInv
  <2> QED
    BY <2>1 DEF AllInv, SwapOf
<1> USE DEF Goto, Conclude, Fail, call, work, exam, history, SoloOf, TypeOK, Examining
<1>1. CASE Start(q) \/ StatBeforeReinstall(q)
  <2>1. CASE Start(q)
    BY <1>0, <2>1 DEF Start
  <2>2. CASE StatBeforeReinstall(q)
    <3>1. pc[q] = "stat" /\ pc'[q] = "lock" /\ swapped' = swapped /\ root' = root
      BY <1>0, <2>2 DEF StatBeforeReinstall
    <3>2. removed'[q] = (root # Absent)
      BY <1>0, <2>2 DEF StatBeforeReinstall
    <3>3. ~swapped[q]
      BY <1>0, <3>1
    <3> QED
      BY <3>1, <3>2, <3>3
  <2> QED
    BY <1>1, <2>1, <2>2
<1>2. CASE Reject(q) \/ AcquireBundleLock(q) \/ ReleaseBundleLock(q)
  BY <1>0, <1>2 DEF Reject, AcquireBundleLock, ReleaseBundleLock
<1>3. CASE Return(q) \/ Crash(q)
  BY <1>0, <1>3 DEF Return, Crash, Forget
<1>4. CASE ValidateExistingRoot(q) \/ FetchPinnedObjects(q)
  BY <1>0, <1>4 DEF ValidateExistingRoot, FetchPinnedObjects
<1>5. CASE ExtractToStage(q) \/ WriteManifest(q)
  BY <1>0, <1>5 DEF ExtractToStage, WriteManifest
<1>6. CASE ClearBackup(q) \/ StatRoot(q)
  BY <1>0, <1>6 DEF ClearBackup, StatRoot
<1>7. CASE SetAside(q)
  <2>1. pc[q] = "setAside" /\ op' = op /\ removed' = removed
    BY <1>0, <1>7 DEF SetAside
  <2>2. CASE pc'[q] = "swapIn" /\ swapped'[q] = TRUE
    BY <1>0, <2>1, <2>2
  <2>3. CASE pc'[q] = "removeStage" /\ outcome'[q] = "error"
    BY <2>1, <2>3
  <2>4. \/ pc' = [pc EXCEPT ![q] = "swapIn"] /\ swapped' = [swapped EXCEPT ![q] = TRUE]
        \/ /\ pc' = [pc EXCEPT ![q] = "removeStage"]
           /\ outcome' = [outcome EXCEPT ![q] = "error"]
    BY <1>7 DEF SetAside
  <2>5. \/ pc'[q] = "swapIn" /\ swapped'[q] = TRUE
        \/ pc'[q] = "removeStage" /\ outcome'[q] = "error"
    BY <1>0, <2>4
  <2> QED
    BY <2>2, <2>3, <2>5
<1>8. CASE SwapIn(q)
  <2>1. pc[q] = "swapIn" /\ op' = op /\ removed' = removed /\ swapped' = swapped
    BY <1>0, <1>8 DEF SwapIn
  <2>2. CASE pc'[q] \in {"dropBackup", "unlock"}
    BY <1>0, <2>1, <2>2
  <2>3. CASE pc'[q] \in {"rollback", "removeStage"} /\ outcome'[q] = "error"
    BY <2>1, <2>3
  <2> QED
    BY <1>0, <1>8, <2>2, <2>3 DEF SwapIn, AfterFailedSwap
<1>9. CASE RollBack(q) \/ DropBackup(q) \/ RemoveStage(q)
  BY <1>0, <1>9 DEF RollBack, DropBackup, RemoveStage
<1>10. CASE InspectRoot(q) \/ RemoveAll(q)
  BY <1>0, <1>10 DEF InspectRoot, RemoveAll
<1>11. CASE DoctorManifest(q) \/ DoctorCommand(q) \/ DoctorDigest(q)
  BY <1>0, <1>11 DEF DoctorManifest, DoctorCommand, DoctorDigest
<1>12. CASE ClearStaleLock \/ UNCHANGED vars
  BY <1>0, <1>12 DEF ClearStaleLock, vars
<1>13. CASE Tamper
  <2>1. root # Absent /\ root' # Absent
    BY <1>0, <1>13, TamperKeepsManifest, AbsentUnmanaged, ConstantsAssumption
    DEF AllInv, Tamper, Managed, ManifestOf
  <2> QED
    BY <1>0, <1>13, <2>1 DEF Tamper
<1>14. ~Squat
  BY DEF Squat
<1> QED
  BY <1>1, <1>2, <1>3, <1>4, <1>5, <1>6, <1>7, <1>8, <1>9, <1>10, <1>11, <1>12, <1>13,
     <1>14 DEF Next, Step

\* Where one process makes the calls and nobody else makes a directory under
\* the bundle's name, a Reinstall reports a removal exactly when it replaced an
\* install, whatever fails and whichever earlier call was killed: only another
\* process, or another program, between its Lstat and its lock makes it err.
THEOREM SoloReinstallReports ==
  ASSUME \A p, q \in Procs : p = q, "squat" \notin Faults
  PROVE  Spec => []ReinstallReportsReplacement
<1>1. Init => SoloInv
  BY DEF Init, SoloInv, SoloOf, Examining
<1>2. AllInv /\ SoloInv /\ [Next]_vars => SoloInv'
  BY SoloStep
<1>3. SoloInv => ReinstallReportsReplacement
  BY DEF SoloInv, SoloOf, ReinstallReportsReplacement
<1> QED
  BY <1>1, <1>2, <1>3, AllInvariant, PTL DEF Spec
=============================================================================
