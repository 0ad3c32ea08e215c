---------------------- MODULE ManagedRuntimeDoctorProofs ----------------------
(* Why Doctor can be believed though it takes no lock: a file that differs  *)
(* from the pinned one stays different, wherever a promotion moves the      *)
(* install, until a whole install is swapped in.                            *)
EXTENDS ManagedRuntimeInstallerProofs

\* The steps that run between the two renames of a promotion, or after them.
Renaming(p) == pc[p] \in {"swapIn", "rollback"}

\* While a promotion is under way no install of the bundle is at the root.
RootIsClear ==
  \A p \in Procs : /\ Renaming(p) => ~Managed(root)
                   /\ pc[p] = "rollback" => hadExisting[p]

\* A directory with a manifest has no file where the artifact ships none.
NothingExtra(dir) ==
  Managed(dir) =>
    \A f \in Payload : Unpack(dir.manifest.pin)[f] = None => dir.files[f] = None
NothingExtraInv == NothingExtra(root) /\ NothingExtra(backup)

\* File f of the directory is not what the version p looks for ships there.
Spoiled(p, dir, f) ==
  FileOf(dir, f) # Unpack(pin[p])[f] /\ Unpack(pin[p])[f] # None

\* A spoiled file that the walk has yet to compare, also in the copy that a
\* promotion may put back.
WillBeFound(p) ==
  \E f \in pending[p] :
    /\ Spoiled(p, root, f)
    /\ \A q \in Procs : Renaming(q) /\ hadExisting[q] => Spoiled(p, backup, f)

DoctorOf(p) ==
  /\ outcome[p] = "ok" => pc[p] = "returned" /\ sawIntact[p]
  /\ pc[p] \in {"command", "digests"} =>
       want[p] = Unpack(pin[p]) /\ (sawIntact[p] \/ WillBeFound(p))
DoctorInv == \A p \in Procs : DoctorOf(p)

-----------------------------------------------------------------------------
\* No foreign directory passes for an install.
LEMMA ForeignUnmanaged == \A dir \in ForeignTrees : ~Managed(dir)
  BY ConstantsAssumption DEF ForeignTrees, Managed, ManifestOf

\* Nothing is not an install.
LEMMA AbsentUnmanaged == ~Managed(Absent)
  BY ConstantsAssumption DEF Managed, ManifestOf

\* An install is a directory with files.
LEMMA ManagedTree == \A dir \in Dirs : Managed(dir) => dir \in Trees
  BY ConstantsAssumption DEF Managed, ManifestOf, Dirs

\* Every action keeps the root clear of installs during a promotion.
LEMMA ClearStep == AllInv /\ RootIsClear /\ [Next]_vars => RootIsClear'
<1> SUFFICES ASSUME AllInv, RootIsClear, [Next]_vars
             PROVE  RootIsClear'
  OBVIOUS
<1> USE DEF Goto, Conclude, Fail, call, work, exam, history, Renaming, RootIsClear
<1>0. TypeOK /\ MutualExclusion
  BY DEF AllInv
<1>1. ASSUME NEW p \in Procs,
             \/ Start(p) \/ StatBeforeReinstall(p) \/ Reject(p) \/ AcquireBundleLock(p)
             \/ ReleaseBundleLock(p) \/ Return(p) \/ Crash(p)
             \/ DoctorManifest(p) \/ DoctorCommand(p) \/ DoctorDigest(p)
      PROVE  RootIsClear'
  BY <1>0, <1>1
  DEF TypeOK, Start, StatBeforeReinstall, Reject, AcquireBundleLock, ReleaseBundleLock,
      Return, Crash, Forget, DoctorManifest, DoctorCommand, DoctorDigest, Managed,
      ManifestOf
<1>2. ASSUME NEW p \in Procs,
             \/ ValidateExistingRoot(p) \/ FetchPinnedObjects(p) \/ ExtractToStage(p)
             \/ WriteManifest(p) \/ ClearBackup(p) \/ DropBackup(p) \/ RemoveStage(p)
             \/ InspectRoot(p)
      PROVE  RootIsClear'
  BY <1>0, <1>2
  DEF TypeOK, ValidateExistingRoot, FetchPinnedObjects, ExtractToStage, WriteManifest,
      ClearBackup, DropBackup, RemoveStage, InspectRoot, Managed, ManifestOf
<1>3. ASSUME NEW p \in Procs, StatRoot(p) \/ SetAside(p)
      PROVE  RootIsClear'
  BY <1>0, <1>3, AbsentUnmanaged
  DEF TypeOK, StatRoot, SetAside, Managed, ManifestOf
<1>4. ASSUME NEW p \in Procs, SwapIn(p)
      PROVE  RootIsClear'
  <2>1. \A q \in Procs : q # p => ~Renaming(q)
    BY <1>0, <1>4 DEF SwapIn, MutualExclusion, InExclusive, Exclusive
  <2> QED
    BY <1>0, <1>4, <2>1 DEF TypeOK, SwapIn, AfterFailedSwap, Managed, ManifestOf
<1>5. ASSUME NEW p \in Procs, RollBack(p) \/ RemoveAll(p)
      PROVE  RootIsClear'
  <2>1. \A q \in Procs : q # p => ~Renaming(q)
    BY <1>0, <1>5 DEF RollBack, RemoveAll, MutualExclusion, InExclusive, Exclusive
  <2> QED
    BY <1>0, <1>5, <2>1 DEF TypeOK, RollBack, RemoveAll
<1>6. CASE Tamper
  BY <1>6 DEF Tamper
<1>7. CASE Squat
  BY <1>7, ForeignUnmanaged DEF Squat, Managed, ManifestOf
<1>8. CASE ClearStaleLock \/ UNCHANGED vars
  BY <1>8 DEF ClearStaleLock, vars, Managed, ManifestOf
<1> QED
  BY <1>1, <1>2, <1>3, <1>4, <1>5, <1>6, <1>7, <1>8 DEF Next, Step

\* What a removal leaves has nothing extra either.
LEMMA LeavingsExtra ==
  ASSUME NEW dir \in Dirs, NothingExtra(dir), NEW left \in Leavings(dir)
  PROVE  NothingExtra(left)
<1>1. CASE left = Absent
  BY <1>1, AbsentUnmanaged DEF NothingExtra
<1>2. CASE left # Absent
  <2>1. PICK m \in {dir.manifest, None}, kept \in SUBSET Payload :
          left = [manifest |-> m,
                  files |-> [f \in Payload |-> IF f \in kept THEN dir.files[f] ELSE None]]
    BY <1>2 DEF Leavings
  <2>2. dir # Absent
    BY <1>2 DEF Leavings
  <2>3. CASE m = None
    BY <1>2, <2>1, <2>3, ConstantsAssumption DEF NothingExtra, Managed, ManifestOf
  <2>4. CASE m = dir.manifest
    BY <1>2, <2>1, <2>2, <2>4 DEF NothingExtra, Managed, ManifestOf
  <2> QED
    BY <2>1, <2>3, <2>4
<1> QED
  BY <1>1, <1>2

\* Every action keeps installs free of files their artifact does not ship.
LEMMA ExtraStep ==
  AllInv /\ NothingExtraInv /\ [Next]_vars => NothingExtraInv'
<1> SUFFICES ASSUME AllInv, NothingExtraInv, [Next]_vars
             PROVE  NothingExtra(root)' /\ NothingExtra(backup)'
  BY DEF NothingExtraInv
<1>0. TypeOK /\ StagingInv /\ NothingExtra(root) /\ NothingExtra(backup)
  BY DEF AllInv, NothingExtraInv
<1>1. CASE UNCHANGED <<root, backup>>
  BY <1>0, <1>1 DEF NothingExtra, Managed, ManifestOf
<1>2. ASSUME NEW p \in Procs, ClearBackup(p) \/ DropBackup(p)
      PROVE  NothingExtra(root)' /\ NothingExtra(backup)'
  <2>1. root' = root /\ backup' \in Leavings(backup)
    BY <1>2 DEF ClearBackup, DropBackup
  <2>2. NothingExtra(backup')
    BY <1>0, <2>1, LeavingsExtra DEF TypeOK
  <2> QED
    BY <1>0, <2>1, <2>2 DEF NothingExtra, Managed, ManifestOf
<1>3. ASSUME NEW p \in Procs, SetAside(p) \/ RollBack(p)
      PROVE  NothingExtra(root)' /\ NothingExtra(backup)'
  <2>1. \/ UNCHANGED <<root, backup>>
        \/ backup' = root /\ root' = Absent
        \/ root' = backup /\ backup' = Absent
    BY <1>3 DEF SetAside, RollBack
  <2> QED
    BY <1>0, <2>1, AbsentUnmanaged DEF NothingExtra, Managed, ManifestOf
<1>4. ASSUME NEW p \in Procs, SwapIn(p)
      PROVE  NothingExtra(root)' /\ NothingExtra(backup)'
  <2>1. backup' = backup /\ root' \in {root, Whole(pin[p])}
    BY <1>0, <1>4 DEF SwapIn, StagingInv
  <2>2. NothingExtra(Whole(pin[p]))
    BY DEF NothingExtra, Whole, Receipt, Managed, ManifestOf
  <2> QED
    BY <1>0, <2>1, <2>2 DEF NothingExtra, Managed, ManifestOf
<1>5. ASSUME NEW p \in Procs, RemoveAll(p)
      PROVE  NothingExtra(root)' /\ NothingExtra(backup)'
  <2>1. root \in Trees /\ backup' = backup
    BY <1>0, <1>5 DEF RemoveAll, TypeOK, Dirs
  <2>2. CASE root' \in {Absent, root, [root EXCEPT !.manifest = None]}
    <3>1. NothingExtra([root EXCEPT !.manifest = None])
      BY <2>1, ConstantsAssumption DEF NothingExtra, Managed, ManifestOf, Trees
    <3> QED
      BY <1>0, <2>1, <2>2, <3>1, AbsentUnmanaged DEF NothingExtra, Managed, ManifestOf
  <2>3. CASE \E f \in Payload : root' = [root EXCEPT !.files[f] = None]
    <3>1. PICK f \in Payload : root' = [root EXCEPT !.files[f] = None]
      BY <2>3
    <3>2. /\ root' \in Trees /\ root'.manifest = root.manifest
          /\ \A g \in Payload : root'.files[g] \in {root.files[g], None}
      BY <2>1, <3>1 DEF Trees, Files, Contents
    <3>3. NothingExtra(root')
      BY <1>0, <2>1, <3>2, ConstantsAssumption DEF NothingExtra, Managed, ManifestOf
    <3> QED
      BY <1>0, <2>1, <3>3 DEF NothingExtra, Managed, ManifestOf
  <2> QED
    BY <1>5, <2>2, <2>3 DEF RemoveAll
<1>6. CASE Tamper
  <2>1. root \in Trees /\ Managed(root) /\ backup' = backup
    BY <1>0, <1>6, ManagedTree DEF Tamper, TypeOK
  <2>2. PICK f \in Payload : root.files[f] # None /\ root' = [root EXCEPT !.files[f] = Altered]
    BY <1>6 DEF Tamper
  <2>3. /\ root' \in Trees /\ root'.manifest = root.manifest
        /\ \A g \in Payload : g # f => root'.files[g] = root.files[g]
    BY <2>1, <2>2 DEF Trees, Files, Contents
  <2>4. NothingExtra(root')
    BY <1>0, <2>1, <2>2, <2>3, ConstantsAssumption DEF NothingExtra, Managed, ManifestOf
  <2> QED
    BY <1>0, <2>1, <2>4 DEF NothingExtra, Managed, ManifestOf
<1>7. CASE Squat
  BY <1>0, <1>7, ForeignUnmanaged DEF Squat, NothingExtra, Managed, ManifestOf
<1> QED
  BY <1>1, <1>2, <1>3, <1>4, <1>5, <1>6, <1>7
  DEF Next, Step, vars, Start, StatBeforeReinstall, Reject, AcquireBundleLock,
      ReleaseBundleLock, Return, ValidateExistingRoot, FetchPinnedObjects,
      ExtractToStage, WriteManifest, StatRoot, RemoveStage, InspectRoot,
      DoctorManifest, DoctorCommand, DoctorDigest, Crash, ClearStaleLock

-----------------------------------------------------------------------------
\* What is looked for at path f is bytes of an artifact, or nothing.
LEMMA LookedFor ==
  ASSUME NEW v \in Pins, NEW f \in Payload
  PROVE  Unpack(v)[f] \in Bytes \cup {None}
  BY ConstantsAssumption DEF Unpack

\* A spoiled file stays spoiled whatever another call or the environment does,
\* unless a whole install is swapped in, and that Doctor counts as seen.
LEMMA StaysSpoiled ==
  ASSUME AllInv, RootIsClear, [Next]_vars, NEW q \in Procs,
         pc[q] \in {"command", "digests"}, pc'[q] = pc[q], pin'[q] = pin[q],
         pending'[q] = pending[q], WillBeFound(q)
  PROVE  WillBeFound(q)' \/ sawIntact'[q]
<1> USE DEF Goto, Conclude, Fail, call, work, exam, history, Renaming
<1> DEFINE Safe(dir, f) == FileOf(dir, f) # Unpack(pin[q])[f]
           Back == \E p \in Procs : Renaming(p) /\ hadExisting[p]
<1>0. TypeOK /\ MutualExclusion /\ StagingInv /\ pin[q] \in Pins
  BY DEF AllInv, StagingInv
<1>1. PICK f \in pending[q] :
        Spoiled(q, root, f) /\ (Back => Spoiled(q, backup, f))
  BY DEF WillBeFound
<1>2. f \in Payload /\ Unpack(pin[q])[f] \in Bytes /\ Unpack(pin[q])[f] # None
  <2>1. f \in Payload
    BY <1>0 DEF TypeOK
  <2>2. Unpack(pin[q])[f] \in Bytes \cup {None}
    BY <1>0, <2>1, LookedFor
  <2>3. Unpack(pin[q])[f] # None
    BY <1>1 DEF Spoiled
  <2> QED
    BY <2>1, <2>2, <2>3
<1>3. ASSUME Safe(root', f), Back' => Safe(backup', f)
      PROVE  WillBeFound(q)'
  BY <1>1, <1>2, <1>3 DEF WillBeFound, Spoiled, FileOf
<1>4. Safe(root, f) /\ (Back => Safe(backup, f)) /\ Safe(Absent, f)
  <2>1. Safe(root, f) /\ (Back => Safe(backup, f))
    BY <1>1 DEF Spoiled
  <2>2. Safe(Absent, f)
    BY <1>2 DEF FileOf
  <2> QED
    BY <2>1, <2>2
<1>5. ASSUME UNCHANGED <<root, backup>>, Back' => Back
      PROVE  WillBeFound(q)'
  BY <1>3, <1>4, <1>5
<1>6. ASSUME NEW p \in Procs, InExclusive(p), ~Renaming(p)', UNCHANGED hadExisting,
             \A r \in Procs \ {p} : pc'[r] = pc[r]
      PROVE  ~Back'
  BY <1>0, <1>6 DEF MutualExclusion, InExclusive, Exclusive
<1>7. ASSUME NEW p \in Procs, ClearBackup(p) \/ DropBackup(p)
      PROVE  WillBeFound(q)'
  <2>1. ~Back' /\ root' = root
    BY <1>0, <1>6, <1>7 DEF ClearBackup, DropBackup, InExclusive, Exclusive, TypeOK
  <2> QED
    BY <2>1, <1>3, <1>4
<1>8. ASSUME NEW p \in Procs, SetAside(p)
      PROVE  WillBeFound(q)'
  <2>1. CASE backup' = root /\ root' = Absent
    BY <2>1, <1>3, <1>4
  <2>2. CASE UNCHANGED <<root, backup>> /\ Fail(p, "removeStage")
    <3>1. Back' => Back
      BY <1>0, <1>8, <2>2 DEF SetAside, TypeOK
    <3> QED
      BY <2>2, <3>1, <1>5
  <2> QED
    BY <1>8, <2>1, <2>2 DEF SetAside
<1>9. ASSUME NEW p \in Procs, SwapIn(p)
      PROVE  WillBeFound(q)' \/ sawIntact'[q]
  <2>1. CASE root' = stage[p]
    <3>1. root' = Whole(pin[p]) /\ pc[p] = "swapIn"
      BY <1>0, <1>9, <2>1 DEF SwapIn, StagingInv
    <3>2. sawIntact'[q]
      BY <1>0, <1>9, <3>1 DEF SwapIn, Observe
    <3> QED
      BY <3>2
  <2>2. CASE UNCHANGED <<root, stage>> /\ Fail(p, AfterFailedSwap(p))
    <3>1. (Back' => Back) /\ backup' = backup
      BY <1>0, <1>9, <2>2 DEF SwapIn, AfterFailedSwap, TypeOK
    <3> QED
      BY <2>2, <3>1, <1>5
  <2> QED
    BY <1>9, <2>1, <2>2 DEF SwapIn
<1>10. ASSUME NEW p \in Procs, RollBack(p)
       PROVE  WillBeFound(q)'
  <2>1. ~Back' /\ Back
    BY <1>0, <1>6, <1>10 DEF RollBack, InExclusive, Exclusive, RootIsClear, TypeOK
  <2>2. root' \in {root, backup}
    BY <1>10 DEF RollBack
  <2> QED
    BY <2>1, <2>2, <1>3, <1>4
<1>11. ASSUME NEW p \in Procs, RemoveAll(p)
       PROVE  WillBeFound(q)'
  <2>1. ~Back'
    BY <1>0, <1>6, <1>11 DEF RemoveAll, InExclusive, Exclusive, TypeOK
  <2>2. root \in Trees
    BY <1>0, <1>11 DEF RemoveAll, TypeOK, Dirs
  <2>3. FileOf(root', f) \in {FileOf(root, f), None}
    BY <1>2, <1>11, <2>2 DEF RemoveAll, FileOf, Trees, Files
  <2> QED
    BY <1>2, <1>3, <1>4, <2>1, <2>3
<1>12. CASE Tamper
  <2>1. root \in Trees /\ root # Absent /\ backup' = backup /\ (Back' => Back)
    BY <1>0, <1>12, ManagedTree, AbsentUnmanaged DEF Tamper, TypeOK
  <2>2. FileOf(root', f) \in {FileOf(root, f), Altered}
    BY <1>2, <1>12, <2>1, ConstantsAssumption DEF Tamper, FileOf, Trees, Files, Contents
  <2> QED
    BY <1>2, <1>3, <1>4, <2>1, <2>2, ConstantsAssumption
<1>13. CASE Squat
  <2>1. FileOf(root', f) = Theirs
    BY <1>2, <1>13, ConstantsAssumption, ForeignTreesType, ForeignUnmanaged
    DEF Squat, FileOf, ForeignTrees, Trees, Files, Contents, Manifests
  <2>2. backup' = backup /\ (Back' => Back)
    BY <1>13 DEF Squat
  <2> QED
    BY <1>2, <1>3, <1>4, <2>1, <2>2, ConstantsAssumption
<1>14. ASSUME NEW p \in Procs,
             \/ Start(p) \/ StatBeforeReinstall(p) \/ Reject(p) \/ AcquireBundleLock(p)
             \/ ReleaseBundleLock(p) \/ Return(p) \/ Crash(p)
             \/ DoctorManifest(p) \/ DoctorCommand(p) \/ DoctorDigest(p)
       PROVE  WillBeFound(q)'
  <2>1. UNCHANGED <<root, backup>> /\ (Back' => Back)
    BY <1>0, <1>14
    DEF TypeOK, Start, StatBeforeReinstall, Reject, AcquireBundleLock, ReleaseBundleLock,
        Return, Crash, Forget, DoctorManifest, DoctorCommand, DoctorDigest
  <2> QED
    BY <2>1, <1>5
<1>15. ASSUME NEW p \in Procs,
             \/ ValidateExistingRoot(p) \/ FetchPinnedObjects(p) \/ ExtractToStage(p)
             \/ WriteManifest(p) \/ StatRoot(p) \/ RemoveStage(p) \/ InspectRoot(p)
       PROVE  WillBeFound(q)'
  <2>1. CASE StatRoot(p)
    <3>1. UNCHANGED <<root, backup>> /\ \A r \in Procs \ {p} : pc'[r] = pc[r]
      BY <1>0, <2>1 DEF TypeOK, StatRoot
    <3>2. \A r \in Procs \ {p} : hadExisting'[r] = hadExisting[r]
      BY <1>0, <2>1 DEF TypeOK, StatRoot
    <3>3. ~(Renaming(p)' /\ hadExisting'[p])
      BY <1>0, <2>1 DEF TypeOK, StatRoot
    <3>4. Back' => Back
      BY <3>1, <3>2, <3>3
    <3> QED
      BY <3>1, <3>4, <1>5
  <2>2. CASE ~StatRoot(p)
    <3>1. UNCHANGED <<root, backup>> /\ (Back' => Back)
      BY <1>0, <1>15, <2>2
    DEF TypeOK, ValidateExistingRoot, FetchPinnedObjects, ExtractToStage, WriteManifest,
        RemoveStage, InspectRoot
    <3> QED
      BY <3>1, <1>5
  <2> QED
    BY <2>1, <2>2
<1>16. CASE ClearStaleLock \/ UNCHANGED vars
  BY <1>16, <1>5 DEF ClearStaleLock, vars
<1> QED
  BY <1>7, <1>8, <1>9, <1>10, <1>11, <1>12, <1>13, <1>14, <1>15, <1>16 DEF Next, Step

\* What Doctor finds when it reads the manifest of its caller's version: a whole
\* install, or one with a spoiled file.
LEMMA FirstLook ==
  ASSUME AllInv, RootIsClear, NothingExtraInv, ManifestsRecordVerifiedBytes,
         NEW q \in Procs, DoctorManifest(q), pc'[q] = "command"
  PROVE  want'[q] = Unpack(pin'[q]) /\ (sawIntact'[q] \/ WillBeFound(q)')
<1> USE DEF Goto, Conclude, call, work, history
<1>0. TypeOK /\ StagingInv /\ pin[q] \in Pins
  BY DEF AllInv, StagingInv, DoctorManifest
<1> DEFINE m == ManifestOf(root)
<1>1. /\ m \in Receipts /\ m.pin = pin[q]
      /\ want'[q] = m.digests /\ pending'[q] = Payload
      /\ UNCHANGED <<root, backup, pin, hadExisting>> /\ Observe
      /\ pc' = [pc EXCEPT ![q] = "command"]
  BY <1>0 DEF DoctorManifest, exam, TypeOK
<1>2. Managed(root) /\ root \in Trees /\ m = root.manifest /\ root # Absent
  BY <1>0, <1>1, ManagedTree, AbsentUnmanaged DEF Managed, ManifestOf, TypeOK
<1>3. m = Receipt(pin[q]) /\ want'[q] = Unpack(pin[q])
  BY <1>1, <1>2 DEF ManifestsRecordVerifiedBytes, Receipt
<1>4. CASE root = Whole(pin[q])
  BY <1>0, <1>1, <1>3, <1>4 DEF Observe, Examining, TypeOK
<1>5. CASE root # Whole(pin[q])
  <2>1. root = [manifest |-> Receipt(pin[q]), files |-> root.files]
    BY <1>2, <1>3 DEF Trees
  <2>2. root.files # Unpack(pin[q])
    BY <2>1, <1>5 DEF Whole
  <2>3. root.files \in Files /\ Unpack(pin[q]) \in Files
    BY <1>2, UnpackType DEF Trees
  <2>4. PICK f \in Payload : root.files[f] # Unpack(pin[q])[f]
    BY <2>2, <2>3 DEF Files
  <2>5. Unpack(pin[q])[f] # None
    BY <1>1, <1>2, <2>4 DEF NothingExtraInv, NothingExtra
  <2>6. Spoiled(q, root, f)
    BY <1>2, <2>4, <2>5 DEF Spoiled, FileOf
  <2>7. \A p \in Procs : ~Renaming(p)'
    BY <1>0, <1>1, <1>2 DEF RootIsClear, Renaming, TypeOK
  <2>8. Spoiled(q, root, f)'
    BY <1>1, <2>6 DEF Spoiled, FileOf
  <2>9. WillBeFound(q)'
    BY <1>1, <2>7, <2>8 DEF WillBeFound
  <2> QED
    BY <1>1, <1>3, <2>9
<1> QED
  BY <1>4, <1>5

\* Every action keeps what Doctor relies on.
LEMMA DoctorStep ==
  /\ AllInv /\ RootIsClear /\ NothingExtraInv /\ ManifestsRecordVerifiedBytes /\ DoctorInv
  /\ [Next]_vars
  => DoctorInv'
<1> SUFFICES ASSUME AllInv, RootIsClear, NothingExtraInv, ManifestsRecordVerifiedBytes,
                    DoctorInv, [Next]_vars, NEW q \in Procs
             PROVE  DoctorOf(q)'
  BY DEF DoctorInv
<1> USE DEF Goto, Conclude, Fail, call, work, exam, history
<1>0. TypeOK /\ DoctorOf(q)
  BY DEF AllInv, DoctorInv
<1> DEFINE Same == /\ pc'[q] = pc[q] /\ outcome'[q] = outcome[q] /\ pin'[q] = pin[q]
                   /\ want'[q] = want[q] /\ pending'[q] = pending[q]
<1>1. ASSUME Same, Observe
      PROVE  DoctorOf(q)'
  <2>1. sawIntact[q] /\ pc[q] \in Examining \cup {"returned"} => sawIntact'[q]
    BY <1>0, <1>1 DEF Observe, Examining, TypeOK
  <2>2. outcome'[q] = "ok" => pc'[q] = "returned" /\ sawIntact'[q]
    BY <1>0, <1>1, <2>1 DEF DoctorOf, Examining
  <2>3. ASSUME pc[q] \in {"command", "digests"}
        PROVE  want[q] = Unpack(pin[q]) /\ (sawIntact'[q] \/ WillBeFound(q)')
    BY <1>0, <1>1, <2>1, <2>3, StaysSpoiled DEF DoctorOf, Examining
  <2> QED
    BY <1>1, <2>2, <2>3 DEF DoctorOf
<1>2. ASSUME NEW p \in Procs, p # q,
             Start(p) \/ Step(p) \/ Crash(p)
      PROVE  Same /\ Observe
  BY <1>0, <1>2
  DEF Step, TypeOK, Start, StatBeforeReinstall, Reject, AcquireBundleLock,
      ReleaseBundleLock, Return, ValidateExistingRoot, FetchPinnedObjects,
      ExtractToStage, WriteManifest, ClearBackup, StatRoot, SetAside, SwapIn, RollBack,
      DropBackup, RemoveStage, InspectRoot, RemoveAll, DoctorManifest, DoctorCommand,
      DoctorDigest, Crash, Forget
<1>3. ASSUME ClearStaleLock \/ Tamper \/ Squat
      PROVE  Same /\ Observe
  BY <1>3 DEF ClearStaleLock, Tamper, Squat
<1>4. CASE UNCHANGED vars
  BY <1>0, <1>4 DEF vars, DoctorOf, WillBeFound, Spoiled, Renaming, FileOf
<1>5. ASSUME Start(q) \/ StatBeforeReinstall(q) \/ Reject(q) \/ AcquireBundleLock(q)
               \/ ReleaseBundleLock(q) \/ Return(q) \/ Crash(q) \/ InspectRoot(q)
               \/ RemoveAll(q)
      PROVE  DoctorOf(q)'
  BY <1>0, <1>5
  DEF TypeOK, DoctorOf, Start, StatBeforeReinstall, Reject, AcquireBundleLock,
      ReleaseBundleLock, Return, Crash, Forget, InspectRoot, RemoveAll
<1>6. ASSUME \/ ValidateExistingRoot(q) \/ FetchPinnedObjects(q) \/ ExtractToStage(q)
             \/ WriteManifest(q) \/ ClearBackup(q) \/ StatRoot(q) \/ SetAside(q)
             \/ SwapIn(q) \/ RollBack(q) \/ DropBackup(q) \/ RemoveStage(q)
      PROVE  DoctorOf(q)'
  BY <1>0, <1>6
  DEF TypeOK, DoctorOf, ValidateExistingRoot, FetchPinnedObjects, ExtractToStage,
      WriteManifest, ClearBackup, StatRoot, SetAside, SwapIn, AfterFailedSwap, RollBack,
      DropBackup, RemoveStage
<1>7. CASE DoctorManifest(q)
  <2>1. CASE pc'[q] = "command"
    <3>1. outcome'[q] # "ok"
      BY <1>0, <1>7, <2>1 DEF DoctorManifest, DoctorOf, TypeOK
    <3> QED
      BY <1>7, <2>1, <3>1, FirstLook DEF DoctorOf
  <2>2. CASE pc'[q] # "command"
    BY <1>0, <1>7, <2>2 DEF DoctorManifest, DoctorOf, TypeOK
  <2> QED
    BY <2>1, <2>2
<1>8. ASSUME DoctorCommand(q) \/ DoctorDigest(q), pc'[q] \in {"command", "digests"},
             pending'[q] = pending[q]
      PROVE  DoctorOf(q)'
  <2>1. /\ pc[q] \in {"command", "digests"} /\ outcome'[q] = outcome[q]
        /\ UNCHANGED <<root, backup, pin, want, hadExisting>> /\ Observe
        /\ \A p \in Procs : Renaming(p)' => Renaming(p)
    BY <1>0, <1>8 DEF DoctorCommand, DoctorDigest, Renaming, TypeOK
  <2>2. sawIntact[q] => sawIntact'[q]
    BY <1>0, <1>8, <2>1 DEF Observe, Examining, TypeOK
  <2>3. WillBeFound(q) => WillBeFound(q)'
    BY <1>8, <2>1 DEF WillBeFound, Spoiled, FileOf
  <2> QED
    BY <1>0, <1>8, <2>1, <2>2, <2>3 DEF DoctorOf
<1>9. CASE DoctorCommand(q)
  <2>1. CASE pc'[q] = "digests"
    BY <1>8, <1>9, <2>1 DEF DoctorCommand
  <2>2. CASE pc'[q] # "digests"
    BY <1>0, <1>9, <2>2 DEF DoctorCommand, DoctorOf, TypeOK
  <2> QED
    BY <2>1, <2>2
<1>10. CASE DoctorDigest(q)
  <2>1. pc[q] = "digests" /\ want[q] = Unpack(pin[q]) /\ Observe
        /\ (sawIntact[q] \/ WillBeFound(q))
    BY <1>0, <1>10 DEF DoctorDigest, DoctorOf
  <2>2. CASE pending[q] = {} /\ Conclude(q, "ok", "returned")
    <3>1. sawIntact[q]
      BY <2>1, <2>2 DEF WillBeFound
    <3>2. sawIntact'[q]
      BY <1>0, <2>1, <2>2, <3>1 DEF Observe, Examining, TypeOK
    <3> QED
      BY <1>0, <2>2, <3>2 DEF DoctorOf, TypeOK
  <2>3. CASE Conclude(q, "degraded", "returned")
    BY <1>0, <2>3 DEF DoctorOf, TypeOK
  <2>4. ASSUME NEW g \in pending[q], SameDigest(root, g, want[q]),
               pending' = [pending EXCEPT ![q] = @ \ {g}], UNCHANGED <<pc, outcome>>
        PROVE  DoctorOf(q)'
    <3>1. sawIntact[q] => sawIntact'[q]
      BY <1>0, <2>1, <2>4 DEF Observe, Examining, TypeOK
    <3>2. UNCHANGED <<root, backup, pin, want, hadExisting>>
      BY <1>10 DEF DoctorDigest
    <3>3. ~Spoiled(q, root, g)
      BY <2>1, <2>4 DEF Spoiled, SameDigest
    <3>4. WillBeFound(q) => WillBeFound(q)'
      <4> SUFFICES ASSUME WillBeFound(q)
                   PROVE  WillBeFound(q)'
        OBVIOUS
      <4>1. PICK f \in pending[q] :
              /\ Spoiled(q, root, f)
              /\ \A p \in Procs : Renaming(p) /\ hadExisting[p] => Spoiled(q, backup, f)
        BY DEF WillBeFound
      <4>2. f \in pending'[q]
        BY <1>0, <2>4, <3>3, <4>1 DEF TypeOK
      <4>3. /\ Spoiled(q, root, f)'
            /\ \A p \in Procs :
                 Renaming(p)' /\ hadExisting'[p] => Spoiled(q, backup, f)'
        BY <2>4, <3>2, <4>1 DEF Spoiled, FileOf, Renaming
      <4> QED
        BY <4>2, <4>3 DEF WillBeFound
    <3> QED
      BY <1>0, <2>1, <2>4, <3>1, <3>2, <3>4 DEF DoctorOf
  <2> QED
    BY <1>10, <2>2, <2>3, <2>4 DEF DoctorDigest
<1> QED
  BY <1>1, <1>2, <1>3, <1>4, <1>5, <1>6, <1>7, <1>9, <1>10 DEF Next, Step

\* Whatever else runs, fails or is killed, and though Doctor takes no lock, it
\* says "ok" only of a version it could have seen whole.
THEOREM DoctorIsBelievable == Spec => []DoctorOkIsWarranted
<1> DEFINE Inv == RootIsClear /\ NothingExtraInv /\ DoctorInv
<1>1. Init => Inv
  BY ForeignUnmanaged, AbsentUnmanaged
  DEF Init, RootIsClear, Renaming, NothingExtraInv, NothingExtra, DoctorInv, DoctorOf
<1>2. AllInv /\ ManifestsRecordVerifiedBytes /\ Inv /\ [Next]_vars => Inv'
  BY ClearStep, ExtraStep, DoctorStep
<1>3. Inv => DoctorOkIsWarranted
  BY DEF DoctorInv, DoctorOf, DoctorOkIsWarranted
<1> QED
  BY <1>1, <1>2, <1>3, AllInvariant, VerifiedBytes, PTL DEF Spec
=============================================================================
