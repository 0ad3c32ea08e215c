-------------------- MODULE ManagedRuntimeRefinementProofs --------------------
(* The installer implements the store of ManagedRuntimeStore wherever       *)
(* nobody else makes a directory under the bundle's name.                   *)
EXTENDS ManagedRuntimeRefinement, ManagedRuntimeDoctorProofs

\* Which calls reach which steps, and with which outcome.
CourseOf(p) ==
  /\ pc[p] = "stat" => op[p] = "reinstall"
  /\ pc[p] \in {"lock", "unlock"} => op[p] # "doctor"
  /\ pc[p] \in {"validate", "fetch", "extract", "manifest", "clearBackup", "statRoot",
                "setAside", "swapIn", "rollback", "dropBackup", "removeStage"} =>
       op[p] \in {"install", "reinstall"}
  /\ pc[p] \in Examining => op[p] \in {"doctor", "reinstall"} /\ outcome[p] = "none"
  /\ pc[p] \in {"rollback", "removeStage"} => outcome[p] = "error"
  /\ pc[p] = "unlock" => outcome[p] \in {"none", "error"}
CourseInv == \A p \in Procs : CourseOf(p)

\* What an install finds at the root at each step of its promotion.
PromotionOf(p) ==
  /\ pc[p] \in {"fetch", "extract", "manifest", "clearBackup", "statRoot", "setAside"} =>
       Usable(root)
  /\ pc[p] = "setAside" => root # Absent /\ hadExisting[p]
  /\ Renaming(p) => root = Absent /\ (hadExisting[p] => Managed(backup))
PromotionInv == \A p \in Procs : PromotionOf(p)

-----------------------------------------------------------------------------
\* Every action keeps each call on its course.
LEMMA CourseStep == AllInv /\ CourseInv /\ [Next]_vars => CourseInv'
<1> SUFFICES ASSUME AllInv, CourseInv, [Next]_vars, NEW q \in Procs
             PROVE  CourseOf(q)'
  BY DEF CourseInv
<1> USE DEF Goto, Conclude, Fail, call, work, exam, history
<1>0. TypeOK /\ CourseOf(q) /\ (pc[q] \in Untroubled => outcome[q] = "none")
      /\ (pc[q] \in {"inspect", "removing"} => op[q] = "uninstall")
  BY DEF AllInv, CourseInv, SwapInv, SwapOf
<1>1. ASSUME NEW p \in Procs, p # q, Start(p) \/ Step(p) \/ Crash(p)
      PROVE  pc'[q] = pc[q] /\ outcome'[q] = outcome[q] /\ op'[q] = op[q]
  BY <1>0, <1>1
  DEF Step, TypeOK, Start, StatBeforeReinstall, Reject, AcquireBundleLock,
      ReleaseBundleLock, Return, ValidateExistingRoot, FetchPinnedObjects,
      ExtractToStage, WriteManifest, ClearBackup, StatRoot, SetAside, SwapIn, RollBack,
      DropBackup, RemoveStage, InspectRoot, RemoveAll, DoctorManifest, DoctorCommand,
      DoctorDigest, Crash, Forget
<1>2. CASE pc'[q] = pc[q] /\ outcome'[q] = outcome[q] /\ op'[q] = op[q]
  BY <1>0, <1>2 DEF CourseOf
<1>3. CASE \/ Start(q) \/ StatBeforeReinstall(q) \/ Reject(q) \/ AcquireBundleLock(q)
           \/ ReleaseBundleLock(q) \/ Return(q) \/ Crash(q)
  BY <1>0, <1>3
  DEF TypeOK, CourseOf, Examining, Untroubled, Start, StatBeforeReinstall, Reject,
      AcquireBundleLock, ReleaseBundleLock, Return, Crash, Forget, Ops
<1>4. CASE \/ ValidateExistingRoot(q) \/ FetchPinnedObjects(q) \/ ExtractToStage(q)
           \/ WriteManifest(q) \/ ClearBackup(q) \/ StatRoot(q) \/ SetAside(q)
  BY <1>0, <1>4
  DEF TypeOK, CourseOf, Examining, Untroubled, ValidateExistingRoot, FetchPinnedObjects,
      ExtractToStage, WriteManifest, ClearBackup, StatRoot, SetAside
<1>5. CASE \/ SwapIn(q) \/ RollBack(q) \/ DropBackup(q) \/ RemoveStage(q)
           \/ InspectRoot(q) \/ RemoveAll(q)
  BY <1>0, <1>5
  DEF TypeOK, CourseOf, Examining, Untroubled, SwapIn, AfterFailedSwap, RollBack,
      DropBackup, RemoveStage, InspectRoot, RemoveAll
<1>6. CASE DoctorManifest(q) \/ DoctorCommand(q) \/ DoctorDigest(q)
  BY <1>0, <1>6
  DEF TypeOK, CourseOf, Examining, DoctorManifest, DoctorCommand, DoctorDigest
<1>7. CASE ClearStaleLock \/ Tamper \/ Squat \/ UNCHANGED vars
  BY <1>2, <1>7 DEF ClearStaleLock, Tamper, Squat, vars
<1> QED
  BY <1>1, <1>2, <1>3, <1>4, <1>5, <1>6, <1>7 DEF Next, Step

\* Every action keeps the root as a promotion needs it, if nobody else makes
\* a directory there.
LEMMA PromotionStep ==
  "squat" \notin Faults /\ AllInv /\ RootIsClear /\ PromotionInv /\ [Next]_vars
    => PromotionInv'
<1> SUFFICES ASSUME "squat" \notin Faults, AllInv, RootIsClear, PromotionInv, [Next]_vars,
                    NEW q \in Procs
             PROVE  PromotionOf(q)'
  BY DEF PromotionInv
<1> USE DEF Goto, Conclude, Fail, call, work, exam, history, Renaming
<1>0. TypeOK /\ MutualExclusion /\ PromotionOf(q)
  BY DEF AllInv, PromotionInv
<1>1. ASSUME NEW p \in Procs, p # q, Start(p) \/ Step(p) \/ Crash(p)
      PROVE  /\ pc'[q] = pc[q] /\ hadExisting'[q] = hadExisting[q]
             /\ InExclusive(q) => UNCHANGED <<root, backup>>
  <2>1. pc'[q] = pc[q] /\ hadExisting'[q] = hadExisting[q]
    BY <1>0, <1>1
    DEF Step, TypeOK, Start, StatBeforeReinstall, Reject, AcquireBundleLock,
        ReleaseBundleLock, Return, ValidateExistingRoot, FetchPinnedObjects,
        ExtractToStage, WriteManifest, ClearBackup, StatRoot, SetAside, SwapIn, RollBack,
        DropBackup, RemoveStage, InspectRoot, RemoveAll, DoctorManifest, DoctorCommand,
        DoctorDigest, Crash, Forget
  <2>2. ASSUME InExclusive(q)
        PROVE  UNCHANGED <<root, backup>>
    <3>1. ~InExclusive(p)
      BY <1>0, <1>1, <2>2 DEF MutualExclusion
    <3> QED
      BY <1>1, <3>1
      DEF InExclusive, Exclusive, Step, Start, StatBeforeReinstall, Reject,
          AcquireBundleLock, ReleaseBundleLock, Return, ValidateExistingRoot,
          FetchPinnedObjects, ExtractToStage, WriteManifest, ClearBackup, StatRoot,
          SetAside, SwapIn, RollBack, DropBackup, RemoveStage, InspectRoot, RemoveAll,
          DoctorManifest, DoctorCommand, DoctorDigest, Crash
  <2> QED
    BY <2>1, <2>2
<1>2. ASSUME pc'[q] = pc[q], hadExisting'[q] = hadExisting[q],
             InExclusive(q) => UNCHANGED <<root, backup>>
      PROVE  PromotionOf(q)'
  BY <1>0, <1>2 DEF PromotionOf, InExclusive, Exclusive, Usable, Managed, ManifestOf
<1>3. CASE \/ Start(q) \/ StatBeforeReinstall(q) \/ Reject(q) \/ AcquireBundleLock(q)
           \/ ReleaseBundleLock(q) \/ Return(q) \/ Crash(q) \/ DropBackup(q)
           \/ RemoveStage(q) \/ InspectRoot(q) \/ RemoveAll(q)
           \/ DoctorManifest(q) \/ DoctorCommand(q) \/ DoctorDigest(q)
  BY <1>0, <1>3
  DEF TypeOK, PromotionOf, Start, StatBeforeReinstall, Reject, AcquireBundleLock,
      ReleaseBundleLock, Return, Crash, Forget, DropBackup, RemoveStage, InspectRoot,
      RemoveAll, DoctorManifest, DoctorCommand, DoctorDigest
<1>4. CASE \/ ValidateExistingRoot(q) \/ FetchPinnedObjects(q) \/ ExtractToStage(q)
           \/ WriteManifest(q) \/ ClearBackup(q)
  BY <1>0, <1>4
  DEF TypeOK, PromotionOf, ValidateExistingRoot, FetchPinnedObjects, ExtractToStage,
      WriteManifest, ClearBackup, Usable, Managed, ManifestOf
<1>5. CASE StatRoot(q)
  BY <1>0, <1>5 DEF TypeOK, PromotionOf, StatRoot, Usable, Managed, ManifestOf
<1>6. CASE SetAside(q)
  BY <1>0, <1>6 DEF TypeOK, PromotionOf, SetAside, Usable, Managed, ManifestOf
<1>7. CASE SwapIn(q)
  BY <1>0, <1>7 DEF TypeOK, PromotionOf, SwapIn, AfterFailedSwap, Managed, ManifestOf
<1>8. CASE RollBack(q)
  BY <1>0, <1>8 DEF TypeOK, PromotionOf, RollBack
<1>9. CASE ClearStaleLock \/ UNCHANGED vars
  BY <1>2, <1>9 DEF ClearStaleLock, vars
<1>10. CASE Tamper
  <2>1. root' # Absent /\ Managed(root)' /\ UNCHANGED <<pc, hadExisting, backup>>
        /\ Managed(root)
    BY <1>0, <1>10, TamperKeepsManifest, AbsentUnmanaged, ConstantsAssumption
    DEF Tamper, Managed, ManifestOf
  <2> QED
    BY <1>0, <2>1, AbsentUnmanaged DEF PromotionOf, Usable, RootIsClear
<1>11. ~Squat
  BY DEF Squat
<1> QED
  BY <1>1, <1>2, <1>3, <1>4, <1>5, <1>6, <1>7, <1>8, <1>9, <1>10, <1>11 DEF Next, Step

-----------------------------------------------------------------------------
(* The mapping.                                                            *)

\* The promotion under way is that of the call that holds the lock.
LEMMA VisibleToHolder ==
  ASSUME MutualExclusion, NEW p \in Procs, InExclusive(p)
  PROVE  storeBar = StoreOf(IF Swapping(p) THEN backup ELSE root)
  BY DEF MutualExclusion, InExclusive, Exclusive, storeBar, Visible, Swapping

\* The same, in the state after a step.
LEMMA VisibleToHolderNext ==
  ASSUME MutualExclusion', NEW p \in Procs, InExclusive(p)'
  PROVE  storeBar' = StoreOf(IF Swapping(p)' THEN backup' ELSE root')
<1>1. \A q \in Procs : Swapping(q)' => q = p
  BY DEF MutualExclusion, InExclusive, Exclusive, Swapping
<1> QED
  BY <1>1 DEF storeBar, Visible, StoreOf, Managed, ManifestOf

\* The store is where it was if nothing moves and no promotion starts or ends.
LEMMA StoreUnmoved ==
  ASSUME UNCHANGED <<root, backup>>, \A q \in Procs : Swapping(q)' <=> Swapping(q)
  PROVE  storeBar' = storeBar
  BY DEF storeBar, Visible, StoreOf, Managed, ManifestOf

\* A whole install is the store's sound version.
LEMMA WholeIsSound ==
  \A v \in Pins : StoreOf(Whole(v)) = [kind |-> "installed", pin |-> v, sound |-> TRUE]
<1> SUFFICES ASSUME NEW v \in Pins
             PROVE  StoreOf(Whole(v)) = [kind |-> "installed", pin |-> v, sound |-> TRUE]
  OBVIOUS
<1>1. Whole(v) # Absent /\ Whole(v).manifest = Receipt(v) /\ Receipt(v) \in Receipts
      /\ Receipt(v).pin = v
  BY WholeType, ConstantsAssumption DEF Whole, Receipt
<1> QED
  BY <1>1 DEF StoreOf, Managed, ManifestOf

\* An install is a version of the store, sound or not; nothing else is.
LEMMA StoreKinds ==
  /\ \A dir \in Dirs : Managed(dir) =>
       /\ dir.manifest.pin \in Pins
       /\ StoreOf(dir) = [kind |-> "installed", pin |-> dir.manifest.pin,
                          sound |-> dir = Whole(dir.manifest.pin)]
  /\ StoreOf(Absent) = [kind |-> "nothing", pin |-> None, sound |-> FALSE]
  /\ \A dir \in Dirs : dir # Absent /\ ~Managed(dir) =>
       StoreOf(dir) = [kind |-> "unmanaged", pin |-> None, sound |-> FALSE]
<1>1. \A dir \in Dirs : Managed(dir) => dir.manifest.pin \in Pins /\ dir # Absent
  BY AbsentUnmanaged DEF Managed, ManifestOf, Receipts
<1> QED
  BY <1>1 DEF StoreOf

\* A step of one call moves its phase and its answer, and nobody else's.
LEMMA OneCallMoves ==
  ASSUME NEW p \in Procs,
         \A q \in Procs \ {p} :
           pc'[q] = pc[q] /\ outcome'[q] = outcome[q] /\ op'[q] = op[q]
  PROVE  /\ phaseBar' = [phaseBar EXCEPT ![p] = PhaseOf(p)']
         /\ answerBar' = [answerBar EXCEPT ![p] = IF pc'[p] = "returned" THEN outcome'[p]
                                                 ELSE "none"]
<1>1. \A q \in Procs \ {p} : PhaseOf(q)' = PhaseOf(q)
  BY DEF PhaseOf, Effective
<1> QED
  BY <1>1 DEF phaseBar, answerBar

\* What a process sees of the root, it sees of the store.
LEMMA Witnessed ==
  ASSUME AllInv, AllInv', PromotionInv, PromotionInv', Observe,
         root' = root \/ \A q \in Procs : pc[q] # "swapIn"
  PROVE  Store!Witness
<1> SUFFICES ASSUME NEW p \in Procs, sawIntact'[p], ~sawIntact[p]
             PROVE  storeBar' = Store!Sound(pin'[p])
  BY DEF Store!Witness, AllInv, TypeOK
<1>1. pc'[p] \in Examining /\ root' = Whole(pin'[p])
  <2>1. \A q \in Procs : pc[q] = "swapIn" => root' = Absent
    BY DEF PromotionInv, PromotionOf, Renaming
  <2>2. \A q \in Procs : pc[q] = "swapIn" => root' # Whole(pin[q])
    <3>1. \A q \in Procs : pc[q] = "swapIn" => pin[q] \in Pins
      BY DEF AllInv, StagingInv
    <3> QED
      BY <2>1, <3>1, WholeType, ConstantsAssumption
  <2> QED
    BY <2>2 DEF Observe
<1>2. pin'[p] \in Pins
  BY <1>1 DEF AllInv, StagingInv, Examining
<1>3. \A q \in Procs : ~Swapping(q)'
  BY <1>1, <1>2, WholeType, ConstantsAssumption
  DEF PromotionInv, PromotionOf, Swapping, Renaming
<1>4. storeBar' = StoreOf(root')
  BY <1>3 DEF storeBar, Visible, StoreOf, Managed, ManifestOf
<1> QED
  BY <1>1, <1>2, <1>4, WholeIsSound DEF Store!Sound

\* A step that the store does not show.
LEMMA LookStep ==
  ASSUME NEW p \in Procs,
         \A q \in Procs \ {p} :
           pc'[q] = pc[q] /\ outcome'[q] = outcome[q] /\ op'[q] = op[q],
         PhaseOf(p)' = PhaseOf(p), pc[p] # "returned", pc'[p] # "returned",
         UNCHANGED call, storeBar' = storeBar, Store!Witness
  PROVE  Store!Next
<1>1. /\ phaseBar' = [phaseBar EXCEPT ![p] = PhaseOf(p)]
      /\ answerBar' = [answerBar EXCEPT ![p] = "none"]
  BY OneCallMoves
<1>2. phaseBar' = phaseBar
  BY <1>1 DEF phaseBar
<1>3. answerBar' = answerBar
  BY <1>1 DEF answerBar
<1> QED
  BY <1>2, <1>3 DEF call, Store!Next, Store!Look

\* A step that answers a call.
LEMMA AnswerStep ==
  ASSUME NEW p \in Procs, NEW a \in Outcomes \ {"none"}, TypeOK,
         \/ Conclude(p, a, "returned")
         \/ Goto(p, "returned") /\ outcome' = outcome /\ outcome[p] = a,
         PhaseOf(p) \in {"called", "effective"}, pc[p] # "returned",
         UNCHANGED call, storeBar' = storeBar, Store!Witness, Store!Truthful(p, a)
  PROVE  Store!Next
<1>1. /\ \A q \in Procs \ {p} :
           pc'[q] = pc[q] /\ outcome'[q] = outcome[q] /\ op'[q] = op[q]
      /\ pc'[p] = "returned" /\ outcome'[p] = a
  BY DEF Conclude, Goto, TypeOK, call
<1>2. PhaseOf(p)' = "answered"
  BY <1>1 DEF PhaseOf, Effective, Examining
<1>3. /\ phaseBar' = [phaseBar EXCEPT ![p] = "answered"]
      /\ answerBar' = [answerBar EXCEPT ![p] = a]
      /\ phaseBar[p] \in {"called", "effective"}
  BY <1>1, <1>2, OneCallMoves DEF phaseBar
<1> QED
  BY <1>3 DEF call, Outcomes, Store!Next, Store!Answer, Store!Answers, Store!To

-----------------------------------------------------------------------------
(* One lemma for each kind of step.                                        *)

MapInv == /\ AllInv /\ RootIsClear /\ NothingExtraInv /\ DoctorInv
          /\ CourseInv /\ PromotionInv

\* A call is invoked.
LEMMA StartMaps ==
  ASSUME MapInv, NEW p \in Procs, Start(p), Store!Witness
  PROVE  Store!Next
<1> USE DEF Goto, work, exam, history
<1>0. TypeOK
  BY DEF MapInv, AllInv
<1>1. PICK o \in Ops, v \in Pins :
        /\ op' = [op EXCEPT ![p] = o]
        /\ pin' = [pin EXCEPT ![p] = v]
        /\ Goto(p, CASE o = "reinstall" -> "stat"
                     [] o = "doctor"    -> "doctor"
                     [] OTHER           -> "lock")
  BY DEF Start
<1>2. /\ \A q \in Procs \ {p} : pc'[q] = pc[q] /\ outcome'[q] = outcome[q] /\ op'[q] = op[q]
      /\ op'[p] = o /\ pc'[p] \in {"stat", "doctor", "lock"}
      /\ pc'[p] = "doctor" => o = "doctor"
      /\ UNCHANGED <<root, backup, hadExisting, outcome>> /\ pc[p] = "idle"
  BY <1>0, <1>1 DEF Start, TypeOK
<1>3. storeBar' = storeBar
  <2>1. \A q \in Procs : Swapping(q)' <=> Swapping(q)
    BY <1>2 DEF Swapping
  <2> QED
    BY <1>2, <2>1, StoreUnmoved
<1>4. PhaseOf(p)' = "called" /\ PhaseOf(p) = "idle"
  BY <1>2 DEF PhaseOf, Effective, Examining
<1>5. phaseBar' = [phaseBar EXCEPT ![p] = "called"] /\ phaseBar[p] = "idle"
      /\ answerBar' = answerBar
  BY <1>2, <1>4, OneCallMoves DEF phaseBar, answerBar
<1>6. Store!Invoke(p)
  BY <1>1, <1>3, <1>5 DEF Store!Invoke, Store!To, Store!Ops, Ops
<1> QED
  BY <1>6 DEF Store!Next

\* The steps of a call that move nothing and do not end it.
LEMMA QuietMaps ==
  ASSUME MapInv, MapInv', NEW p \in Procs, Store!Witness, pc'[p] # "returned",
         \/ StatBeforeReinstall(p) \/ AcquireBundleLock(p) \/ ReleaseBundleLock(p)
         \/ ValidateExistingRoot(p) \/ FetchPinnedObjects(p) \/ ExtractToStage(p)
         \/ WriteManifest(p) \/ StatRoot(p) \/ RemoveStage(p)
         \/ DoctorManifest(p) \/ DoctorCommand(p) \/ DoctorDigest(p)
  PROVE  Store!Next
<1> USE DEF Goto, Conclude, Fail, call, work, exam, history
<1>0. TypeOK /\ SwapOf(p) /\ CourseOf(p)
  BY DEF MapInv, AllInv, SwapInv, CourseInv
<1>1. /\ \A q \in Procs \ {p} :
           /\ pc'[q] = pc[q] /\ outcome'[q] = outcome[q] /\ op'[q] = op[q]
           /\ hadExisting'[q] = hadExisting[q]
      /\ UNCHANGED <<root, backup, call>>
  BY <1>0
  DEF TypeOK, StatBeforeReinstall, AcquireBundleLock, ReleaseBundleLock,
      ValidateExistingRoot, FetchPinnedObjects, ExtractToStage, WriteManifest, StatRoot,
      RemoveStage, DoctorManifest, DoctorCommand, DoctorDigest
<1>2. /\ pc[p] # "returned" /\ ~Swapping(p) /\ ~Swapping(p)'
      /\ PhaseOf(p)' = PhaseOf(p)
  <2>1. CASE StatBeforeReinstall(p) \/ AcquireBundleLock(p)
    BY <1>0, <2>1 DEF StatBeforeReinstall, AcquireBundleLock, TypeOK, Swapping, PhaseOf,
      Effective, Examining
  <2>2. CASE ReleaseBundleLock(p)
    BY <1>0, <2>2 DEF ReleaseBundleLock, TypeOK, Swapping, PhaseOf, Effective, Examining
  <2>3. CASE \/ ValidateExistingRoot(p) \/ FetchPinnedObjects(p) \/ ExtractToStage(p)
             \/ WriteManifest(p)
    BY <1>0, <2>3 DEF ValidateExistingRoot, FetchPinnedObjects, ExtractToStage,
      WriteManifest, TypeOK, Swapping, PhaseOf, Effective, Examining
  <2>4. CASE StatRoot(p)
    BY <1>0, <2>4 DEF StatRoot, TypeOK, Swapping, PhaseOf, Effective, Examining
  <2>5. CASE RemoveStage(p)
    BY <1>0, <2>5 DEF RemoveStage, TypeOK, Swapping, PhaseOf, Effective, Examining, CourseOf
  <2>6. CASE DoctorManifest(p) \/ DoctorCommand(p) \/ DoctorDigest(p)
    BY <1>0, <1>1, <2>6 DEF DoctorManifest, DoctorCommand, DoctorDigest, TypeOK, Swapping,
      PhaseOf, Effective, Examining
  <2> QED
    BY <2>1, <2>2, <2>3, <2>4, <2>5, <2>6
<1>3. \A q \in Procs : Swapping(q)' <=> Swapping(q)
  BY <1>1, <1>2 DEF Swapping
<1>4. storeBar' = storeBar
  BY <1>1, <1>3, StoreUnmoved
<1> QED
  BY <1>1, <1>2, <1>4, LookStep

\* The steps that end a call.
LEMMA EndMaps ==
  ASSUME MapInv, MapInv', NEW p \in Procs, Store!Witness, pc'[p] = "returned",
         \/ Reject(p) \/ AcquireBundleLock(p) \/ ReleaseBundleLock(p)
         \/ DoctorManifest(p) \/ DoctorCommand(p) \/ DoctorDigest(p)
  PROVE  Store!Next
<1>a. ASSUME NEW a \in {"done", "ok", "missing", "degraded", "error"},
             \/ Conclude(p, a, "returned")
             \/ Goto(p, "returned") /\ outcome' = outcome /\ outcome[p] = a,
             TypeOK, PhaseOf(p) \in {"called", "effective"}, pc[p] # "returned",
             UNCHANGED call, storeBar' = storeBar, Store!Truthful(p, a)
      PROVE  Store!Next
  <2>1. a \in Outcomes \ {"none"}
    BY DEF Outcomes
  <2> QED
    BY <1>a, <2>1, AnswerStep
<1> USE DEF Goto, Conclude, Fail, call, work, exam, history
<1>0. TypeOK /\ CourseOf(p) /\ DoctorOf(p)
  BY DEF MapInv, AllInv, CourseInv, DoctorInv
<1>1. /\ \A q \in Procs \ {p} : pc'[q] = pc[q] /\ hadExisting'[q] = hadExisting[q]
      /\ UNCHANGED <<root, backup, call>>
      /\ pc[p] \in {"lock", "unlock"} \cup Examining
  BY <1>0
  DEF TypeOK, Reject, AcquireBundleLock, ReleaseBundleLock, DoctorManifest, DoctorCommand,
      DoctorDigest, Examining
<1>2. \A q \in Procs : Swapping(q)' <=> Swapping(q)
  BY <1>1 DEF Swapping, Examining
<1>3. storeBar' = storeBar
  BY <1>1, <1>2, StoreUnmoved
<1>4. PhaseOf(p) \in {"called", "effective"} /\ pc[p] # "returned" /\ phaseBar[p] = PhaseOf(p)
  BY <1>1 DEF PhaseOf, Examining, phaseBar
<1>5. CASE Reject(p) \/ AcquireBundleLock(p)
  <2>1. Conclude(p, "error", "returned") /\ pc[p] \in {"lock", "doctor"}
    BY <1>0, <1>5 DEF Reject, AcquireBundleLock, TypeOK
  <2>2. Store!Truthful(p, "error")
    BY <1>0, <1>4, <2>1 DEF Store!Truthful, PhaseOf, Effective, Examining, CourseOf
  <2> QED
    BY <1>a, <1>0, <1>1, <1>3, <1>4, <2>1, <2>2
<1>6. CASE ReleaseBundleLock(p)
  <2>1. CASE outcome[p] = "error"
    <3>1. Goto(p, "returned") /\ outcome' = outcome /\ pc[p] = "unlock"
      BY <1>6, <2>1 DEF ReleaseBundleLock
    <3>2. Store!Truthful(p, "error")
      BY <1>4, <2>1, <3>1 DEF Store!Truthful, PhaseOf, Effective, Examining
    <3> QED
      BY <1>a, <1>0, <1>1, <1>3, <1>4, <2>1, <3>1, <3>2
  <2>2. CASE outcome[p] # "error"
    <3>1. Conclude(p, "done", "returned") /\ pc[p] = "unlock" /\ op[p] # "reinstall"
      BY <1>0, <1>6, <2>2 DEF ReleaseBundleLock, TypeOK
    <3>2. op[p] \in {"install", "uninstall"}
      BY <1>0, <3>1 DEF CourseOf, TypeOK, Ops
    <3>3. Store!Truthful(p, "done")
      BY <1>4, <2>2, <3>1, <3>2 DEF Store!Truthful, PhaseOf, Effective
    <3> QED
      BY <1>a, <1>0, <1>1, <1>3, <1>4, <3>1, <3>3
  <2> QED
    BY <2>1, <2>2
<1>7. CASE DoctorManifest(p) \/ DoctorCommand(p) \/ DoctorDigest(p)
  <2>1. PICK a \in {"ok", "missing", "degraded", "error"} :
          /\ Conclude(p, a, "returned") /\ pc[p] \in Examining
          /\ a = "error" => pc[p] = "doctor"
          /\ a = "ok" => pc[p] = "digests" /\ pending[p] = {}
    BY <1>0, <1>7 DEF DoctorManifest, DoctorCommand, DoctorDigest, Examining, TypeOK
  <2>2. a = "ok" => sawIntact[p]
    BY <1>0, <2>1 DEF DoctorOf, WillBeFound
  <2>3. op[p] = "doctor" \/ (op[p] = "reinstall" /\ PhaseOf(p) = "effective")
    <3>1. op[p] \in {"doctor", "reinstall"}
      BY <1>0, <2>1 DEF CourseOf
    <3>2. pc[p] \in Examining
      BY <2>1
    <3>3. CASE op[p] = "reinstall"
      BY <3>2, <3>3 DEF PhaseOf, Effective, Examining
    <3> QED
      BY <3>1, <3>3
  <2>4. op[p] = "reinstall" \/ PhaseOf(p) = "called"
    BY <1>0, <2>1 DEF CourseOf, PhaseOf, Effective, Examining
  <2>5. Store!Truthful(p, a)
    BY <1>4, <2>1, <2>2, <2>3, <2>4 DEF Store!Truthful
  <2> QED
    BY <1>a, <1>0, <1>1, <1>3, <1>4, <2>1, <2>5
<1> QED
  BY <1>5, <1>6, <1>7

\* The promotion: the swap replaces the version, a failed rename back loses
\* it, and the store shows nothing else of it.
LEMMA PromotionMaps ==
  ASSUME MapInv, MapInv', NEW p \in Procs, [Next]_vars,
         \/ ClearBackup(p) \/ SetAside(p) \/ SwapIn(p) \/ RollBack(p) \/ DropBackup(p)
  PROVE  Store!Next
<1> USE DEF Goto, Conclude, Fail, call, work, exam, history
<1>0. /\ TypeOK /\ TypeOK' /\ SwapOf(p) /\ CourseOf(p) /\ PromotionOf(p) /\ StagingInv
      /\ MutualExclusion /\ MutualExclusion' /\ RootIsClear
      /\ InExclusive(p) /\ (pc[p] = "swapIn" => outcome[p] = "none")
      /\ AllInv /\ AllInv' /\ PromotionInv /\ PromotionInv'
  BY DEF MapInv, AllInv, SwapInv, SwapOf, CourseInv, PromotionInv, InExclusive, Exclusive,
    ClearBackup, SetAside, SwapIn, RollBack, DropBackup, Untroubled
<1>1. /\ \A q \in Procs \ {p} :
           pc'[q] = pc[q] /\ outcome'[q] = outcome[q] /\ op'[q] = op[q]
      /\ UNCHANGED <<call, hadExisting>> /\ Observe
      /\ InExclusive(p)' /\ pc[p] # "returned" /\ pc'[p] # "returned"
      /\ \A q \in Procs \ {p} : pc[q] # "swapIn"
  <2>1. \A q \in Procs \ {p} : pc[q] # "swapIn"
    BY <1>0 DEF MutualExclusion, InExclusive, Exclusive
  <2> QED
    BY <1>0, <2>1
    DEF TypeOK, ClearBackup, SetAside, SwapIn, AfterFailedSwap, RollBack, DropBackup,
        InExclusive, Exclusive
<1>2. root' = root \/ pc[p] # "swapIn" => Store!Witness
  BY <1>0, <1>1, Witnessed
<1>3. /\ storeBar = StoreOf(IF Swapping(p) THEN backup ELSE root)
      /\ storeBar' = StoreOf(IF Swapping(p)' THEN backup' ELSE root')
  BY <1>0, <1>1, VisibleToHolder, VisibleToHolderNext
<1>4. ASSUME PhaseOf(p)' = PhaseOf(p), storeBar' = storeBar, root' = root \/ pc[p] # "swapIn"
      PROVE  Store!Next
  BY <1>1, <1>2, <1>4, LookStep
<1>5. CASE ClearBackup(p)
  <2>1. PhaseOf(p)' = PhaseOf(p) /\ ~Swapping(p) /\ ~Swapping(p)' /\ root' = root
    BY <1>0, <1>5 DEF ClearBackup, TypeOK, PhaseOf, Effective, Examining, Swapping
  <2> QED
    BY <1>3, <1>4, <2>1
<1>6. CASE DropBackup(p)
  <2>1. PhaseOf(p)' = PhaseOf(p) /\ ~Swapping(p) /\ ~Swapping(p)' /\ root' = root
    BY <1>0, <1>6 DEF DropBackup, TypeOK, PhaseOf, Effective, Examining, Swapping, SwapOf,
      Untroubled
  <2> QED
    BY <1>3, <1>4, <2>1
<1>7. CASE SetAside(p)
  <2>1. PhaseOf(p)' = PhaseOf(p) /\ ~Swapping(p) /\ pc[p] # "swapIn"
    BY <1>0, <1>7 DEF SetAside, TypeOK, PhaseOf, Effective, Examining, Swapping
  <2>2. (IF Swapping(p)' THEN backup' ELSE root') = root
    BY <1>0, <1>7 DEF SetAside, TypeOK, Swapping, PromotionOf
  <2> QED
    BY <1>3, <1>4, <2>1, <2>2
<1>8. CASE SwapIn(p) /\ root' = root
  <2>1. root = Absent /\ stage[p] = Whole(pin[p]) /\ pin[p] \in Pins
    BY <1>0, <1>8 DEF SwapIn, StagingInv, PromotionOf, Renaming
  <2>2. stage[p] # Absent
    BY <2>1, WholeType, ConstantsAssumption
  <2>3. Fail(p, AfterFailedSwap(p)) /\ UNCHANGED <<backup, hadExisting>> /\ pc[p] = "swapIn"
    BY <1>8, <2>1, <2>2 DEF SwapIn
  <2>4. PhaseOf(p)' = PhaseOf(p)
    BY <1>0, <2>3 DEF AfterFailedSwap, TypeOK, PhaseOf, Effective, Examining
  <2>5. Swapping(p)' = Swapping(p)
    BY <1>0, <2>3 DEF AfterFailedSwap, TypeOK, Swapping
  <2> QED
    BY <1>3, <1>4, <1>8, <2>3, <2>4, <2>5
<1>9. CASE SwapIn(p) /\ root' # root
  <2>1. /\ root' = Whole(pin[p]) /\ pin[p] \in Pins /\ root = Absent /\ outcome' = outcome
        /\ pc[p] = "swapIn" /\ pc'[p] \in {"dropBackup", "unlock"}
    BY <1>0, <1>9 DEF SwapIn, StagingInv, TypeOK
  <2>2. /\ storeBar' = Store!Sound(pin[p]) /\ ~Swapping(p)'
    BY <1>3, <2>1, WholeIsSound DEF Swapping, Store!Sound
  <2>3. storeBar # Store!Unmanaged
    <3>1. CASE Swapping(p)
      BY <1>0, <1>3, <3>1, StoreKinds
      DEF PromotionOf, Swapping, Renaming, TypeOK, Store!Unmanaged
    <3>2. CASE ~Swapping(p)
      BY <1>3, <2>1, <3>2, StoreKinds DEF Store!Unmanaged
    <3> QED
      BY <3>1, <3>2
  <2>4. PhaseOf(p) = "called" /\ PhaseOf(p)' = "effective"
    BY <1>0, <2>1 DEF PhaseOf, Effective, Examining
  <2>5. /\ phaseBar' = [phaseBar EXCEPT ![p] = "effective"] /\ phaseBar[p] = "called"
        /\ answerBar' = answerBar
    BY <1>1, <2>4, OneCallMoves DEF phaseBar, answerBar
  <2>6. \A q \in Procs : phaseBar[q] # "removing"
    <3>1. \A q \in Procs : pc[q] # "removing"
      BY <1>0, <2>1 DEF MutualExclusion, InExclusive, Exclusive
    <3> QED
      BY <3>1 DEF phaseBar, PhaseOf, Effective, Examining
  <2>7. op[p] \in {"install", "reinstall"}
    BY <1>0, <2>1 DEF CourseOf
  <2>8. sawIntact' \in [Procs -> BOOLEAN]
    BY <1>0 DEF TypeOK
  <2>9. Store!Replace(p)
    BY <1>1, <2>2, <2>3, <2>5, <2>6, <2>7, <2>8
    DEF Store!Replace, Store!Replaces, Store!NobodyRemoves, Store!To
  <2> QED
    BY <2>9 DEF Store!Next
<1>10. CASE RollBack(p)
  <2>1. /\ root = Absent /\ hadExisting[p] /\ Managed(backup) /\ pc[p] = "rollback"
        /\ Swapping(p) /\ ~Swapping(p)' /\ backup # Absent /\ PhaseOf(p)' = PhaseOf(p)
        /\ outcome' = outcome /\ outcome[p] = "error"
    BY <1>0, <1>10, AbsentUnmanaged
    DEF RollBack, TypeOK, PromotionOf, RootIsClear, Renaming, Swapping, PhaseOf, Effective,
        Examining, CourseOf
  <2>2. CASE root' = backup
    BY <1>3, <1>4, <2>1, <2>2
  <2>3. CASE "rollback" \in Faults /\ root' = root
    <3>1. storeBar' = Store!Nothing
      BY <1>3, <2>1, <2>3, StoreKinds DEF Store!Nothing
    <3>2. storeBar # Store!Unmanaged
      BY <1>0, <1>3, <2>1, StoreKinds DEF TypeOK, Store!Unmanaged
    <3>3. PhaseOf(p) = "called" /\ op[p] \in {"install", "reinstall"}
      BY <1>0, <2>1 DEF PhaseOf, Effective, Examining, CourseOf
    <3>4. phaseBar' = phaseBar /\ phaseBar[p] = "called" /\ answerBar' = answerBar
      BY <1>1, <2>1, <3>3, OneCallMoves DEF phaseBar, answerBar
    <3>5. \A q \in Procs : phaseBar[q] # "removing"
      <4>1. \A q \in Procs : pc[q] # "removing"
        BY <1>0, <2>1 DEF MutualExclusion, InExclusive, Exclusive
      <4> QED
        BY <4>1 DEF phaseBar, PhaseOf, Effective, Examining
    <3>6. Store!Lose(p)
      BY <1>1, <1>2, <2>1, <2>3, <3>1, <3>2, <3>3, <3>4, <3>5
      DEF Store!Lose, Store!Replaces, Store!NobodyRemoves
    <3> QED
      BY <3>6 DEF Store!Next
  <2> QED
    BY <1>10, <2>1, <2>2, <2>3 DEF RollBack
<1> QED
  BY <1>5, <1>6, <1>7, <1>8, <1>9, <1>10

\* A removal: it begins at a recognized root, or ends at once at none.
LEMMA InspectMaps ==
  ASSUME MapInv, MapInv', NEW p \in Procs, InspectRoot(p)
  PROVE  Store!Next
<1> USE DEF Goto, Conclude, Fail, call, work, exam, history
<1>0. /\ TypeOK /\ AllInv /\ AllInv' /\ PromotionInv /\ PromotionInv' /\ MutualExclusion
      /\ InExclusive(p) /\ op[p] = "uninstall" /\ pc[p] = "inspect" /\ outcome[p] = "none"
  BY DEF MapInv, AllInv, SwapInv, SwapOf, Untroubled, InExclusive, Exclusive, InspectRoot
<1>1. /\ \A q \in Procs \ {p} :
           pc'[q] = pc[q] /\ outcome'[q] = outcome[q] /\ op'[q] = op[q]
      /\ UNCHANGED <<root, backup, call, hadExisting>> /\ Observe
      /\ pc'[p] \in {"unlock", "removing"}
  BY <1>0 DEF InspectRoot, TypeOK
<1>2. Store!Witness
  BY <1>0, <1>1, Witnessed
<1>3. storeBar = StoreOf(root)
  BY <1>0, VisibleToHolder DEF Swapping
<1>4. storeBar' = storeBar
  <2>1. \A q \in Procs : Swapping(q)' <=> Swapping(q)
    BY <1>0, <1>1 DEF Swapping
  <2> QED
    BY <1>1, <2>1, StoreUnmoved
<1>5. PhaseOf(p) = "called" /\ phaseBar[p] = "called"
  BY <1>0 DEF PhaseOf, Effective, Examining, phaseBar
<1>6. /\ phaseBar' = [phaseBar EXCEPT ![p] = PhaseOf(p)']
      /\ answerBar' = answerBar
  BY <1>0, <1>1, OneCallMoves DEF answerBar
<1>7. \A q \in Procs : phaseBar[q] # "removing"
  <2>1. \A q \in Procs : pc[q] # "removing"
    BY <1>0 DEF MutualExclusion, InExclusive, Exclusive
  <2> QED
    BY <2>1 DEF phaseBar, PhaseOf, Effective, Examining
<1>8. ASSUME PhaseOf(p)' = IF storeBar = Store!Nothing THEN "effective" ELSE "removing",
             storeBar # Store!Unmanaged
      PROVE  Store!Next
  <2>1. Store!BeginRemoval(p)
    BY <1>0, <1>1, <1>2, <1>4, <1>5, <1>6, <1>7, <1>8
    DEF Store!BeginRemoval, Store!NobodyRemoves, Store!To
  <2> QED
    BY <2>1 DEF Store!Next
<1>9. CASE root = Absent
  <2>1. Goto(p, "unlock") /\ outcome' = outcome
    BY <1>9, AbsentUnmanaged DEF InspectRoot
  <2>2. PhaseOf(p)' = "effective"
    BY <1>0, <2>1 DEF PhaseOf, Effective, TypeOK
  <2>3. storeBar = Store!Nothing /\ storeBar # Store!Unmanaged
    BY <1>3, <1>9, StoreKinds DEF Store!Nothing, Store!Unmanaged
  <2> QED
    BY <1>8, <2>2, <2>3
<1>10. CASE Managed(root)
  <2>1. Goto(p, "removing")
    BY <1>10, AbsentUnmanaged DEF InspectRoot
  <2>2. PhaseOf(p)' = "removing"
    BY <1>0, <2>1 DEF PhaseOf, Effective, Examining, TypeOK
  <2>3. storeBar # Store!Nothing /\ storeBar # Store!Unmanaged
    BY <1>0, <1>3, <1>10, StoreKinds DEF Store!Nothing, Store!Unmanaged, TypeOK
  <2> QED
    BY <1>8, <2>2, <2>3
<1>11. CASE root # Absent /\ ~Managed(root)
  <2>1. Fail(p, "unlock")
    BY <1>11 DEF InspectRoot
  <2>2. PhaseOf(p)' = "called"
    BY <1>0, <2>1 DEF PhaseOf, Effective, Examining, TypeOK
  <2> QED
    BY <1>0, <1>1, <1>2, <1>4, <1>5, <2>2, LookStep
<1> QED
  BY <1>9, <1>10, <1>11

\* A removal: one file after the other, in any order, to the end or not.
LEMMA RemovalMaps ==
  ASSUME MapInv, MapInv', NEW p \in Procs, RemoveAll(p)
  PROVE  Store!Next
<1> USE DEF Goto, Conclude, Fail, call, work, exam, history
<1>0. /\ TypeOK /\ TypeOK' /\ AllInv /\ AllInv' /\ PromotionInv /\ PromotionInv'
      /\ MutualExclusion /\ MutualExclusion' /\ NothingExtra(root)
      /\ InExclusive(p) /\ pc[p] = "removing" /\ outcome[p] = "none" /\ root \in Trees
  BY DEF MapInv, AllInv, SwapInv, SwapOf, Untroubled, InExclusive, Exclusive, RemoveAll,
    NothingExtraInv, TypeOK, Dirs
<1>1. /\ \A q \in Procs \ {p} :
           pc'[q] = pc[q] /\ outcome'[q] = outcome[q] /\ op'[q] = op[q]
      /\ UNCHANGED <<backup, call, hadExisting>> /\ Observe
      /\ pc'[p] \in {"unlock", "removing"} /\ InExclusive(p)'
      /\ \A q \in Procs : pc[q] # "swapIn"
  <2>1. \A q \in Procs : pc[q] # "swapIn"
    BY <1>0 DEF MutualExclusion, InExclusive, Exclusive
  <2> QED
    BY <1>0, <2>1 DEF RemoveAll, TypeOK, InExclusive, Exclusive
<1>2. Store!Witness
  BY <1>0, <1>1, Witnessed
<1>3. storeBar = StoreOf(root) /\ storeBar' = StoreOf(root')
  BY <1>0, <1>1, VisibleToHolder, VisibleToHolderNext DEF Swapping
<1>4. PhaseOf(p) = "removing" /\ phaseBar[p] = "removing"
  BY <1>0 DEF PhaseOf, Effective, Examining, phaseBar
<1>5. phaseBar' = [phaseBar EXCEPT ![p] = PhaseOf(p)'] /\ answerBar' = answerBar
  BY <1>0, <1>1, OneCallMoves DEF answerBar
<1>6. ASSUME UNCHANGED pc, UNCHANGED outcome
      PROVE  phaseBar' = phaseBar
  BY <1>1, <1>4, <1>5, <1>6 DEF PhaseOf, Effective, Examining, phaseBar
<1>7. ASSUME UNCHANGED <<pc, outcome>>, storeBar' = Store!Unmanaged
      PROVE  Store!Next
  <2>1. Store!Dismantle(p)
    BY <1>1, <1>2, <1>4, <1>5, <1>6, <1>7 DEF Store!Dismantle
  <2> QED
    BY <2>1 DEF Store!Next
<1>8. CASE root' = [root EXCEPT !.manifest = None] /\ UNCHANGED <<pc, outcome>>
  <2>1. root' \in Dirs /\ root' # Absent /\ ~Managed(root')
    <3>1. root' \in Trees /\ root'.manifest = None
      BY <1>0, <1>8 DEF Trees, Manifests
    <3> QED
      BY <3>1, ConstantsAssumption DEF Dirs, Managed, ManifestOf
  <2> QED
    BY <1>3, <1>7, <1>8, <2>1, StoreKinds DEF Store!Unmanaged
<1>9. ASSUME NEW f \in Payload, root.files[f] # None,
             root' = [root EXCEPT !.files[f] = None], UNCHANGED <<pc, outcome>>
      PROVE  Store!Next
  <2>1. /\ root' \in Trees /\ root'.manifest = root.manifest /\ root'.files[f] = None
        /\ root' # Absent /\ root # Absent /\ root \in Dirs /\ root' \in Dirs
    BY <1>0, <1>9, ConstantsAssumption DEF Trees, Files, Contents, Dirs
  <2>2. CASE Managed(root)
    <3> DEFINE v == root.manifest.pin
    <3>1. Managed(root') /\ root'.manifest.pin = v
      BY <2>1, <2>2 DEF Managed, ManifestOf
    <3>2. root' # Whole(v)
      BY <1>0, <1>9, <2>1, <2>2 DEF NothingExtra, Whole
    <3>3. storeBar' = Store!Unsound(v) /\ v \in Pins
      BY <1>3, <2>1, <3>1, <3>2, StoreKinds DEF Store!Unsound
    <3>4. storeBar \in Store!Installed(v)
      BY <1>3, <2>1, <2>2, StoreKinds DEF Store!Installed
    <3>5. Store!Dismantle(p)
      BY <1>1, <1>2, <1>4, <1>5, <1>6, <1>9, <3>3, <3>4 DEF Store!Dismantle
    <3> QED
      BY <3>5 DEF Store!Next
  <2>3. CASE ~Managed(root)
    <3>1. ~Managed(root')
      BY <2>1, <2>3 DEF Managed, ManifestOf
    <3> QED
      BY <1>3, <1>7, <1>9, <2>1, <3>1, StoreKinds DEF Store!Unmanaged
  <2> QED
    BY <2>2, <2>3
<1>10. CASE root' = Absent /\ Goto(p, "unlock") /\ UNCHANGED outcome
  <2>1. PhaseOf(p)' = "effective"
    BY <1>0, <1>10 DEF PhaseOf, Effective, TypeOK
  <2>2. storeBar' = Store!Nothing
    BY <1>3, <1>10, StoreKinds DEF Store!Nothing
  <2>3. Store!FinishRemoval(p)
    BY <1>1, <1>2, <1>4, <1>5, <2>1, <2>2 DEF Store!FinishRemoval, Store!To
  <2> QED
    BY <2>3 DEF Store!Next
<1>11. CASE Fail(p, "unlock") /\ UNCHANGED root
  <2>1. PhaseOf(p)' = "called"
    BY <1>0, <1>11 DEF PhaseOf, Effective, Examining, TypeOK
  <2>2. Store!AbandonRemoval(p)
    BY <1>1, <1>2, <1>3, <1>4, <1>5, <1>11, <2>1 DEF Store!AbandonRemoval, Store!To
  <2> QED
    BY <2>2 DEF Store!Next
<1> QED
  BY <1>8, <1>9, <1>10, <1>11 DEF RemoveAll

\* The caller has the answer.
LEMMA ReturnMaps ==
  ASSUME MapInv, NEW p \in Procs, Return(p), Store!Witness
  PROVE  Store!Next
<1>0. TypeOK
  BY DEF MapInv, AllInv
<1>1. /\ \A q \in Procs \ {p} :
           /\ pc'[q] = pc[q] /\ outcome'[q] = outcome[q] /\ op'[q] = op[q]
           /\ hadExisting'[q] = hadExisting[q]
      /\ pc[p] = "returned" /\ pc'[p] = "idle" /\ UNCHANGED <<root, backup>>
  BY <1>0 DEF Return, Forget, TypeOK
<1>2. \A q \in Procs : Swapping(q)' <=> Swapping(q)
  BY <1>1 DEF Swapping
<1>3. storeBar' = storeBar
  BY <1>1, <1>2, StoreUnmoved
<1>4. PhaseOf(p)' = "idle" /\ phaseBar[p] = "answered"
  BY <1>1 DEF PhaseOf, Effective, Examining, phaseBar
<1>5. /\ phaseBar' = [phaseBar EXCEPT ![p] = "idle"]
      /\ answerBar' = [answerBar EXCEPT ![p] = "none"]
  BY <1>1, <1>4, OneCallMoves
<1>6. Store!Return(p)
  BY <1>3, <1>4, <1>5 DEF Return, Forget, Store!Return, Store!Forget, Store!To
<1> QED
  BY <1>6 DEF Store!Next

\* A killed call: between the two renames the version is lost with it.
LEMMA CrashMaps ==
  ASSUME MapInv, NEW p \in Procs, Crash(p), Store!Witness
  PROVE  Store!Next
<1>0. TypeOK /\ PromotionOf(p) /\ CourseOf(p) /\ MutualExclusion
  BY DEF MapInv, AllInv, PromotionInv, CourseInv
<1>1. /\ \A q \in Procs \ {p} :
           /\ pc'[q] = pc[q] /\ outcome'[q] = outcome[q] /\ op'[q] = op[q]
           /\ hadExisting'[q] = hadExisting[q]
      /\ pc[p] # "idle" /\ pc'[p] = "idle" /\ UNCHANGED <<root, backup>>
      /\ "crash" \in Faults
  BY <1>0 DEF Crash, Forget, TypeOK
<1>2. PhaseOf(p)' = "idle" /\ phaseBar[p] # "idle"
  BY <1>1 DEF PhaseOf, Effective, Examining, phaseBar
<1>3. /\ phaseBar' = [phaseBar EXCEPT ![p] = "idle"]
      /\ answerBar' = [answerBar EXCEPT ![p] = "none"]
  BY <1>1, <1>2, OneCallMoves
<1>4. ASSUME \/ storeBar' = storeBar
             \/ /\ phaseBar[p] = "called" /\ op[p] \in {"install", "reinstall"}
                /\ storeBar # Store!Unmanaged /\ storeBar' = Store!Nothing
      PROVE  Store!Next
  <2>1. Store!Kill(p)
    BY <1>1, <1>2, <1>3, <1>4
    DEF Crash, Forget, Store!Kill, Store!Forget, Store!To, Store!Replaces
  <2> QED
    BY <2>1 DEF Store!Next
<1>5. CASE Swapping(p)
  <2>1. root = Absent /\ Managed(backup) /\ InExclusive(p) /\ Renaming(p)
    BY <1>0, <1>5 DEF PromotionOf, Swapping, Renaming, InExclusive, Exclusive
  <2>2. storeBar = StoreOf(backup)
    BY <1>0, <1>5, <2>1, VisibleToHolder
  <2>3. \A q \in Procs : ~Swapping(q)'
    BY <1>0, <1>1, <2>1 DEF Swapping, MutualExclusion, InExclusive, Exclusive
  <2>4. storeBar' = StoreOf(Absent)
    BY <1>1, <2>1, <2>3 DEF storeBar, Visible, StoreOf
  <2>5. storeBar # Store!Unmanaged /\ storeBar' = Store!Nothing
    BY <1>0, <2>1, <2>2, <2>4, StoreKinds DEF TypeOK, Store!Unmanaged, Store!Nothing
  <2>6. phaseBar[p] = "called" /\ op[p] \in {"install", "reinstall"}
    <3>1. outcome[p] = "error" \/ pc[p] = "swapIn"
      BY <1>0, <2>1 DEF CourseOf, Renaming
    <3> QED
      BY <1>0, <2>1, <3>1 DEF phaseBar, PhaseOf, Effective, Examining, CourseOf, Renaming
  <2> QED
    BY <1>4, <2>5, <2>6
<1>6. CASE ~Swapping(p)
  <2>1. \A q \in Procs : Swapping(q)' <=> Swapping(q)
    BY <1>1, <1>6 DEF Swapping
  <2> QED
    BY <1>1, <1>4, <2>1, StoreUnmoved
<1> QED
  BY <1>5, <1>6

\* An installed file is overwritten.
LEMMA TamperMaps ==
  ASSUME MapInv, Tamper, Store!Witness
  PROVE  Store!Next
<1>0. TypeOK /\ RootIsClear
  BY DEF MapInv, AllInv
<1>1. root \in Trees /\ Managed(root)
  BY <1>0, ManagedTree DEF Tamper, TypeOK
<1>2. PICK f \in Payload : root' = [root EXCEPT !.files[f] = Altered]
  BY DEF Tamper
<1> DEFINE v == root.manifest.pin
<1>3. /\ root' \in Trees /\ root'.manifest = root.manifest /\ root'.files[f] = Altered
      /\ root' # Absent /\ root # Absent /\ root \in Dirs /\ root' \in Dirs
  BY <1>1, <1>2, ConstantsAssumption DEF Trees, Files, Contents, Dirs
<1>4. Managed(root') /\ root'.manifest.pin = v /\ v \in Pins
  BY <1>1, <1>3, StoreKinds DEF Managed, ManifestOf
<1>5. root' # Whole(v)
  <2>1. Unpack(v)[f] # Altered
    BY <1>4, LookedFor, ConstantsAssumption
  <2> QED
    BY <1>3, <2>1 DEF Whole
<1>6. \A q \in Procs : ~Swapping(q) /\ ~Swapping(q)'
  BY <1>0, <1>1 DEF RootIsClear, Renaming, Swapping, Tamper, work
<1>7. storeBar = StoreOf(root) /\ storeBar' = StoreOf(root')
  BY <1>6 DEF storeBar, Visible, StoreOf, Managed, ManifestOf
<1>8. storeBar' = Store!Unsound(v)
  BY <1>3, <1>4, <1>5, <1>7, StoreKinds DEF Store!Unsound
<1>9. storeBar \in Store!Installed(v)
  BY <1>1, <1>3, <1>7, StoreKinds DEF Store!Installed
<1>10. phaseBar' = phaseBar /\ answerBar' = answerBar /\ UNCHANGED <<op, pin>>
  BY DEF Tamper, call, phaseBar, answerBar, PhaseOf, Effective
<1>11. Store!Damage
  BY <1>4, <1>8, <1>9, <1>10 DEF Store!Damage
<1> QED
  BY <1>11 DEF Store!Next

\* Nothing of the lock shows.
LEMMA LockMaps ==
  ASSUME ClearStaleLock, Store!Witness
  PROVE  Store!Next
<1>1. UNCHANGED <<storeBar, phaseBar, answerBar, op, pin>>
  BY DEF ClearStaleLock, call, work, storeBar, Visible, Swapping, StoreOf, Managed,
    ManifestOf, phaseBar, answerBar, PhaseOf, Effective
<1> QED
  BY <1>1 DEF Store!Next, Store!Look

-----------------------------------------------------------------------------
\* Every step of the installer is a step of the store, or shows nothing.
LEMMA StepMaps ==
  "squat" \notin Faults /\ MapInv /\ MapInv' /\ [Next]_vars => [Store!Next]_(Store!vars)
<1> SUFFICES ASSUME "squat" \notin Faults, MapInv, MapInv', [Next]_vars
             PROVE  Store!Next \/ UNCHANGED Store!vars
  OBVIOUS
<1>1. ASSUME Observe, UNCHANGED root
      PROVE  Store!Witness
  BY <1>1, Witnessed DEF MapInv
<1>2. ASSUME NEW p \in Procs, Start(p)
      PROVE  Store!Next
  BY <1>1, <1>2, StartMaps DEF Start
<1>3. ASSUME NEW p \in Procs,
             \/ StatBeforeReinstall(p) \/ AcquireBundleLock(p) \/ ReleaseBundleLock(p)
             \/ ValidateExistingRoot(p) \/ FetchPinnedObjects(p) \/ ExtractToStage(p)
             \/ WriteManifest(p) \/ StatRoot(p) \/ RemoveStage(p)
             \/ DoctorManifest(p) \/ DoctorCommand(p) \/ DoctorDigest(p) \/ Reject(p)
      PROVE  Store!Next
  <2>1. Store!Witness
    BY <1>1, <1>3
    DEF StatBeforeReinstall, AcquireBundleLock, ReleaseBundleLock, ValidateExistingRoot,
        FetchPinnedObjects, ExtractToStage, WriteManifest, StatRoot, RemoveStage,
        DoctorManifest, DoctorCommand, DoctorDigest, Reject
  <2>2. CASE pc'[p] = "returned"
    <3>1. \/ Reject(p) \/ AcquireBundleLock(p) \/ ReleaseBundleLock(p)
          \/ DoctorManifest(p) \/ DoctorCommand(p) \/ DoctorDigest(p)
      BY <1>3, <2>2
      DEF StatBeforeReinstall, ValidateExistingRoot, FetchPinnedObjects, ExtractToStage,
          WriteManifest, StatRoot, RemoveStage, Goto, Fail, Conclude, MapInv, AllInv, TypeOK
    <3> QED
      BY <2>1, <2>2, <3>1, EndMaps
  <2>3. CASE pc'[p] # "returned"
    <3>1. ~Reject(p)
      BY <2>3 DEF Reject, Fail, Conclude, Goto, MapInv, AllInv, TypeOK
    <3> QED
      BY <1>3, <2>1, <2>3, <3>1, QuietMaps
  <2> QED
    BY <2>2, <2>3
<1>4. ASSUME NEW p \in Procs,
             \/ ClearBackup(p) \/ SetAside(p) \/ SwapIn(p) \/ RollBack(p) \/ DropBackup(p)
      PROVE  Store!Next
  BY <1>4, PromotionMaps
<1>5. ASSUME NEW p \in Procs, InspectRoot(p) \/ RemoveAll(p)
      PROVE  Store!Next
  BY <1>5, InspectMaps, RemovalMaps
<1>6. ASSUME NEW p \in Procs, Return(p) \/ Crash(p)
      PROVE  Store!Next
  BY <1>1, <1>6, ReturnMaps, CrashMaps DEF Return, Crash
<1>7. CASE Tamper
  <2>1. \A q \in Procs : pc[q] # "swapIn"
    BY <1>7 DEF Tamper, MapInv, RootIsClear, Renaming
  <2>2. Store!Witness
    BY <1>7, <2>1, Witnessed DEF Tamper, MapInv
  <2> QED
    BY <1>7, <2>2, TamperMaps
<1>8. CASE ClearStaleLock
  BY <1>1, <1>8, LockMaps DEF ClearStaleLock
<1>9. ~Squat
  BY DEF Squat
<1>10. CASE UNCHANGED vars
  BY <1>10 DEF vars, Store!vars, storeBar, Visible, Swapping, StoreOf, Managed, ManifestOf,
    phaseBar, answerBar, PhaseOf, Effective
<1> QED
  BY <1>2, <1>3, <1>4, <1>5, <1>6, <1>7, <1>8, <1>9, <1>10 DEF Next, Step

\* The first states are as every call needs them.
LEMMA InitMaps == Init => MapInv
<1>1. Init => AllInv
  BY InitTypes
  DEF Init, AllInv, MutualExclusion, InExclusive, Exclusive, SwapInv, SwapOf
<1>2. Init => RootIsClear /\ NothingExtraInv /\ DoctorInv
  BY ForeignUnmanaged, AbsentUnmanaged
  DEF Init, RootIsClear, Renaming, NothingExtraInv, NothingExtra, DoctorInv, DoctorOf
<1>3. Init => CourseInv /\ PromotionInv
  BY DEF Init, CourseInv, CourseOf, PromotionInv, PromotionOf, Examining, Renaming
<1> QED
  BY <1>1, <1>2, <1>3 DEF MapInv

\* Every step keeps what the calls rely on.
LEMMA NextMaps ==
  "squat" \notin Faults /\ MapInv /\ ManifestsRecordVerifiedBytes /\ [Next]_vars => MapInv'
  BY TypeStep, StagingStep, MutexStep, SwapStep, ClearStep, ExtraStep, DoctorStep,
    CourseStep, PromotionStep DEF MapInv, AllInv

\* Where nobody else makes a directory under the bundle's name, the installer
\* is the store: each call takes effect at one instant between its invocation
\* and its answer, or fails without effect, whatever the others do and whatever
\* fails or is killed, and only a kill or a failed rename back loses a version.
THEOREM InstallerImplementsStore ==
  ASSUME "squat" \notin Faults
  PROVE  Spec => ImplementsStore
<1>1. Init => MapInv
  BY InitMaps
<1>2. MapInv /\ ManifestsRecordVerifiedBytes /\ [Next]_vars => MapInv'
  BY NextMaps
<1>3. Init => Store!Init
  <2> SUFFICES ASSUME Init
               PROVE  Store!Init
    OBVIOUS
  <2>1. storeBar = StoreOf(root) /\ root \in Dirs /\ ~Managed(root)
    BY ForeignTreesType, ForeignUnmanaged, AbsentUnmanaged
    DEF Init, storeBar, Visible, Swapping, Dirs
  <2>2. storeBar \in {Store!Nothing, Store!Unmanaged}
    BY <2>1, StoreKinds DEF Store!Nothing, Store!Unmanaged
  <2> QED
    BY <2>2 DEF Init, Store!Init, phaseBar, answerBar, PhaseOf, Effective, Examining
<1>4. MapInv /\ MapInv' /\ [Next]_vars => [Store!Next]_(Store!vars)
  BY StepMaps
<1> QED
  BY <1>1, <1>2, <1>3, <1>4, VerifiedBytes, PTL DEF Spec, ImplementsStore, Store!Spec
=============================================================================
