----------------------- MODULE ManagedRuntimeInstaller -----------------------
(***************************************************************************)
(* The life cycle of one managed runtime bundle on disk                    *)
(* (container/managed_runtime_installer.go): Install, Doctor, Uninstall    *)
(* and Reinstall calls, each made by its own agent process, that share     *)
(* one scoped install root.  What the calls share is the file system:      *)
(*                                                                         *)
(*   lockFile   <install root>/.locks/<bundle>.lock                        *)
(*   root       <install root>/<bundle>                                    *)
(*   backup     <install root>/<bundle>.previous                           *)
(*                                                                         *)
(* A process may stop between any two system calls, other processes run    *)
(* between them, and every system call that can fail does so when the      *)
(* constant Faults says it may.                                            *)
(***************************************************************************)
EXTENDS FiniteSets

CONSTANTS
  Procs,          \* agent processes, one call at a time each
  Pins,           \* bundle descriptors (versions) the catalogs pin
  Payload,        \* paths of the files an artifact can ship
  Command,        \* bin/nerdctl, the path every install must have
  Bytes,          \* what the pinned artifacts' files can hold
  Build,          \* Build[v][f]: the bytes v's artifact has at path f, or None
  Faults,         \* the failures the environment may cause in this instance
  None,           \* nothing: no file, no bytes, no descriptor
  Absent,         \* no directory
  Altered,        \* bytes no catalog pins
  Theirs,         \* bytes of a directory the installer did not make
  OtherManifest,  \* a manifest that is not this bundle's, or not JSON
  Free,           \* no lock file
  Stale           \* a lock file whose creator no longer runs

FaultKinds == {"reject", "source", "stage", "rename", "rollback", "removal",
               "uninstall", "crash", "tamper", "squat"}
Ops        == {"install", "doctor", "uninstall", "reinstall"}
Contents   == Bytes \cup {None, Altered, Theirs}
Files      == [Payload -> Contents]
Receipts   == [pin : Pins, digests : Files]
Manifests  == Receipts \cup {None, OtherManifest}
Trees      == [manifest : Manifests, files : Files]
Dirs       == Trees \cup {Absent}
Objects    == Pins \cup {None, Altered}

ASSUME ConstantsAssumption ==
  /\ Command \in Payload
  /\ Build \in [Pins -> [Payload -> Bytes \cup {None}]]
  /\ Faults \subseteq FaultKinds
  /\ Absent \notin Trees
  /\ {None, OtherManifest} \cap Receipts = {} /\ None # OtherManifest
  /\ {None, Altered, Theirs} \cap Bytes = {}
  /\ {None, Altered} \cap Pins = {}
  /\ None # Altered /\ None # Theirs /\ Altered # Theirs
  /\ {Free, Stale} \cap Procs = {} /\ Free # Stale

Labels == {"idle", "stat", "lock", "validate", "fetch", "extract", "manifest",
           "clearBackup", "statRoot", "setAside", "swapIn", "rollback",
           "dropBackup", "removeStage", "unlock", "inspect", "removing",
           "doctor", "command", "digests", "returned"}

Outcomes == {"none", "done", "ok", "missing", "degraded", "error"}

VARIABLES
  lockFile,     \* Free, the process whose call created the file, or Stale
  root,         \* the bundle root
  backup,       \* the directory a promotion sets the old install aside in
  pc,           \* where each process's call is
  op,           \* the call it makes
  pin,          \* the descriptor its catalog pins for the bundle
  object,       \* the artifact bytes it fetched
  stage,        \* its private staging directory
  hadExisting,  \* managedRuntimePromoteStage's local of that name
  removed,      \* the Removed field of its result (Reinstall's "replaced")
  want,         \* Doctor's manifest.FileDigests
  pending,      \* paths Doctor has not compared yet
  outcome,      \* its result: done, a Doctor status, or an error
  prior,        \* history: the manifest of the root when it was validated
  swapped,      \* history: this call moved an existing root aside
  sawIntact     \* history: at some instant of the examination Doctor makes
                \* the pinned install was whole, or another one replaced it

call    == <<op, pin>>
work    == <<object, stage, hadExisting>>
exam    == <<want, pending>>
history == <<prior, swapped>>
vars    == <<lockFile, root, backup, pc, op, pin, object, stage, hadExisting,
             removed, want, pending, outcome, prior, swapped, sawIntact>>

-----------------------------------------------------------------------------
(* What is in a directory.                                                 *)

\* The definitions whose comment says "Mutant" are what the code does not do:
\* each stands before the definition it replaces to show that a property of
\* a run would notice.

\* Mutant of Unpack: a file gets its path for content.
UnpackPaths(o) == [f \in Payload |-> f]

\* The files an artifact o that a catalog pins extracts to; versions may have
\* files in common.
Unpack(o) == [f \in Payload |-> IF o \in Pins THEN Build[o][f] ELSE Altered]

ManifestOf(dir) == IF dir = Absent THEN None ELSE dir.manifest
FileOf(dir, f)  == IF dir = Absent THEN None ELSE dir.files[f]

\* Mutant of Managed: any directory that exists.
Exists(dir) == dir # Absent

\* validateManagedRuntimeManifestForRemoval: the directory has a manifest
\* with this bundle's id, root and command path; its version is not compared.
Managed(dir) == ManifestOf(dir) \in Receipts

Receipt(v) == [pin |-> v, digests |-> Unpack(v)]
Whole(v)   == [manifest |-> Receipt(v), files |-> Unpack(v)]

\* A directory some other program or a person made under the bundle's name.
ForeignTrees == [manifest : {None, OtherManifest},
                 files : {[f \in Payload |-> Theirs]}]
Foreign(dir) == \E f \in Payload : FileOf(dir, f) = Theirs

\* Mutant of Leavings: nothing is removed.
Everything(dir) == {dir}

\* What os.RemoveAll leaves behind: nothing, or what it could not remove.
Leavings(dir) ==
  {Absent} \cup
  IF dir = Absent \/ "removal" \notin Faults THEN {}
  ELSE [manifest : {dir.manifest, None},
        files : {[f \in Payload |-> IF f \in kept THEN dir.files[f] ELSE None] :
                   kept \in SUBSET Payload}]

\* Mutant of Verified: the fetched bytes are not compared.
AnyBytes(o, v) == TRUE

\* Every object of the bundle has its pinned digest, the checksum object
\* names the artifact and the pinned key signed it: only v's own bytes pass.
Verified(o, v) == o = v

\* Mutant of SameDigest: only the set of paths is compared.
SamePath(dir, f, digests) == FileOf(dir, f) = None <=> digests[f] = None

\* verifyManagedRuntimeInstalledFileDigests, for one path.
SameDigest(dir, f, digests) == FileOf(dir, f) = digests[f]

-----------------------------------------------------------------------------
Init ==
  /\ lockFile = Free
  /\ root \in {Absent} \cup ForeignTrees
  /\ backup = Absent
  /\ pc = [p \in Procs |-> "idle"]
  /\ op = [p \in Procs |-> "install"]
  /\ pin = [p \in Procs |-> None]
  /\ object = [p \in Procs |-> None]
  /\ stage = [p \in Procs |-> Absent]
  /\ hadExisting = [p \in Procs |-> FALSE]
  /\ removed = [p \in Procs |-> FALSE]
  /\ want = [p \in Procs |-> [f \in Payload |-> None]]
  /\ pending = [p \in Procs |-> {}]
  /\ outcome = [p \in Procs |-> "none"]
  /\ prior = [p \in Procs |-> None]
  /\ swapped = [p \in Procs |-> FALSE]
  /\ sawIntact = [p \in Procs |-> FALSE]

Examining == {"doctor", "command", "digests"}

\* What Doctor could have seen since it began; a conjunct of every action.
Observe ==
  sawIntact' = [p \in Procs |->
    \/ /\ pc[p] \in Examining /\ pc'[p] \in Examining \cup {"returned"}
       /\ sawIntact[p]
    \/ pc[p] = "returned" /\ pc'[p] = "returned" /\ sawIntact[p]
    \/ pc'[p] \in Examining /\ root' = Whole(pin'[p])
    \/ /\ pc[p] \in {"command", "digests"}
       /\ \E q \in Procs : pc[q] = "swapIn" /\ root' = Whole(pin[q])]

Goto(p, label) == pc' = [pc EXCEPT ![p] = label]

Conclude(p, result, label) ==
  /\ outcome' = [outcome EXCEPT ![p] = result]
  /\ Goto(p, label)

Fail(p, label) == Conclude(p, "error", label)

-----------------------------------------------------------------------------
(* The entry of a call, and the lock.                                      *)

Start(p) ==
  /\ pc[p] = "idle"
  /\ \E o \in Ops, v \in Pins :
       /\ op' = [op EXCEPT ![p] = o]
       /\ pin' = [pin EXCEPT ![p] = v]
       /\ Goto(p, CASE o = "reinstall" -> "stat"
                    [] o = "doctor"    -> "doctor"
                    [] OTHER           -> "lock")
  /\ UNCHANGED <<lockFile, root, backup, work, removed, exam, outcome, history>>
  /\ Observe

\* Reinstall looks for the install it will replace before Install locks.
StatBeforeReinstall(p) ==
  /\ pc[p] = "stat"
  /\ removed' = [removed EXCEPT ![p] = root # Absent]
  /\ Goto(p, "lock")
  /\ UNCHANGED <<lockFile, root, backup, call, work, exam, outcome, history>>
  /\ Observe

\* The context is done, the catalog has no valid bundle for the target, or
\* the install root is not usable.
Reject(p) ==
  /\ "reject" \in Faults
  /\ pc[p] \in {"lock", "doctor"}
  /\ Fail(p, "returned")
  /\ UNCHANGED <<lockFile, root, backup, call, work, removed, exam, history>>
  /\ Observe

\* Mutant of LockAvailable: the file is opened without O_EXCL.
AlwaysAvailable == TRUE

\* O_CREATE|O_EXCL: the lock is taken only if its file does not exist.
LockAvailable == lockFile = Free

AcquireBundleLock(p) ==
  /\ pc[p] = "lock"
  /\ \/ /\ LockAvailable
        /\ lockFile' = p
        /\ Goto(p, IF op[p] = "uninstall" THEN "inspect" ELSE "validate")
        /\ UNCHANGED outcome
     \/ /\ ~LockAvailable
        /\ Fail(p, "returned")
        /\ UNCHANGED lockFile
  /\ UNCHANGED <<root, backup, call, work, removed, exam, history>>
  /\ Observe

\* Mutant of AfterUnlock: the unlock is not deferred, errors return past it.
UnlockOnSuccess(p) == IF outcome[p] = "error" THEN {lockFile} ELSE {Free}

\* os.Remove of the lock file, whose error is ignored.
AfterUnlock(p) == {Free} \cup IF "removal" \in Faults THEN {Stale} ELSE {}

\* The deferred unlock.  Reinstall goes on to Doctor only if its Install
\* succeeded.
ReleaseBundleLock(p) ==
  /\ pc[p] = "unlock"
  /\ lockFile' \in AfterUnlock(p)
  /\ \/ /\ outcome[p] = "error"
        /\ Goto(p, "returned")
        /\ UNCHANGED outcome
     \/ /\ outcome[p] # "error" /\ op[p] = "reinstall"
        /\ Goto(p, "doctor")
        /\ UNCHANGED outcome
     \/ /\ outcome[p] # "error" /\ op[p] # "reinstall"
        /\ Conclude(p, "done", "returned")
  /\ UNCHANGED <<root, backup, call, work, removed, exam, history>>
  /\ Observe

\* The caller has the result: the process may make its next call.
Forget(p) ==
  /\ pc' = [pc EXCEPT ![p] = "idle"]
  /\ op' = [op EXCEPT ![p] = "install"]
  /\ pin' = [pin EXCEPT ![p] = None]
  /\ object' = [object EXCEPT ![p] = None]
  /\ stage' = [stage EXCEPT ![p] = Absent]
  /\ hadExisting' = [hadExisting EXCEPT ![p] = FALSE]
  /\ removed' = [removed EXCEPT ![p] = FALSE]
  /\ want' = [want EXCEPT ![p] = [f \in Payload |-> None]]
  /\ pending' = [pending EXCEPT ![p] = {}]
  /\ outcome' = [outcome EXCEPT ![p] = "none"]
  /\ prior' = [prior EXCEPT ![p] = None]
  /\ swapped' = [swapped EXCEPT ![p] = FALSE]

Return(p) ==
  /\ pc[p] = "returned"
  /\ Forget(p)
  /\ UNCHANGED <<lockFile, root, backup>>
  /\ Observe

-----------------------------------------------------------------------------
(* Install: validate, fetch and verify, stage, promote.                    *)

\* Mutant of ValidateExistingRoot: it also clears away what a killed promotion
\* may have left.
ValidateAndClear(p) ==
  /\ pc[p] = "validate"
  /\ prior' = [prior EXCEPT ![p] = ManifestOf(root)]
  /\ backup' = Absent
  /\ \/ /\ root = Absent \/ Managed(root)
        /\ Goto(p, "fetch")
        /\ UNCHANGED outcome
     \/ /\ root # Absent /\ ~Managed(root)
        /\ Fail(p, "unlock")
  /\ UNCHANGED <<lockFile, root, call, work, removed, exam, swapped>>
  /\ Observe

ValidateExistingRoot(p) ==
  /\ pc[p] = "validate"
  /\ prior' = [prior EXCEPT ![p] = ManifestOf(root)]
  /\ \/ /\ root = Absent \/ Managed(root)
        /\ Goto(p, "fetch")
        /\ UNCHANGED outcome
     \/ /\ root # Absent /\ ~Managed(root)
        /\ Fail(p, "unlock")
  /\ UNCHANGED <<lockFile, root, backup, call, work, removed, exam, swapped>>
  /\ Observe

\* Mutant of FetchPinnedObjects: the old install is removed first.
RemoveThenFetch(p) ==
  /\ pc[p] = "fetch"
  /\ root' = Absent
  /\ object' = [object EXCEPT ![p] = pin[p]]
  /\ Goto(p, "extract")
  /\ UNCHANGED <<lockFile, backup, call, stage, hadExisting, removed, exam, outcome,
                 history>>
  /\ Observe

\* The source answers with the pinned objects, with others, or not at all.
FetchPinnedObjects(p) ==
  /\ pc[p] = "fetch"
  /\ \E o \in Pins \cup {Altered} :
       /\ o # pin[p] => "source" \in Faults
       /\ \/ /\ Verified(o, pin[p])
             /\ object' = [object EXCEPT ![p] = o]
             /\ Goto(p, "extract")
             /\ UNCHANGED outcome
          \/ /\ ~Verified(o, pin[p])
             /\ Fail(p, "unlock")
             /\ UNCHANGED object
  /\ UNCHANGED <<lockFile, root, backup, call, stage, hadExisting, removed,
                 exam, history>>
  /\ Observe

\* A fresh staging directory, the archive's files, and the command required
\* among them.  A failure part way leaves some of the files.
ExtractToStage(p) ==
  /\ pc[p] = "extract"
  /\ LET files == Unpack(object[p]) IN
     \/ /\ stage' = [stage EXCEPT ![p] = [manifest |-> None, files |-> files]]
        /\ \/ /\ files[Command] # None
              /\ Goto(p, "manifest")
              /\ UNCHANGED outcome
           \/ /\ files[Command] = None
              /\ Fail(p, "removeStage")
     \/ /\ "stage" \in Faults
        /\ \E done \in SUBSET Payload :
             stage' = [stage EXCEPT ![p] =
               [manifest |-> None,
                files |-> [f \in Payload |->
                             IF f \in done THEN files[f] ELSE None]]]
        /\ Fail(p, "removeStage")
  /\ UNCHANGED <<lockFile, root, backup, call, object, hadExisting, removed,
                 exam, history>>
  /\ Observe

\* Mutant of StagedManifest: it names the staging directory as its root.
ManifestOfStage(p) == OtherManifest

\* The staged files' digests, under the descriptor the catalog pins.
StagedManifest(p) == [pin |-> pin[p], digests |-> stage[p].files]

WriteManifest(p) ==
  /\ pc[p] = "manifest"
  /\ \/ /\ stage' = [stage EXCEPT ![p].manifest = StagedManifest(p)]
        /\ Goto(p, "clearBackup")
        /\ UNCHANGED outcome
     \/ /\ "stage" \in Faults
        /\ Fail(p, "removeStage")
        /\ UNCHANGED stage
  /\ UNCHANGED <<lockFile, root, backup, call, object, hadExisting, removed,
                 exam, history>>
  /\ Observe

\* managedRuntimePromoteStage, one system call at a time.
ClearBackup(p) ==
  /\ pc[p] = "clearBackup"
  /\ backup' \in Leavings(backup)
  /\ Goto(p, "statRoot")
  /\ UNCHANGED <<lockFile, root, call, work, removed, exam, outcome, history>>
  /\ Observe

StatRoot(p) ==
  /\ pc[p] = "statRoot"
  /\ \/ /\ hadExisting' = [hadExisting EXCEPT ![p] = root # Absent]
        /\ Goto(p, IF root # Absent THEN "setAside" ELSE "swapIn")
        /\ UNCHANGED outcome
     \/ /\ "rename" \in Faults
        /\ Fail(p, "removeStage")
        /\ UNCHANGED hadExisting
  /\ UNCHANGED <<lockFile, root, backup, call, object, stage, removed, exam, history>>
  /\ Observe

\* os.Rename moves a directory only to a name that does not exist.
SetAside(p) ==
  /\ pc[p] = "setAside"
  /\ \/ /\ root # Absent /\ backup = Absent
        /\ backup' = root
        /\ root' = Absent
        /\ swapped' = [swapped EXCEPT ![p] = TRUE]
        /\ Goto(p, "swapIn")
        /\ UNCHANGED outcome
     \/ /\ root = Absent \/ backup # Absent \/ "rename" \in Faults
        /\ Fail(p, "removeStage")
        /\ UNCHANGED <<root, backup, swapped>>
  /\ UNCHANGED <<lockFile, call, work, removed, exam, prior>>
  /\ Observe

\* Mutant of AfterFailedSwap: the old install is not put back.
NoRollBack(p) == "removeStage"

AfterFailedSwap(p) == IF hadExisting[p] THEN "rollback" ELSE "removeStage"

SwapIn(p) ==
  /\ pc[p] = "swapIn"
  /\ \/ /\ root = Absent
        /\ root' = stage[p]
        /\ stage' = [stage EXCEPT ![p] = Absent]
        /\ Goto(p, IF hadExisting[p] THEN "dropBackup" ELSE "unlock")
        /\ UNCHANGED outcome
     \/ /\ root # Absent \/ "rename" \in Faults
        /\ Fail(p, AfterFailedSwap(p))
        /\ UNCHANGED <<root, stage>>
  /\ UNCHANGED <<lockFile, backup, call, object, hadExisting, removed, exam, history>>
  /\ Observe

\* Mutant of RollBack: the backup is removed when the rename back fails.
RollBackOrDrop(p) ==
  /\ pc[p] = "rollback"
  /\ root' \in {root} \cup IF root = Absent THEN {backup} ELSE {}
  /\ backup' = Absent
  /\ Goto(p, "removeStage")
  /\ UNCHANGED <<lockFile, call, work, removed, exam, outcome, history>>
  /\ Observe

\* The error of the rename back is ignored.
RollBack(p) ==
  /\ pc[p] = "rollback"
  /\ \/ /\ root = Absent /\ backup # Absent
        /\ root' = backup
        /\ backup' = Absent
     \/ /\ root # Absent \/ backup = Absent \/ "rollback" \in Faults
        /\ UNCHANGED <<root, backup>>
  /\ Goto(p, "removeStage")
  /\ UNCHANGED <<lockFile, call, work, removed, exam, outcome, history>>
  /\ Observe

DropBackup(p) ==
  /\ pc[p] = "dropBackup"
  /\ backup' \in Leavings(backup)
  /\ Goto(p, "unlock")
  /\ UNCHANGED <<lockFile, root, call, work, removed, exam, outcome, history>>
  /\ Observe

\* The deferred removal of the staging directory.  What it cannot remove no
\* later call looks at: every Install makes a staging directory of its own.
RemoveStage(p) ==
  /\ pc[p] = "removeStage"
  /\ stage' = [stage EXCEPT ![p] = Absent]
  /\ Goto(p, "unlock")
  /\ UNCHANGED <<lockFile, root, backup, call, object, hadExisting, removed,
                 exam, outcome, history>>
  /\ Observe

-----------------------------------------------------------------------------
(* Uninstall: validate, then remove one file after the other.              *)

InspectRoot(p) ==
  /\ pc[p] = "inspect"
  /\ \/ /\ root = Absent
        /\ Goto(p, "unlock")
        /\ UNCHANGED outcome
     \/ /\ Managed(root)
        /\ Goto(p, "removing")
        /\ UNCHANGED outcome
     \/ /\ root # Absent /\ ~Managed(root)
        /\ Fail(p, "unlock")
  /\ UNCHANGED <<lockFile, root, backup, call, work, removed, exam, history>>
  /\ Observe

Emptied(dir) == dir.manifest = None /\ \A f \in Payload : dir.files[f] = None

RemoveAll(p) ==
  /\ pc[p] = "removing"
  /\ root # Absent
  /\ \/ /\ root.manifest # None
        /\ root' = [root EXCEPT !.manifest = None]
        /\ UNCHANGED <<pc, removed, outcome>>
     \/ /\ \E f \in Payload :
             /\ root.files[f] # None
             /\ root' = [root EXCEPT !.files[f] = None]
        /\ UNCHANGED <<pc, removed, outcome>>
     \/ /\ Emptied(root)
        /\ root' = Absent
        /\ removed' = [removed EXCEPT ![p] = TRUE]
        /\ Goto(p, "unlock")
        /\ UNCHANGED outcome
     \/ /\ "uninstall" \in Faults
        /\ Fail(p, "unlock")
        /\ UNCHANGED <<root, removed>>
  /\ UNCHANGED <<lockFile, backup, call, work, exam, history>>
  /\ Observe

-----------------------------------------------------------------------------
(* Doctor takes no lock: it reads the root while others change it.         *)

DoctorManifest(p) ==
  /\ pc[p] = "doctor"
  /\ LET m == ManifestOf(root) IN
     \/ /\ m = None
        /\ Conclude(p, "missing", "returned")
        /\ UNCHANGED exam
     \/ /\ m = OtherManifest
        /\ \E result \in {"error", "degraded"} : Conclude(p, result, "returned")
        /\ UNCHANGED exam
     \/ /\ m \in Receipts
        /\ m.pin # pin[p]
        /\ Conclude(p, "degraded", "returned")
        /\ UNCHANGED exam
     \/ /\ m \in Receipts
        /\ m.pin = pin[p]
        /\ want' = [want EXCEPT ![p] = m.digests]
        /\ pending' = [pending EXCEPT ![p] = Payload]
        /\ Goto(p, "command")
        /\ UNCHANGED outcome
  /\ UNCHANGED <<lockFile, root, backup, call, work, removed, history>>
  /\ Observe

\* A command that is now a directory or a symbolic link is degraded at once.
DoctorCommand(p) ==
  /\ pc[p] = "command"
  /\ \/ /\ FileOf(root, Command) = None
        /\ Conclude(p, "missing", "returned")
     \/ /\ FileOf(root, Command) \in {Altered, Theirs}
        /\ Conclude(p, "degraded", "returned")
     \/ /\ FileOf(root, Command) # None
        /\ Goto(p, "digests")
        /\ UNCHANGED outcome
  /\ UNCHANGED <<lockFile, root, backup, call, work, removed, exam, history>>
  /\ Observe

\* The walk reads one path after the other; a difference found on any of
\* them makes the result degraded.
DoctorDigest(p) ==
  /\ pc[p] = "digests"
  /\ \/ \E f \in pending[p] :
          \/ /\ SameDigest(root, f, want[p])
             /\ pending' = [pending EXCEPT ![p] = @ \ {f}]
             /\ UNCHANGED <<pc, outcome>>
          \/ /\ ~SameDigest(root, f, want[p])
             /\ Conclude(p, "degraded", "returned")
             /\ UNCHANGED pending
     \/ /\ pending[p] = {}
        /\ Conclude(p, "ok", "returned")
        /\ UNCHANGED pending
  /\ UNCHANGED <<lockFile, root, backup, call, work, removed, want, history>>
  /\ Observe

-----------------------------------------------------------------------------
(* The environment.                                                        *)

\* The process is killed: what is on disk stays, and nothing cleans it up.
Crash(p) ==
  /\ "crash" \in Faults
  /\ pc[p] # "idle"
  /\ Forget(p)
  /\ lockFile' = IF lockFile = p THEN Stale ELSE lockFile
  /\ UNCHANGED <<root, backup>>
  /\ Observe

\* External: the lock file holds a process id that no code reads back; an
\* operator removes the file when that process no longer runs.
ClearStaleLock ==
  /\ lockFile = Stale
  /\ lockFile' = Free
  /\ UNCHANGED <<root, backup, pc, call, work, removed, exam, outcome, history>>
  /\ Observe

\* External: an installed file is overwritten.
Tamper ==
  /\ "tamper" \in Faults
  /\ Managed(root)
  /\ \E f \in Payload :
       /\ root.files[f] # None
       /\ root' = [root EXCEPT !.files[f] = Altered]
  /\ UNCHANGED <<lockFile, backup, pc, call, work, removed, exam, outcome, history>>
  /\ Observe

\* External: someone makes a directory under the bundle's name.
Squat ==
  /\ "squat" \in Faults
  /\ root = Absent
  /\ root' \in ForeignTrees
  /\ UNCHANGED <<lockFile, backup, pc, call, work, removed, exam, outcome, history>>
  /\ Observe

-----------------------------------------------------------------------------
\* What a running call does when the scheduler lets it.
Step(p) ==
  \/ StatBeforeReinstall(p) \/ Reject(p) \/ AcquireBundleLock(p)
  \/ ValidateExistingRoot(p) \/ FetchPinnedObjects(p) \/ ExtractToStage(p)
  \/ WriteManifest(p) \/ ClearBackup(p) \/ StatRoot(p) \/ SetAside(p)
  \/ SwapIn(p) \/ RollBack(p) \/ DropBackup(p) \/ RemoveStage(p)
  \/ InspectRoot(p) \/ RemoveAll(p)
  \/ DoctorManifest(p) \/ DoctorCommand(p) \/ DoctorDigest(p)
  \/ ReleaseBundleLock(p) \/ Return(p)

Next ==
  \/ \E p \in Procs : Start(p) \/ Step(p) \/ Crash(p)
  \/ ClearStaleLock \/ Tamper \/ Squat

Spec == Init /\ [][Next]_vars

-----------------------------------------------------------------------------
(* Properties.                                                             *)

\* Types of the state.
TypeOK ==
  /\ lockFile \in Procs \cup {Free, Stale}
  /\ root \in Dirs /\ backup \in Dirs
  /\ pc \in [Procs -> Labels]
  /\ op \in [Procs -> Ops]
  /\ pin \in [Procs -> Pins \cup {None}]
  /\ object \in [Procs -> Objects]
  /\ stage \in [Procs -> Dirs]
  /\ hadExisting \in [Procs -> BOOLEAN]
  /\ removed \in [Procs -> BOOLEAN]
  /\ want \in [Procs -> Files]
  /\ pending \in [Procs -> SUBSET Payload]
  /\ outcome \in [Procs -> Outcomes]
  /\ prior \in [Procs -> Manifests]
  /\ swapped \in [Procs -> BOOLEAN]
  /\ sawIntact \in [Procs -> BOOLEAN]

\* Where a call relies on holding the bundle lock.
Exclusive == {"validate", "fetch", "extract", "manifest", "clearBackup",
              "statRoot", "setAside", "swapIn", "rollback", "dropBackup",
              "removeStage", "unlock", "inspect", "removing"}
InExclusive(p) == pc[p] \in Exclusive

\* Two calls are never both between taking and releasing the bundle lock, and
\* the lock file on disk is the one the call between them made: an unlock, a
\* failed call's unlock, or a cleared stale lock never frees another's lock.
MutualExclusion ==
  /\ \A p \in Procs : InExclusive(p) => lockFile = p
  /\ \A p, q \in Procs : InExclusive(p) /\ InExclusive(q) => p = q

\* Wherever a manifest of this bundle stands, the digests it records are
\* those of the artifact its descriptor pins: no failed fetch, extraction,
\* interrupted promotion or removal ever pairs a manifest with other bytes.
ManifestsRecordVerifiedBytes ==
  \A dir \in {root, backup} :
    Managed(dir) => ManifestOf(dir) = Receipt(dir.manifest.pin)

\* Doctor, which takes no lock, says "ok" only if at some instant since it
\* began the root was the whole install its catalog pins, or another version
\* was installed after it read the manifest: the files the two versions have
\* in common may then pass, whatever they replaced.
DoctorOkIsWarranted == \A p \in Procs : outcome[p] = "ok" => sawIntact[p]

\* The labels of an Install that has validated a root, up to its unlock.
Replacing(p) ==
  /\ pc[p] \in {"fetch", "extract", "manifest", "clearBackup", "statRoot",
                "setAside", "swapIn", "rollback", "dropBackup", "removeStage",
                "unlock"}
  /\ op[p] # "uninstall"
  /\ prior[p] \in Receipts

\* While a replacement runs, and so wherever it may be killed, the install it
\* replaces is at the root or in its backup, unless the new one is at the root.
PriorCopySurvives ==
  \A p \in Procs : Replacing(p) =>
    \/ ManifestOf(root) = prior[p]
    \/ ManifestOf(backup) = prior[p]
    \/ outcome[p] # "error" /\ ManifestOf(root) = Receipt(pin[p])

\* The README's promise for reinstall: the old install leaves the root only
\* when its replacement is completely staged.
OldInstallLeavesOnlyForStaged ==
  [][\A p \in Procs :
       Replacing(p) /\ lockFile = p /\ ManifestOf(root) = prior[p] /\ root' = Absent
         => stage[p] = Whole(pin[p])]_vars

\* A copy of the bundle that a later call would find and replace or remove.
HasCopy == Managed(root) \/ Managed(backup)

\* managedRuntimePromoteStage, over all calls and kills: the last copy goes only
\* at the hands of an uninstaller, or of an install that has its replacement
\* completely staged; a copy that a killed promotion left under .previous is
\* not given up before.
LastCopyYieldsToStaged ==
  [][HasCopy /\ ~HasCopy' =>
       \E p \in Procs : \/ pc[p] = "removing"
                        \/ pc[p] = "clearBackup" /\ stage[p] = Whole(pin[p])]_vars

\* A replacement that fails leaves the install it found at the root, unless
\* the rename back failed as well.
FailedInstallKeepsPrior ==
  \A p \in Procs :
    pc[p] = "unlock" /\ outcome[p] = "error" /\ Replacing(p)
      => ManifestOf(root) = prior[p]

Usable(dir) == dir = Absent \/ Managed(dir)

\* A step of the call itself fails because this environment may make it fail.
\* A .previous fails the rename onto it only if it could not be removed.
OwnFault(p) ==
  \/ pc[p] \in {"lock", "doctor"} /\ "reject" \in Faults
  \/ pc[p] = "fetch" /\ "source" \in Faults
  \/ pc[p] \in {"extract", "manifest"} /\ "stage" \in Faults
  \/ pc[p] \in {"statRoot", "swapIn"} /\ "rename" \in Faults
  \/ pc[p] = "setAside" /\ (IF backup = Absent THEN "rename" ELSE "removal") \in Faults

\* A step at which call p fails, and why.
FailsForCause(p) ==
  op[p] \in {"install", "reinstall"} /\ outcome[p] = "none" /\ outcome'[p] = "error" =>
    \/ pc[p] = "lock" /\ lockFile # Free
    \/ pc[p] \in {"validate", "swapIn", "doctor"} /\ ~Usable(root)
    \/ pc[p] = "extract" /\ Unpack(object[p])[Command] = None
    \/ OwnFault(p)

\* Install and Reinstall, over all calls and kills: a call fails only because
\* - the lock file exists: another call runs, or a killed one has left the file
\*   and nobody has removed it;
\* - the root is neither absent nor managed: someone made it, perhaps while the
\*   call ran, or a killed Uninstall has left it without its manifest;
\* - the artifact does not ship the command; or a step of its own has failed.
\* A .previous or a stage that earlier calls left, killed wherever, never fails
\* a later call by itself.
InstallFailsForCause == [][\A p \in Procs : FailsForCause(p)]_vars

\* A root that is absent or managed stays so except at the hands of an
\* uninstaller: no step of an install, failed or killed, makes a root
\* without a manifest, which no later call would replace or remove.
OnlyUninstallOrphansRoot ==
  [][Usable(root) /\ ~Usable(root') => \E p \in Procs : pc[p] = "removing"]_vars

\* What the installer did not make is never moved, changed or removed.
ForeignRootUntouched == [][Foreign(root) => root' = root]_vars

\* A Reinstall that succeeds reports Removed exactly when its promotion moved
\* a prior install aside.
ReinstallReportsReplacement ==
  \A p \in Procs :
    pc[p] = "returned" /\ op[p] = "reinstall" /\ outcome[p] \in {"ok", "missing", "degraded"}
      => removed[p] = swapped[p]

-----------------------------------------------------------------------------
(* Liveness.  A process that is in a call is scheduled until it returns.   *)

Fairness == \A p \in Procs : WF_vars(Step(p))

FairSpec == Spec /\ Fairness

\* Install, Uninstall and the Install that Reinstall makes: whichever of their
\* returns they take, they get to the unlock, and a call that runs does not hold
\* the lock for ever.  The file stays behind, stale, only where its removal
\* fails, or the process is killed; then nothing but an operator removes it,
\* of whom nothing is assumed.
LockIsReleased == lockFile \in Procs ~> lockFile \notin Procs
=============================================================================
