# Verification of workflow-plugin-compute-container

TLA+ models of the parts of this plugin that keep state on a host: the installer of
managed runtime bundles, the sandbox runtime that runs containers, the adapters and the
probe that call it, and the capture of a process's output. TLC checks small instances;
TLAPS proves the safety properties for every value of the constants, and that the
installer, the sandbox runtime, the probe and the capture each implement an abstract
specification of what they promise. Paths below are relative to the repository; `file.go:123` without a directory
is in `container/`.

Contents: [1. The system](#1-the-system), [2. Modules](#2-modules-and-the-code-they-model),
[3. Runs](#3-what-the-runs-check), [4. Fairness](#4-fairness),
[5. Proofs](#5-what-is-proved), [6. Disagreements found](#6-disagreements-between-code-and-its-tests),
[7. Not modelled](#7-what-is-not-modelled-and-why), [8. What is left](#8-what-is-left).

## 1. The system

An agent process uses the plugin as a library: it installs a runtime (nerdctl and
containerd) from a signed bundle, probes the container engines it finds, and then runs
commands and container builds in containers.

```
 command line ──> installer ──> lock file, bundle root, backup   (file system)
                     │ verified bundle
                     v
                  runtime probe ──┐
 command adapter ──┐              ├──> owned container cleanup ──> engine (CLI)
 build adapter   ──┴─> Run ───────┘
                        │   └────────> workspace modes, env file  (host)
                        └──> runBoundedProcess ──> pipes of the CLI process
```

### Inventory

| component | state it keeps | operations | what is hard | what makes it correct |
|---|---|---|---|---|
| managed runtime installer (`managed_runtime_installer.go`) | on disk: lock file, bundle root with its install manifest, `.previous` directory, private staging directories | Install, Doctor, Uninstall, Reinstall | several processes; a kill between any two system calls; failing renames and removals; Doctor reads without the lock | the lock excludes; a manifest records only verified bytes; no step loses the old install; Doctor's `ok` was true at some instant; the lock is given back |
| bundle object verification (same file) | none | digest, checksum and signature checks of fetched objects | a source that answers with other bytes | only the pinned artifact's own bytes pass |
| archive extraction (same file) | the staging directory | extract entries under path rules | a failure part way; entry order and symlinks | a failed extraction is never promoted |
| bundle catalog policy (`managed_runtime_bundle.go`) | none | `Bundle`, `BundleForTarget`, `semverLess` | version parts that are not numbers | the version order is an order |
| managed-runtime command line (`internal/managed_runtime_cli.go`) | none | flags to one installer call to an exit status | - | maps each result to one status |
| sandbox runtime (`docker_compatible_runtime.go`) | per call: recorded workspace modes, env file, deadline; in the engine: one container | `Run`, `prepareRunContext` | the deadline passes anywhere; the CLI is killed while the engine goes on; calls that share a workspace | no container is left unreported; a late call fails; the task's exit code is kept; the host is put back |
| owned container cleanup (`sandbox_ownership.go`) | the owner token of the call, in memory | `removeOwnedSandbox`: inspect by name, compare the label, remove by id | the name is reused between inspection and removal; late creation | it removes the caller's container and no other |
| process output capture (`process_output.go`) | two rolling tails, byte counts, two goroutines, a timer | `runBoundedProcess`, `boundRunnerOutput` | two drains, timer, deadline and an inherited stream in any order; sharing one limit | a capture called complete is complete; what is kept is the end of each stream; writers never block; the call returns |
| read-only workspace policy (`readonly_workspace.go`) | none | `ValidateReadOnlyPolicy` before anything is touched | the walk over a tree others write | a refused request touches nothing |
| command and build adapters (`adapters.go`) | none; a deadline around `Available` and `Run` | `RunSandboxedCommand`, `BuildSandboxedContainer` | two deadlines looked at at different times; a workspace that tasks of other calls write to; a digest file of an earlier build | a late failure is called a limit; what is hashed is what the task left; a digest is accounted for; a success has no task beside it |
| artifact hashing and path resolution (`adapters.go`) | none | `hashArtifacts`, `resolveInside`, `ResolveContainerBuildPaths` | a path that changes between check and open | nothing outside the workspace is hashed |
| runtime backend probe (`runtime_probe.go`) | the mode of the conformance workspace, one container | `Probe` | probes that share a configured workspace; a conformance run that is late; a tool that is replaced between its two uses | `supported` only after a conformance run in time with the reported version; no container is left; the mode comes back; it always reports |
| adapter and backend catalogs (`adapters.go`) | none | `Validate`, `Contract` | - | field rules |
| podman scope ownership (`podman_scope_owner_*.go`) | none | one comparison of owners | - | the scope belongs to the user |
| manifest and entry point (`internal/plugin.go`, `cmd/`) | none | constant metadata | - | - |
| packaging script (`scripts/`) | none | repacks a release | - | - |

`PROJECT.json` lists the same components with their status. The hazards it lists name,
for each behaviour that is hard to test, the line where it bites and the properties
that would notice; a hazard without a property says why.

### How the parts interact

* Processes that share an install root meet only through the file system. The lock file is
  created with `O_EXCL` and removed at the end of the call; nothing reads the process id in it.
* `Run` talks to the engine through a CLI process. `runBoundedProcess` runs the process
  and reports its exit status with one of three captures: whole, over the limit, or
  incomplete. `Run` believes an exit status of zero only with a whole capture and a live
  context; in every other case it calls `removeOwnedSandbox`, which starts two more CLI
  processes through the same `runBoundedProcess`.
* The adapters call `Available` and then `Run`, once each, under a context of their own from
  which `Run` derives its own. All that they learn of the container is `Run`'s error; then they
  read the workspace, which other calls may be using.
* The probe does not go through `Run`: it starts its conformance container with
  `runBoundedProcess` and cleans up with `removeOwnedSandbox`, under a second deadline.
* `Install` replaces the tool that a probe is looking at, without either knowing.

## 2. Modules and the code they model

| module | models | extends or instantiates |
|---|---|---|
| `ManagedRuntimeInstaller` | installer, verification, extraction: `managed_runtime_installer.go` | FiniteSets |
| `ManagedRuntimeStore` | abstract: what the installer promises | |
| `ManagedRuntimeRefinement` | the refinement mapping, `ImplementsStore` | ManagedRuntimeInstaller; Store == INSTANCE ManagedRuntimeStore |
| `SandboxRun` | `Run`, `prepareRunContext`, `removeOwnedSandbox`, and the engine around them: `docker_compatible_runtime.go`, `sandbox_ownership.go`, parts of `process_output.go`, `readonly_workspace.go`, `adapters.go` | Integers |
| `SandboxPromise` | abstract: what one call of `Run` promises its caller | |
| `SandboxRefinement` | the refinement mapping, `KeepsPromise` | SandboxRun; Promise == INSTANCE SandboxPromise |
| `SandboxAdapters` | `RunSandboxedCommand`, `BuildSandboxedContainer`, hashing, digest: `adapters.go` | Integers; Runtime == INSTANCE SandboxPromise |
| `RuntimeBackendProbe` | `Probe`: `runtime_probe.go` | |
| `ProbeRefinement` | the refinement mapping, `ProbeKeepsPromise` | RuntimeBackendProbe; Promise == INSTANCE SandboxPromise |
| `ProcessCapture` | `runBoundedProcess`, the capture, `boundRunnerOutput`, and the process around them: `process_output.go` | Integers, Sequences |
| `BoundedCapture` | abstract: what a capture under a limit promises | Integers |
| `CaptureRefinement` | the refinement mapping, `ImplementsCapture` | ProcessCapture; Promise == INSTANCE BoundedCapture |
| `MC...` | instances for TLC of the module of that name | that module, TLC |
| `...Proofs` | theorems, section 5 | the modules they are about, TLAPS |

How they compose. `SandboxPromise` stands between three modules: `SandboxRefinement` shows
that `SandboxRun` implements it, and `SandboxAdapters` uses its actions as the only
thing it knows of the runtime. So what holds of the adapters there holds above the
`Run` of this repository, and would hold above any other runtime with that promise.
`ProbeRefinement` shows that a probe, which does not go through `Run` but writes the same
sequence out once more, implements the same promise.

```
 SandboxAdapters ──uses──> SandboxPromise <──implements── SandboxRun ──────────┐
                                 ^                                             ├─ take as given ─> ProcessCapture
                                 └──implements── RuntimeBackendProbe ──────────┘                        │
                                                                     BoundedCapture <──implements───────┘
 ManagedRuntimeStore <──implements── ManagedRuntimeInstaller
```

`PROJECT.json` maps every definition to its lines. Definitions whose comment says
"Mutant of X" are what the code does not do: X with a plausible mistake. They stand
before X so that replacing the body of X by the mutant shows that a property
notices. No specification uses them.

### ManagedRuntimeInstaller

Each process in `Procs` makes one call at a time (`op`, `pin`), and `pc` is where it is. An
action is one step that another process, a crash or a failure can come before or after:
a rename, a stat, a removal, the creation or removal of the lock file. Steps that
touch only the call's own staging directory are one action per phase.

| code | model |
|---|---|
| `managedRuntimeAcquireBundleLock` (645) and its unlock | `AcquireBundleLock`, `ReleaseBundleLock`; `lockFile` is `Free`, the process that made the file, or `Stale` when its maker no longer runs |
| `Install` (183) | `ValidateExistingRoot`, `FetchPinnedObjects`, `ExtractToStage`, `WriteManifest`, promotion, `RemoveStage` |
| `managedRuntimePromoteStage` (665) | `ClearBackup`, `StatRoot`, `SetAside`, `SwapIn`, `RollBack`, `DropBackup`: one action per system call |
| `Uninstall` (363) | `InspectRoot`, then `RemoveAll`, one file at a time |
| `Doctor` (289) | `DoctorManifest`, `DoctorCommand`, `DoctorDigest` one path at a time, without the lock |
| `Reinstall` (399) | `StatBeforeReinstall`, then Install's actions, then Doctor's |

A directory is its manifest and the content of each path. Content is abstracted to
one of the `Bytes` that some version ships, `Altered` (bytes nobody pins), `Theirs` (a directory
another program made) or nothing; a digest of content is the content, which is what a
collision-free digest tells. `Faults` says which failures the environment may cause in
an instance: rejected calls, bad downloads, failed staging, renames, roll-backs and
removals (`removal` of `.previous` and of the lock file, `uninstall` of the root), killed processes,
overwritten files, foreign directories.

`Build` says which bytes each version ships under each path; two versions may share a
file, so a path may be unchanged by an upgrade and a walk over paths may see both
versions without noticing.

`prior`, `swapped` and `sawIntact` are history variables: no guard reads them.

`ManagedRuntimeStore` has none of lock, stage, backup and renames: one store that is empty,
holds something else, or holds a version that is sound or not; a call is invoked, takes
effect at one instant or not at all, and answers truthfully. A removal is the only operation
that takes time. `ok` may be answered only by a call that was a witness: its version
was whole in the store at some instant of the call, or a replacement happened
during it, when a walk without the lock may mix two versions. The mapping reads the copy that
a promotion has set aside as the install (`Visible`), so the two renames look like one step; `Lossy` is whether the
instance has kills or failing roll-backs, the only ways to lose what is replaced.

### SandboxRun

Each call in `Runs` stands for its own container name, owner label and container id,
the first two of which are fresh random values in the code (64 and 128 bits). `Strangers` are containers of
other programs, which may take a name when it is free.

| code | model |
|---|---|
| `Run` 68-82, `prepareRunContext` | `Start`, `ValidatePolicy`, `RecordModes` and `WidenModes` (line 156), `BuildArguments`, `FinishSpec`; each refusal with or without the `cleanup()` the code calls there |
| `runBoundedProcess` as `Run` sees it | `LaunchCli`, `CliReturns`, `CliKilled` |
| `Run` 88-99 | `ReadContext`, `DecideCleanup`: the context is read twice and may expire between |
| `removeOwnedSandbox` | `InspectByName`, `RemoveById` |
| `Run` 108-126 and the deferred cleanup | `MeasureWorkspace`, `Return` |
| the deadline | `Expire`, possible before every step |
| the engine (external) | `EngineCreates`, `TaskExits`, `EngineRemoves`, `StrangerAppears`, which do not wait for the CLI |

`SandboxPromise` reduces a call to its stage, its deadline, its task (never started, alive,
over), how the task ended, and a verdict: `success` (the task is over, by itself, with
status zero, and the deadline was not seen), `failure` (the task is not alive and
cannot start any more) or `unclean` (nothing is known, and the error says so). The
mapping reads `failure` off a failed call without a clean-up error.

What `SandboxRun` takes as given about `runBoundedProcess` is what `ProcessCapture`
shows of it: the verdict is one of three; an expired context means `incomplete`
(`CliReturns`; `WaitReturns` in the other module), and the call returns once the context
is done whoever holds the streams (`Killable`; `EveryCaptureReturns`).

A path has a mode: `private` or `open` permission bits, or `special`, private with a setuid,
setgid or sticky bit. A workspace stands for any one of the entries that a walk of it visits; the
paths in `Outside` are what symbolic links in it lead to. As in the code, a mode is recorded
(`RecordModes`) and then widened (`WidenModes`), and the walk of another call can come between; only
permission bits are recorded (`PermOf`), so a special bit that was widened away does not
come back; and the walk of a tree, but not that of its directories, records each link with
the link's own bits (`LinksOf`), which `os.Chmod` later gives to its target (`WrittenBack`). A walk
that fails part way writes back what it has recorded so far. An argument list is abstracted to the group of
arguments that is refused (`Flaws`).

### ProcessCapture

A byte is its position in its stream, so the content of a tail shows which part of the
stream it is. `UpTo(last, n)` is the run of `n` positions that ends with `last`.

| code | model |
|---|---|
| the command and a process it leaves behind (external) | `Emits`, `ClosesStream`, `LeavesHeir`, `Ends`; a pipe holds `Capacity` bytes |
| `exec.CommandContext` | `Expire`, `Kill`, which ends the command and not its heir |
| start, line 128-161 | `StartCommand`, `StartFails` |
| the two `io.Copy` goroutines | `ReadsPipe` takes any part of what is there, `WritesCapture` hands it on, `EndsDrain` at end of file or when the pipe was closed |
| `processCaptureWriter.Write` (84) | `Kept` |
| `processCapture.result` (100) | `Share`, `Rebalanced` |
| `cmd.Wait`, the loop over drains and timer (162-180) | `WaitReturns`, `TakesDrain`, `TimerFires` |
| 181-189 | `Collect` |
| `boundRunnerOutput` (192) | `BoundRunnerOutput` with a second limit |

`WaitReturns` leaves open whether `exec` reports `ErrWaitDelay` when an heir is alive: in
the code that depends on the copy of standard input.

`BoundedCapture` has none of pipes, goroutines, timer, tails and the order of the two bounds.
Somebody writes to two streams for as long as he holds them. A call is started, waits for its
command, and answers once: `incomplete` and nothing more, or (`Complete`) sizes that together fill
the limit, none cut below its half, with the word `limit` exactly if more was written, at a moment
from which nobody can write any more. The mapping (`CaptureRefinement`) takes the smaller of the
two limits as the one limit, and a result as answered only when it has been bounded a second time.

### SandboxAdapters

| code | model |
|---|---|
| request, payload and path checks | `Validate`, which may refuse, and must refuse artifacts of a read-only workspace |
| `Available` under the adapter's deadline | `AskAvailable` |
| the call of `Run` and its return | `CallRun`, `RunReturns`: actions of `SandboxPromise` |
| lines 412 and 562 to 568: first the adapter's context, then `Run`'s error | `JudgeResult` with `Judgement` |
| `hashArtifacts`; `ReadSandboxedContainerBuildDigest` | `ReadFile`, a file at a time; a path may be refused, missing or replaced |
| the digest marker in the output | `TaskPrints`, `Announced` |
| accounting | `Account` |
| the two deadlines | `Expire` for both, `RunExpires` for a build whose limits are shorter |

All calls use one workspace, in which the tasks of all calls write (`TaskWrites`) for as long
as they live. A file is abstracted to the call whose task wrote it last and whether it
was finished.

### RuntimeBackendProbe

| code | model |
|---|---|
| bundle checks, `LookPath`, version run | `CheckBundle`, `LookPath`, `AskVersion` |
| `runtimeBackendConformanceWorkspace` and its restore closure | `MakeWorkspace` (configured: recorded, with all its bits; temporary: the probe's own), `WidenWorkspace`, `Restore` |
| name and owner token | `MakeOwner` |
| conformance run | `LaunchCli`, `CliReturns`, `CliKilled` |
| lines 334 to 350 | `DecideCleanup`, `Inspect`, `Remove`, `ReadEvidence` |
| the tool on disk, the engine (external) | `ReplaceTool`, `EngineAnswers`, `CommandExits`, `EngineRemoves` |

The report is its status and version. Seen as a call of the promise (`ProbeRefinement`), a
probe has returned once its run is judged: at `evidence` when there was no clean-up, since all that
the report will depend on is then known, and when the report is written otherwise. A
`supported` report is the verdict `success`, any other `failure`, or `unclean` if the removal
failed. A bundle's version is the pinned one: the code
does not compare it with what the command prints. Inspection among the containers of other programs is
the subject of `SandboxRun`; a probe finds its own container or none.

## 3. What the runs check

Every run checks for deadlock as well; specifications in which everything may
come to rest have a `Quiet` step that says so (`ManagedRuntimeInstaller` never rests: the
next call can always start).

| run | instance | distinct states | shows |
|---|---|---|---|
| `installer_calls` | 2 processes, 2 versions that share one of 2 files; rejected calls, bad downloads, failed staging and renames, overwritten files | 760 thousand | `TypeOK`; `MutualExclusion`; `ManifestsRecordVerifiedBytes`; `DoctorOkIsWarranted`, though Doctor reads without the lock while a process swaps the root; `FailedInstallKeepsPrior`; `ForeignRootUntouched`; the installer implements the store |
| `installer_crash` | 2 processes, 2 versions, 1 file; kills, failed renames, roll-backs, removals and uninstalls; examinations not followed (`NobodyExamines`) | 365 thousand | `PriorCopySurvives`, `OldInstallLeavesOnlyForStaged`, `OnlyUninstallOrphansRoot`, `LastCopyYieldsToStaged`; the installer implements the lossy store |
| `installer_recovery` | 2 processes, 2 versions, one without the command, 1 file; kills, foreign directories, bad downloads, failed staging, renames, roll-backs and uninstalls; with fairness | 816 thousand | `InstallFailsForCause`, `LockIsReleased` |
| `installer_reinstall_report` | no faults | violation | finding, section 6 |
| `installer_foreign_root` | foreign directories appear | violation | finding, section 6 |
| `sandbox_call` | 1 call, 1 stranger, 1 workspace; with fairness | 6.9 thousand | `TypeOK`, `NoUnreportedContainer`, `TaskExitCodeSurvives`, `OnlyOwnerRemoves`, `LateCallFails`, `EveryRunReturns`; `Run` implements its promise (`KeepsPromise`) |
| `sandbox_overlap` | 2 calls, 1 workspace with a special bit and a link to 1 path outside, no stranger; one of them launches (`OneLaunches`) | 1.73 million | `HostRestored` |
| `sandbox_prepare_fails` | 1 call | violation | finding, section 6 |
| `capture` | streams of up to 3 bytes, pipes of 2, the limits 1 and 2 in every pair; with fairness | 196 thousand | `TypeOK`, `CompleteIsExact`, `ReturnsStreamEnds`, `NoLateBytes`, `WritersNeverBlock`, `EveryCaptureReturns`; the two bounds implement one (`ImplementsCapture`) |
| `adapter_calls` | 2 calls of every kind on one workspace with 1 file; one of them late, one printing (`OneIsLateOnePrints`) | 1.55 million | `TypeOK`, `HashedAsTaskLeft`, `DigestIsAccountedFor`, `LateRunNamesTheLimit`, `SuccessIsFinal` |
| `probe_report` | 1 probe, 2 versions of its tool; with fairness | 8.7 thousand | `TypeOK`, `SupportedIsEarned`, `LateProbeIsRefused`, `EveryProbeReports`; a probe implements the promise of `Run` (`ProbeKeepsPromise`) |
| `probe_overlap` | 2 probes, 1 version; one of them launches (`OneLaunches`) | 1.67 million | `WorkspaceRestored` |

Why the bounds are enough:

* Installer. The lock leaves at most one call in its exclusive part; the second process is
  the one that is refused, that reads without the lock, or that comes after a kill. Two
  versions are needed for a replacement to differ from what it replaces and for a
  manifest of one to meet files of the other. They ship different commands and the same
  library, so that a walk can compare a file that an upgrade leaves as it was. A process may call any
  number of times: nothing counts calls, and every instance is explored to the end. The faults are
  split over runs so that each is exhaustive; a property is checked under every fault it
  is claimed for. `installer_crash` uses one file, since its properties compare only
  manifests and which directory is where, and does not follow a call beyond the state in which its
  examination begins: Doctor takes no lock and writes nothing, so whatever is killed or fails
  during one could be killed or fail without it. `installer_calls` follows examinations.
  `installer_recovery` injects every failure from which a call that holds the lock can return, and its
  second version ships no command, so that all of those returns are taken. Left out are a refusal before the
  lock (`reject`), which holds none, and removals of `.previous` and of the lock file that fail (`removal`): they are
  not returns, their errors are ignored by the code, and without them a `.previous` that fails a rename
  could only be what a killed call left.
* Sandbox. A call meets others in two ways. It meets the containers of others through a
  name, for which one stranger that can take and hold the name is enough
  (`sandbox_call`); and it meets other calls through a workspace, for which two calls
  are (`sandbox_overlap`). There the constraint lets one of the two start its CLI, while the other
  fails to start its own: both then go through everything that touches the host, and the containers,
  which multiply the states, do not. The theorems cover any number of both, all of them launched.
* Adapters. A call meets one other call in the workspace: the other's task writes before, during
  or after its own. It learns nothing of the other's deadline or output, so the constraint lets one
  of them be late, and one (the same or the other) print a digest. One file is enough for a stale digest, a half-written file and a file
  that changes between the end of the task and the hash; that a command hashes
  several files, one after the other, with writes between, is covered by the theorems, which hold for
  any set of artifacts.
* Probes. A report concerns one probe, its tool and its engine, so one probe with two
  versions of the tool is enough (`probe_report`); the workspace is all that two probes share
  (`probe_overlap`, with the constraint of `sandbox_overlap`).
* Capture. `Supply` bounds what is written. The limits 1 and 2, in
  every pair, are both below what one stream can hold, and one is odd, so that the half of a limit is
  rounded; streams of 0 to 3 bytes are then both over their half, one under it
  in each order, or together under the limit, and either limit is the smaller one.
  A pipe of two bytes lets a read take all or part of it. The theorems cover all limits,
  supplies and capacities.

A constraint cuts the state graph where it says and nowhere else: the properties are still checked
in the first states beyond it. No run with a constraint checks a liveness property.

Symmetry is used where a run checks no liveness property, over processes, calls and probes,
which no action or property names. The versions are not symmetric (they ship different files).

## 4. Fairness

* `ManagedRuntimeInstaller`: weak fairness of each process's `Step`: a process that is in a
  call and was not killed is scheduled, and its system calls return. `Start` and `Crash`
  are not fair, and neither is `ClearStaleLock`, an operator who removes the lock file of a process that no
  longer runs: the code has no such step, and without it a killed process locks the bundle for ever.
  `LockIsReleased` is therefore about calls that run (`lockFile \in Procs`): no return forgets the unlock.
  That a stale lock file goes away is neither claimed nor assumed; `InstallFailsForCause` names it among the
  reasons for which an install fails.
* `SandboxRun`: weak fairness of `Step`, the goroutine's own steps, each of which is
  local or bounded by a timer, and of `Expire`: every call has a deadline
  (`docker_compatible_runtime.go:69`). Nothing is assumed of the CLI (`CliReturns` is not
  in `Step`) or of the engine.
* `RuntimeBackendProbe`: weak fairness of the probe's own `Step`, each of which is bounded by
  local work or by a deadline (ten seconds for the clean-up), and of `Expire`. Nothing is assumed
  of the CLI's end, the engine or the conformance command.
* `SandboxAdapters` has none: that a call of `Run` returns is shown of `SandboxRun`, and the
  steps after it read a finite list of files.
* `ProcessCapture`: weak fairness of the calling goroutine, of the two drains, of the
  drain timer and of the kill once the context is done. Neither the command nor its heir
  need ever end, write or close anything, and the context need not expire:
  `EveryCaptureReturns` starts from an expired context or an ended command.

## 5. What is proved

TLAPS checks all proofs. The assumptions are the named `ASSUME`s on constants:
`ConstantsAssumption` (the special values differ from each other and from versions,
receipts and processes; `Command` is a path), `RunsAssumption` (calls and strangers are
apart, `None` is none of them and no path, links lead to paths), `CaptureAssumption` (limits and the capacity are
positive, the supply is a natural number), `ArtifactsAssumption` (artifacts are numbered)
and `VersionsAssumption` (the pinned version is one, `None` is none). TLC evaluates them in
the runs. Hypotheses of single theorems are in the table.

| module | theorem | statement | hypotheses |
|---|---|---|---|
| ManagedRuntimeInstallerProofs | `TypeCorrectness` | `Spec => []TypeOK` | |
| | `VerifiedBytes` | `Spec => []ManifestsRecordVerifiedBytes` | |
| | `LockExcludes` | `Spec => []MutualExclusion` | |
| | `CopySurvives` | `Spec => []PriorCopySurvives` | |
| | `StagedBeforeRemoved` | `Spec => OldInstallLeavesOnlyForStaged` | |
| | `LastCopyYields` | `Spec => LastCopyYieldsToStaged` | |
| ManagedRuntimeDoctorProofs | `DoctorIsBelievable` | `Spec => []DoctorOkIsWarranted` | |
| ManagedRuntimeRefinementProofs | `InstallerImplementsStore` | `Spec => ImplementsStore` | no foreign directory appears (`squat`) |
| ManagedRuntimeOutcomeProofs | `OrphansOnlyByUninstall` | `Spec => OnlyUninstallOrphansRoot` | no `squat` |
| | `ForeignStays` | `Spec => ForeignRootUntouched` | no `squat` |
| | `FailureKeepsPrior` | `Spec => []FailedInstallKeepsPrior` | no `squat`, no failing `rollback` |
| | `FailuresHaveACause` | `Spec => InstallFailsForCause` | |
| | `SoloReinstallReports` | `Spec => []ReinstallReportsReplacement` | no `squat`, one process |
| SandboxRunProofs | `TypeCorrectness` | `Spec => []TypeOK` | |
| | `NoContainerLeft` | `Spec => []NoUnreportedContainer` | |
| | `RemovesOnlyItsOwn` | `Spec => OnlyOwnerRemoves` | |
| | `HostIsRestored` | `Spec => []HostRestored` | |
| | `RefusalsRestore` | `Spec => []RefusalRestores` | |
| | `ExitCodeSurvives` | `Spec => []TaskExitCodeSurvives` | |
| | `LateCallsFail` | `Spec => LateCallFails` | |
| | `RunKeepsPromise` | `Spec => KeepsPromise` | |
| SandboxAdaptersProofs | `TypeCorrectness` | `Spec => []TypeOK` | |
| | `ArtifactsAreTheTasks` | `Spec => []HashedAsTaskLeft` | |
| | `DigestsAreAccountedFor` | `Spec => []DigestIsAccountedFor` | |
| | `LateRunsNameTheLimit` | `Spec => []LateRunNamesTheLimit` | |
| | `SuccessStays` | `Spec => SuccessIsFinal` | |
| RuntimeBackendProbeProofs | `TypeCorrectness` | `Spec => []TypeOK` | |
| | `SupportIsEarned` | `Spec => []SupportedIsEarned` | |
| | `NoContainerLeft` | `Spec => []ProbeLeavesNoContainer` | |
| | `LateProbesAreRefused` | `Spec => LateProbeIsRefused` | |
| | `WorkspaceComesBack` | `Spec => []WorkspaceRestored` | |
| | `ProbeImplementsPromise` | `Spec => ProbeKeepsPromise` | |
| ProcessCaptureProofs | `TypeCorrectness` | `Spec => []TypeOK` | |
| | `CompleteCapturesAreExact` | `Spec => []CompleteIsExact` | |
| | `StreamEndsAreReturned` | `Spec => []ReturnsStreamEnds` | |
| | `CutsAreReported` | `Spec => []CutIsReported` | |
| | `CaptureIsSealed` | `Spec => NoLateBytes` | |
| | `LimitIsShared` | `Spec => []SharesTheLimit` | |
| | `CaptureImplementsPromise` | `Spec => ImplementsCapture` | |

The theorems without a hypothesis hold for every `Faults`, so for all faults at once, and for
any number of processes, calls, probes, versions and files. The hypotheses that remain are
needed: section 6 shows what `squat` breaks and what a second process does to the report of a
Reinstall, and a rename back that fails loses what a failed install should have kept. Four theorems
are about properties no run lists. `ProbeLeavesNoContainer`, `SharesTheLimit` and `CutIsReported` say
part of what the refinements `ProbeKeepsPromise` and `ImplementsCapture` say, and the runs check
those. `RefusalRestores` says of `RestoredWhenPrepareFails`, which the code violates, in which case alone
it does.

**Installer.** `StagingInv` says what a call holds in its hands at each step: at `extract`
the fetched object is the pinned one, at `manifest` the stage has exactly its files, and
from then to the swap the whole install. `TypeOK` alone is not inductive, because a call
with no descriptor would write a manifest that is none; with `StagingInv` it is, and so
is `ManifestsRecordVerifiedBytes`. `MutualExclusion` is stated with its own
strengthening: who is in the exclusive part is the process named in the lock file.
`SwapInv` has, for each step of a replacement, where the old install is: at the root until
`SetAside`, in the backup until `SwapIn` or `RollBack`, and afterwards in one of them
unless the new install is at the root. The other processes cannot disturb it because
they are outside the exclusive part (`SwapFrame`). `AllInv` joins the four.
`PriorCopySurvives` is about one replacement and what it found at the root. `LastCopyYieldsToStaged`
follows the copies over many calls: after a kill between the renames the only copy is under
`.previous`, the next install finds no root, so nothing is its prior, and `SwapInv` says nothing of
that copy. Its proof takes each of the steps that move a directory: from `StagingInv`, the step that
clears `.previous` has the whole replacement in its stage; from `SwapInv`, the step that drops it
finds the new install at the root.

**Doctor.** Doctor holds no lock, so no invariant can say that what it has compared is
still there. `DoctorInv` says instead that a walk which has not seen the version intact still has
before it a file that is wrong, in the root and in the copy that a promotion may put back
(`WillBeFound`). The file stays wrong wherever the install is moved, and a swap that would mend it makes the
call a witness. It needs that no install is at the root between the two renames
(`RootIsClear`) and that an install has no file where its version ships none
(`NothingExtraInv`).

**The store.** `MapInv` adds to these which calls reach which steps and with which outcome
(`CourseInv`) and what a promotion finds at the root (`PromotionInv`). One lemma for each kind of step
shows that it maps to a step of `ManagedRuntimeStore` or to a stutter. The outcome
theorems are corollaries in kind: with `MapInv`, each needs one more invariant about
one call (`OursInv`, `KeptInv`, `ClearedInv`). `FailuresHaveACause` needs only `AllInv`, `RootIsClear` and
`ClearedInv`: a promotion that finds something under `.previous` is one whose removal of it may fail, and what it
renames aside is there, so that neither rename fails for what an earlier call left. It therefore needs no
hypothesis: kills, failing steps and foreign directories are named as causes in the property. `SoloReinstallReports` needs `AllInv` and `SoloInv`: when
nobody else runs, what the first Lstat found stays at the root until the call's own promotion.

**Sandbox.** `SettledInv` says what each step knows of the call's container: a container
exists only in answer to the call's own request; a target that inspection gave is the
call's own and was created; after a removal without error and after a status of zero it
is gone; and a call that skips cleanup has a status of zero. `HostInv` says of each
path that is open, or that an active call has recorded as open, either that a call which still holds it
found it private (`First`) or that something excuses it (`Excused`: an unsupported network, a link in a widened
tree, or private modes written back while another call had recorded its own); this is
`Accounted`. The second half is what makes it inductive: a call that recorded widened modes leaves them behind only
if the one that widened them wrote back before it. `Recorded` says at which steps a call has recorded
anything. `FollowedInv` adds that the status
in a reply is that of the task, from which the exit code and the verdict of the promise follow. `LateCallFails`
and `LateProbeIsRefused` are about all later states; their proofs name what a late call cannot lose (`Lost`,
`Barred`) and show that every step keeps it. `RefusalsRestore` is `HostInv` seen
from a refused call, for a workspace that no link leads to.

**Adapters.** `AdapterInv` says of each call how far its call of `Run` is (`Course`), what
its deadline, its verdict and its answer say of each other (`Judged`), and that as long as
nobody disturbed it the workspace is what its task left (`Held`), so that what was read at different
times fits together. That the next file to read exists follows from the
library's theorem that the order of the natural numbers is well-founded (`LeastFile`).

**Probe.** `Cleaned` says what a probe knows of its container, `Founded` what its report
stands on. `Shared` says of the shared workspace that, unless a private mode was written
back while another probe had it open, it is open, or recorded as open, only while a probe has it that
recorded it private and widened it (`Widened`). `ProbeImplementsPromise` has one
lemma for each kind of step: the return of the promise is `DecideCleanup` when nothing is to be
cleaned up, `ReadEvidence` after a clean-up, and the step that refuses a probe before its run.
That a verdict given there is true (`VerdictTrue`) follows from `Cleaned` and `Founded`.

**Capture.** `CaptureInv` has six parts: the types of the control state; written bytes are at
least those read and those counted (`Counted`); each tail is the end of what was counted
(`TailsAreEnds`), by the lemmas on runs of positions (`EndOfUpTo`, `JoinUpTo`, `KeptIsEnd`,
`RebalancedIsEnd`, `ShareFits`); a drain that ended at end of file has counted all that
can ever be written (`DrainsSealed`); a verdict that is still `complete` means that all
received drains ended so (`Received`); and what a result says (`Reported`). The types of
the tails follow from `CaptureInv`, not the other way round: a tail is a gapless run only
because of what was counted. `FairSoFar` adds that the sizes of a result are a fair share under the
limits it has passed: the limit together, and of each stream all there is or half of the
limit. `ShareOfFair` is the arithmetic: a fair share of sizes that are fair under one
limit is fair under the smaller of the two, so bounding a result again costs nothing more than the
smaller limit. `CaptureImplementsPromise` joins all of these (`PromiseInv`) with `Honest`, which says
that a result between the two bounds has the kind its counts have under the first limit
(`KindUnder`) and was not doubted, so that after the second bound, which sees cut bytes and
the original counts, it is called `limit` exactly if more was written than the smaller limit. The last step of a call is then the abstract
`Return`, the drains and the first bound are stutters, and a timer that fires is a `Doubt`.

**Only model-checked.** Liveness (`LockIsReleased`, `EveryRunReturns`,
`EveryCaptureReturns`, `WritersNeverBlock`, `EveryProbeReports`) is outside what TLAPS can
prove here. Every invariant, action property and refinement of a passing run has a theorem.

## 6. Disagreements between code and its tests

Each of these runs must end in a counterexample.

* `installer_reinstall_report`: `Reinstall` stats the root before it holds the lock
  (`managed_runtime_installer.go:405`) and reports that as "a prior install was
  replaced". Another process that installs or uninstalls in between makes the report the opposite
  of what happened. The test that a second reinstall reports `true`
  (`managed_runtime_installer_test.go:506`) has one process only.
* `installer_foreign_root`: `Install` looks for an install manifest once (line 201), downloads,
  and then moves aside and deletes whatever is at the root (lines 671 and 684). A
  directory that someone made there meanwhile is deleted, although
  `managed_runtime_installer_test.go:573` says that an unmanaged directory survives.
* `sandbox_prepare_fails`: `prepareRunContext` widens the workspace's modes (lines 156 to
  168) and refuses an unsupported network at line 171 without the `cleanup()` that all later
  refusals call; the widened modes stay.
  `TestNerdctlSandboxRuntimeRestoresWorkspaceWhenPrepareFails`
  (`docker_compatible_runtime_test.go:450`) expects them restored after a failed
  preparation. `HostRestored` excludes this case, so that it says what does hold.

`HostRestored` has two more exceptions, for which the repository promises nothing. A workspace is
excepted when a call has written private modes back while another had recorded its own: if the
other recorded the widened modes, it brings them back. Calls that overlap in any other order
restore it, which is what the run shows. And the target of a symbolic link is excepted once a
walk has recorded the link. `WorkspaceRestored` has the first of these exceptions, for probes.

## 7. What is not modelled, and why

* The OpenPGP and HTTP libraries, the tar format and the digest functions. `Verified`
  stands for "the checks pass only for the pinned bytes".
* The rules for single archive entries, the read-only policy's rules, path resolution, version
  comparison and catalog validation. They are pure functions over strings without a
  state; their outcome (accepted or refused) is a choice in the model that calls them.
* What a report of the probe says beyond its status and version, its redaction, and the
  fields of results that are copied from requests.
* Errors of a pipe other than its end or its closing by the timer.
* Bits of a mode beyond private, open and special. `HostRestored` and `RefusalRestores` speak of permission
  bits only, as the code does: `chmodSandboxReadableTree` and `chmodSandboxWritableDirs` record
  `info.Mode().Perm()` (lines 376 and 411 of `docker_compatible_runtime.go`) and the widening masks the rest, so setuid, setgid
  and sticky bits that a workspace had are lost. The model loses them too (`PermOf`). The probe records the
  whole mode.
* Which target a symbolic link has, and where in the walk it comes. A tree's walk records a link with its
  own 0777 (line 376), and writing that back follows the link (lines 344 and 391): the target, in the workspace
  or outside it, is left open to everyone, unless the walk recorded the target earlier. `Links` gives, for each workspace,
  the paths to which this happens; that this set is right for a given tree is not modelled.
* Entries that a task or another program adds, replaces or removes in a workspace while its modes are wide, and
  workspaces nested in each other.
* A failing `chmod` or removal when modes are restored or a temporary workspace is taken away:
  the errors are ignored by the code and no promise covers them.
* The name of a limit for a deadline that passes in `Available`: such a call is answered
  "unavailable", in the code and in the model, and no promise says more.
* A killed agent during `Run`: the code has no recovery from it (the owner token is in memory
  only), so a model could only repeat that.
* A host file system that reorders renames or loses writes at a power failure: the code calls
  no `fsync` and promises nothing about it. A kill of the process is modelled.
* One bundle per install root is modelled; bundles share the lock directory but no file in it,
  unless one bundle's id is another's with `.previous` added (listed as a hazard).
* Command line, catalogs, plugin manifest, podman scope ownership and the packaging script: no
  state.

## 8. What is left

* Pure operators against reference definitions over bounded inputs: `semverLess` and the
  catalog policy, archive entry paths, `resolveInside`, the read-only rules.
* `SandboxRun` and `RuntimeBackendProbe` could use the actions of `BoundedCapture` as
  `SandboxAdapters` uses those of `SandboxPromise`, in place of what section 2 lists as taken
  as given.
* The probe and an installer on one file system: today `ReplaceTool` stands for any
  replacement at any time, which is more than the installer does.

## Running

```
tlc -config MCInstallerCalls.cfg  MCManagedRuntimeInstaller.tla   # also MCInstallerCrash, Recovery, Reinstall, Squat
tlc -config MCSandboxCall.cfg     MCSandboxRun.tla                # also MCSandboxOverlap, MCSandboxPrepare
tlc -config MCSandboxAdapters.cfg MCSandboxAdapters.tla
tlc -config MCProbeReport.cfg     MCRuntimeBackendProbe.tla       # also MCProbeOverlap
tlc -config MCCapture.cfg         MCProcessCapture.tla
tlapm ManagedRuntimeOutcomeProofs.tla                             # and the other ...Proofs modules
```
