----------------------------- MODULE SandboxRun -----------------------------
(***************************************************************************)
(* DockerSandboxRuntime.Run (container/docker_compatible_runtime.go) and   *)
(* the owned cleanup it ends with (container/sandbox_ownership.go): calls  *)
(* of Run, each with its own deadline, against one container engine.       *)
(*                                                                         *)
(* A call widens the modes of its workspace, writes an env file, starts    *)
(* the engine's command line tool (the CLI) with a fresh container name    *)
(* and a fresh owner label, and, if anything at all went wrong, looks the  *)
(* name up, compares the label and removes the container by its id.  The   *)
(* engine keeps working after the CLI is killed: it can create a           *)
(* container late, run it on, or remove it by itself (--rm); and another   *)
(* program can hold the name.                                              *)
(***************************************************************************)
EXTENDS Integers

CONSTANTS
  Runs,        \* calls of Run; a call's name and owner label are fresh, so
               \* the call stands for them, and for the id of its container
  Strangers,   \* containers of other programs, by id
  Workspaces,  \* host directories
  Outside,     \* other host paths
  Links,       \* Links[w]: the paths whose mode the symbolic links in w set when
               \* the recorded modes are written back (see WrittenBack)
  Special,     \* paths with a setuid, setgid or sticky bit
  None         \* no name, no id, no recorded mode

Containers == Runs \cup Strangers
Paths      == Workspaces \cup Outside

ASSUME RunsAssumption ==
  /\ Runs \cap Strangers = {}
  /\ Links \in [Workspaces -> SUBSET Paths]
  /\ None \notin Runs \cup Strangers \cup Paths \cup {"private", "open"}

\* What prepareRunContext refuses, and how far it gets before it does.
Flaws == {"none",
          "policy",    \* the read-only policy, or no workspace
          "network",   \* an unsupported network name
          "argument",  \* a capability, tmpfs, mount, directory or env entry
          "late"}      \* the entrypoint override or the runtime scope

\* What is widened: the tree with RunAsRoot, otherwise the directories with
\* nerdctl and a writable workspace.
Requests == [opens : {"none", "tree", "dirs"}, flaw : Flaws]

\* Permission bits, and the mode of a private path with a special bit.
Perms    == {"private", "open"}
Modes    == Perms \cup {"special"}
Captures == {"whole", "limit", "incomplete"}
Statuses == {"zero", "task", "cli", "killed"}
Replies  == [status : Statuses, capture : Captures]

Labels == {"idle", "validate", "open", "widen", "arguments", "spec", "launch",
           "attached", "returned", "recheck", "inspect", "remove", "measure",
           "restore", "refused", "done"}
Ended  == {"refused", "done"}
Active == Labels \ (Ended \cup {"idle"})

VARIABLES
  pc,          \* where each call is
  req,         \* its request
  ws,          \* its workspace
  expired,     \* ctx.Err() # nil: its deadline passed or it was canceled
  saved,       \* the permission bits it recorded before it widened them
  envFile,     \* its env file exists
  reply,       \* what the runner returned: exit status and capture metadata
  joined,      \* ctx.Err() was joined to its error
  target,      \* the id that inspection proved its own
  cleanup,     \* what the cleanup came to
  measured,    \* the workspace accounting
  ticket,      \* engine: the CLI's create request
  cont,        \* engine: the state of every container
  exit,        \* engine: the exit status of every task
  nameOf,      \* engine: the name a stranger's container has
  mode,        \* the mode of each path; a workspace stands for what a walk of
               \* it visits, the links left out
  outlived     \* history: workspaces on which a call wrote private modes back
               \* while another had recorded theirs

local  == <<req, ws, saved, envFile, reply, joined, target, cleanup, measured>>
engine == <<ticket, cont, exit, nameOf>>
host   == <<mode, outlived>>
vars   == <<pc, req, ws, expired, saved, envFile, reply, joined, target,
            cleanup, measured, ticket, cont, exit, nameOf, mode, outlived>>

TypeOK ==
  /\ pc \in [Runs -> Labels]
  /\ req \in [Runs -> Requests]
  /\ ws \in [Runs -> Workspaces \cup {None}]
  /\ expired \in [Runs -> BOOLEAN]
  /\ saved \in [Runs -> Perms \cup {None}]
  /\ envFile \in [Runs -> BOOLEAN]
  /\ reply \in [Runs -> Replies]
  /\ joined \in [Runs -> BOOLEAN]
  /\ target \in [Runs -> Containers \cup {None}]
  /\ cleanup \in [Runs -> {"none", "removed", "cliError", "unproven"}]
  /\ measured \in [Runs -> {"none", "bytes", "failed"}]
  /\ ticket \in [Runs -> {"none", "sent", "answered"}]
  /\ cont \in [Containers -> {"never", "running", "exited", "removed"}]
  /\ exit \in [Runs -> {"none", "zero", "task"}]
  /\ nameOf \in [Strangers -> Runs \cup {None}]
  /\ mode \in [Paths -> Modes]
  /\ outlived \in SUBSET Workspaces

-----------------------------------------------------------------------------
(* The definitions whose comment says "Mutant" are what the code does not  *)
(* do: each stands before the definition it replaces to show that a        *)
(* property of a run would notice.                                         *)

\* Containers present under call r's name; an engine allows one.
Present(c)  == cont[c] \in {"running", "exited"}
Named(c, r) == IF c \in Runs THEN c = r ELSE nameOf[c] = r
Holders(r)  == {c \in Containers : Present(c) /\ Named(c, r)}

\* ownedSandboxID: the label is this call's owner token.
Owned(c, r) == c = r

\* Line 96's err # nil: the CLI failed, or the capture is limited or open.
Errored(r) == reply[r] # [status |-> "zero", capture |-> "whole"]

\* Mutant of NeedsCleanup: a CLI error with both streams at EOF is believed.
OnlyIfUnproven(r) == reply[r].capture # "whole" \/ expired[r]

NeedsCleanup(r) == Errored(r) \/ expired[r]

Failed(r) == \/ pc[r] = "refused"
             \/ Errored(r) \/ joined[r]
             \/ cleanup[r] \in {"cliError", "unproven"}
             \/ measured[r] = "failed"

\* The exit codes the error tree holds, in the order errors.Join put them:
\* the CLI's, then that of the CLI call the cleanup failed in.
CliCode(r)     == CASE reply[r].status = "zero" -> "none"
                    [] reply[r].status = "task" -> "task"
                    [] OTHER                    -> "other"
CleanupCode(r) == IF cleanup[r] = "cliError" THEN "other" ELSE "none"

\* Mutant of Codes: the cleanup error is joined first.
CleanupFirst(r) == <<CleanupCode(r), CliCode(r)>>

Codes(r) == <<CliCode(r), CleanupCode(r)>>

\* commandExitCode
ExitCode(r) ==
  LET found == {i \in 1..2 : Codes(r)[i] # "none"} IN
  CASE ~Failed(r) -> "zero"
    [] Failed(r) /\ found = {} -> "unknown"
    [] OTHER -> Codes(r)[CHOOSE i \in found : \A j \in found : i <= j]

-----------------------------------------------------------------------------
Init ==
  /\ pc = [r \in Runs |-> "idle"]
  /\ req = [r \in Runs |-> [opens |-> "none", flaw |-> "none"]]
  /\ ws = [r \in Runs |-> None]
  /\ expired = [r \in Runs |-> FALSE]
  /\ saved = [r \in Runs |-> None]
  /\ envFile = [r \in Runs |-> FALSE]
  /\ reply = [r \in Runs |-> [status |-> "zero", capture |-> "whole"]]
  /\ joined = [r \in Runs |-> FALSE]
  /\ target = [r \in Runs |-> None]
  /\ cleanup = [r \in Runs |-> "none"]
  /\ measured = [r \in Runs |-> "none"]
  /\ ticket = [r \in Runs |-> "none"]
  /\ cont = [c \in Containers |-> "never"]
  /\ exit = [r \in Runs |-> "none"]
  /\ nameOf = [s \in Strangers |-> None]
  /\ mode = [p \in Paths |-> IF p \in Special THEN "special" ELSE "private"]
  /\ outlived = {}

Goto(r, label) == pc' = [pc EXCEPT ![r] = label]

-----------------------------------------------------------------------------
(* Preparation.                                                            *)

Start(r) ==
  /\ pc[r] = "idle"
  /\ \E q \in Requests, w \in Workspaces :
       /\ req' = [req EXCEPT ![r] = q]
       /\ ws' = [ws EXCEPT ![r] = w]
  /\ Goto(r, "validate")
  /\ UNCHANGED <<expired, saved, envFile, reply, joined, target, cleanup,
                 measured, engine, host>>

\* ValidateReadOnlyPolicy and the workspace checks: nothing is touched yet.
ValidatePolicy(r) ==
  /\ pc[r] = "validate"
  /\ Goto(r, IF req[r].flaw = "policy" THEN "refused" ELSE "open")
  /\ UNCHANGED <<expired, local, engine, host>>

\* info.Mode().Perm(): the special bits are not recorded.
PermOf(m) == IF m = "special" THEN "private" ELSE m

\* The links the walk of a tree records; that of the directories skips them.
LinksOf(r) == IF req[r].opens = "tree" THEN Links[ws[r]] ELSE {}

\* The modes after the recorded ones are written back, in reverse order of the
\* walk.  A link is recorded with its own bits, which are all set, and chmod
\* follows it: it leaves its target open, unless the target was recorded
\* earlier in the walk, so that its own bits are written after the link's.
WrittenBack(r, links) ==
  [p \in Paths |-> CASE p \in links -> "open"
                     [] p = ws[r] /\ p \notin links /\ saved[r] # None -> saved[r]
                     [] OTHER -> mode[p]]

\* Mutant of ClosedModes: the recorded modes are not written back.
LeftModes(r) == mode

\* Mutant of ClosedModes: what is written back was never recorded.
UnrecordedModes(r) == [p \in Paths |-> IF p = ws[r] THEN saved[r] ELSE mode[p]]

\* The modes after the closure that writes the recorded ones back.
ClosedModes(r) == WrittenBack(r, LinksOf(r))

\* A call has recorded the modes of its workspace and is yet to write them back.
Holds(r) == saved[r] # None /\ pc[r] \in Active

\* The history of a call that writes its modes back.
Outlive(r) ==
  outlived' = outlived \cup
    {w \in {ws[r]} : /\ saved[r] = "private"
                     /\ \E o \in Runs \ {r} : Holds(o) /\ ws[o] = w}

\* makeWorkspaceSandboxReadable, makeWorkspaceSandboxWritable, for one entry:
\* its mode is read and recorded, then widened, and another call's walk can
\* come between.  A walk that fails writes back what it has recorded so far; to
\* an entry it has widened before, that looks like a refused argument.
RecordModes(r) ==
  /\ pc[r] = "open"
  /\ \/ /\ req[r].opens = "none"
        /\ Goto(r, "arguments")
        /\ UNCHANGED <<saved, mode>>
     \/ /\ req[r].opens # "none"
        /\ saved' = [saved EXCEPT ![r] = PermOf(mode[ws[r]])]
        /\ Goto(r, "widen")
        /\ UNCHANGED mode
     \/ /\ req[r].opens # "none"
        /\ \E links \in SUBSET LinksOf(r) : mode' = WrittenBack(r, links)
        /\ Goto(r, "refused")
        /\ UNCHANGED saved
  /\ UNCHANGED <<expired, req, ws, envFile, reply, joined, target, cleanup,
                 measured, engine, outlived>>

WidenModes(r) ==
  /\ pc[r] = "widen"
  /\ \/ /\ mode' = [mode EXCEPT ![ws[r]] = "open"]
        /\ Goto(r, "arguments")
        /\ UNCHANGED outlived
     \/ /\ \E links \in SUBSET LinksOf(r) : mode' = WrittenBack(r, links)
        /\ Outlive(r)
        /\ Goto(r, "refused")
  /\ UNCHANGED <<expired, req, ws, saved, envFile, reply, joined, target,
                 cleanup, measured, engine>>

\* cleanup(): the env file goes, then the modes come back.
CleanUp(r) ==
  /\ envFile' = [envFile EXCEPT ![r] = FALSE]
  /\ mode' = ClosedModes(r)
  /\ Outlive(r)

\* The network, which is refused without cleanup(); then the arguments, each
\* refused with it; then the env file.
BuildArguments(r) ==
  /\ pc[r] = "arguments"
  /\ \/ /\ req[r].flaw = "network"
        /\ Goto(r, "refused")
        /\ UNCHANGED <<envFile, host>>
     \/ /\ req[r].flaw = "argument"
        /\ Goto(r, "refused")
        /\ CleanUp(r)
     \/ /\ req[r].flaw \notin {"network", "argument"}
        /\ envFile' = [envFile EXCEPT ![r] = TRUE]
        /\ Goto(r, "spec")
        /\ UNCHANGED host
  /\ UNCHANGED <<expired, req, ws, saved, reply, joined, target, cleanup,
                 measured, engine>>

FinishSpec(r) ==
  /\ pc[r] = "spec"
  /\ \/ /\ req[r].flaw = "late"
        /\ Goto(r, "refused")
        /\ CleanUp(r)
     \/ /\ req[r].flaw # "late"
        /\ Goto(r, "launch")
        /\ UNCHANGED <<envFile, host>>
  /\ UNCHANGED <<expired, req, ws, saved, reply, joined, target, cleanup,
                 measured, engine>>

-----------------------------------------------------------------------------
(* The CLI.                                                                *)

\* exec's Start does not start a process when the context is done, and it
\* fails when the tool cannot be run.
LaunchCli(r) ==
  /\ pc[r] = "launch"
  /\ \/ /\ ~expired[r]
        /\ ticket' = [ticket EXCEPT ![r] = "sent"]
        /\ Goto(r, "attached")
        /\ UNCHANGED reply
     \/ /\ reply' = [reply EXCEPT ![r] = [status |-> "cli", capture |-> "whole"]]
        /\ Goto(r, "returned")
        /\ UNCHANGED ticket
  /\ UNCHANGED <<expired, req, ws, saved, envFile, joined, target, cleanup,
                 measured, cont, exit, nameOf, host>>

\* What the CLI's exit status says of the container: "zero" that the task
\* ended well and --rm removed it, "task" that it ended otherwise; the CLI's
\* own failure says nothing.
Vouches(status, r) ==
  CASE status = "zero" -> exit[r] = "zero" /\ cont[r] = "removed"
    [] status = "task" -> exit[r] = "task"
    [] OTHER           -> TRUE

\* The CLI ends by itself.  runBoundedProcess calls the capture complete only
\* if it reached EOF on both streams while the context was alive.
CliReturns(r) ==
  /\ pc[r] = "attached"
  /\ \E status \in {"zero", "task", "cli"}, capture \in Captures :
       /\ Vouches(status, r)
       /\ expired[r] => capture = "incomplete"
       /\ reply' = [reply EXCEPT ![r] = [status |-> status, capture |-> capture]]
  /\ Goto(r, "returned")
  /\ UNCHANGED <<expired, req, ws, saved, envFile, joined, target, cleanup,
                 measured, engine, host>>

\* Mutant of Killable: the wait ends only when the container lets its
\* streams go.
KillableOnceQuiet(r) == expired[r] /\ cont[r] # "running"

\* The context kills the process, WaitDelay and the drain timer end the wait
\* for its streams, whatever holds them.
Killable(r) == expired[r]

CliKilled(r) ==
  /\ pc[r] = "attached"
  /\ Killable(r)
  /\ reply' = [reply EXCEPT ![r] = [status |-> "killed", capture |-> "incomplete"]]
  /\ Goto(r, "returned")
  /\ UNCHANGED <<expired, req, ws, saved, envFile, joined, target, cleanup,
                 measured, engine, host>>

\* Line 91: streams that are whole are given up when the context is done.
Withheld(r) == IF expired[r] /\ reply[r].capture = "whole" THEN "incomplete"
               ELSE reply[r].capture

ReadContext(r) ==
  /\ pc[r] = "returned"
  /\ reply' = [reply EXCEPT ![r].capture = Withheld(r)]
  /\ Goto(r, "recheck")
  /\ UNCHANGED <<expired, req, ws, saved, envFile, joined, target, cleanup,
                 measured, engine, host>>

\* Lines 97 and 98 read it again.
DecideCleanup(r) ==
  /\ pc[r] = "recheck"
  /\ joined' = [joined EXCEPT ![r] = expired[r]]
  /\ Goto(r, IF NeedsCleanup(r) THEN "inspect" ELSE "measure")
  /\ UNCHANGED <<expired, req, ws, saved, envFile, reply, target, cleanup,
                 measured, engine, host>>

-----------------------------------------------------------------------------
(* removeOwnedSandbox, under a deadline of its own, and the end of Run.     *)

InspectByName(r) ==
  /\ pc[r] = "inspect"
  /\ \/ \E c \in Holders(r) :
          \/ /\ Owned(c, r)
             /\ target' = [target EXCEPT ![r] = c]
             /\ Goto(r, "remove")
             /\ UNCHANGED cleanup
          \/ /\ ~Owned(c, r)
             /\ cleanup' = [cleanup EXCEPT ![r] = "unproven"]
             /\ Goto(r, "measure")
             /\ UNCHANGED target
     \/ /\ cleanup' = [cleanup EXCEPT ![r] = "cliError"]
        /\ Goto(r, "measure")
        /\ UNCHANGED target
  /\ UNCHANGED <<expired, req, ws, saved, envFile, reply, joined, measured,
                 engine, host>>

\* Mutant of Doomed: the container is removed by its name.
DoomedByName(r) == Holders(r)

\* rm -f takes the full id, which no other container ever has.
Doomed(r) == {c \in {target[r]} : Present(c)}

Removed(doomed) == [c \in Containers |-> IF c \in doomed THEN "removed" ELSE cont[c]]

\* A removal that fails may have removed it all the same (its answer was lost
\* or late).
RemoveById(r) ==
  /\ pc[r] = "remove"
  /\ \/ /\ cont' = Removed(Doomed(r))
        /\ cleanup' \in {[cleanup EXCEPT ![r] = outcome] :
                           outcome \in {"removed", "cliError"}}
     \/ /\ cleanup' = [cleanup EXCEPT ![r] = "cliError"]
        /\ UNCHANGED cont
  /\ Goto(r, "measure")
  /\ UNCHANGED <<expired, req, ws, saved, envFile, reply, joined, target,
                 measured, ticket, exit, nameOf, host>>

\* Mutant of MeasurementsOf: the walk does not look at the context, as
\* DirectorySize does not.
AnyMeasurement(r) == {"bytes", "failed"}

\* directorySizeContext, with the context of the task.
MeasurementsOf(r) == IF expired[r] THEN {"failed"} ELSE {"bytes", "failed"}

MeasureWorkspace(r) ==
  /\ pc[r] = "measure"
  /\ \E m \in MeasurementsOf(r) : measured' = [measured EXCEPT ![r] = m]
  /\ Goto(r, "restore")
  /\ UNCHANGED <<expired, req, ws, saved, envFile, reply, joined, target,
                 cleanup, engine, host>>

\* The result, and the deferred cleanup().
Return(r) ==
  /\ pc[r] = "restore"
  /\ CleanUp(r)
  /\ Goto(r, "done")
  /\ UNCHANGED <<expired, req, ws, saved, reply, joined, target, cleanup,
                 measured, engine>>

Expire(r) ==
  /\ pc[r] \in Active
  /\ ~expired[r]
  /\ expired' = [expired EXCEPT ![r] = TRUE]
  /\ UNCHANGED <<pc, local, engine, host>>

-----------------------------------------------------------------------------
(* The engine, and the other programs that use it (outside the repository). *)

\* The create request is answered, whether or not the CLI still waits: a name
\* in use is refused.
EngineCreates(r) ==
  /\ ticket[r] = "sent"
  /\ ticket' = [ticket EXCEPT ![r] = "answered"]
  /\ cont' = IF Holders(r) = {} THEN [cont EXCEPT ![r] = "running"] ELSE cont
  /\ UNCHANGED <<pc, expired, local, exit, nameOf, host>>

TaskExits(r) ==
  /\ cont[r] = "running"
  /\ cont' = [cont EXCEPT ![r] = "exited"]
  /\ \E status \in {"zero", "task"} : exit' = [exit EXCEPT ![r] = status]
  /\ UNCHANGED <<pc, expired, local, ticket, nameOf, host>>

\* --rm
EngineRemoves(r) ==
  /\ cont[r] = "exited"
  /\ cont' = [cont EXCEPT ![r] = "removed"]
  /\ UNCHANGED <<pc, expired, local, ticket, exit, nameOf, host>>

StrangerAppears(s, r) ==
  /\ cont[s] = "never"
  /\ Holders(r) = {}
  /\ cont' = [cont EXCEPT ![s] = "running"]
  /\ nameOf' = [nameOf EXCEPT ![s] = r]
  /\ UNCHANGED <<pc, expired, local, ticket, exit, host>>

\* Every call has returned and the engine has nothing left to do.
Quiet ==
  /\ \A r \in Runs : pc[r] \in Ended /\ ticket[r] # "sent" /\ ~Present(r)
  /\ UNCHANGED vars

-----------------------------------------------------------------------------
\* The steps of the call itself; each is bounded by a timer or by local work.
Step(r) ==
  \/ ValidatePolicy(r) \/ RecordModes(r) \/ WidenModes(r)
  \/ BuildArguments(r) \/ FinishSpec(r) \/ LaunchCli(r) \/ CliKilled(r)
  \/ ReadContext(r) \/ DecideCleanup(r) \/ InspectByName(r) \/ RemoveById(r)
  \/ MeasureWorkspace(r) \/ Return(r)

Next ==
  \/ \E r \in Runs : \/ Start(r) \/ Step(r) \/ CliReturns(r) \/ Expire(r)
                     \/ EngineCreates(r) \/ TaskExits(r) \/ EngineRemoves(r)
                     \/ \E s \in Strangers : StrangerAppears(s, r)
  \/ Quiet

Spec == Init /\ [][Next]_vars

\* Goroutines run and timers fire.  Nothing is assumed of the engine or of
\* the CLI: neither has to answer, and a task may run for ever.
Fairness == \A r \in Runs : WF_vars(Step(r)) /\ WF_vars(Expire(r))

FairSpec == Spec /\ Fairness

-----------------------------------------------------------------------------
(* Properties.                                                             *)

\* removeOwnedSandbox: a container goes away by itself when its task is over,
\* or because its own call, having proved the ownership, removes it; no
\* interleaving of inspection, removal and reuse of the name costs another
\* call or another program its container.
OnlyOwnerRemoves ==
  [][\A c \in Containers :
       Present(c) /\ cont'[c] = "removed" =>
         c \in Runs /\ (cont[c] = "exited" \/ pc[c] = "remove")]_vars

\* Run, lines 95 to 99: whenever a launched call returns without a cleanup
\* error, its container is gone and stays gone, although the CLI may have
\* failed, been killed or been overtaken by the deadline, and the engine may
\* act late.
NoUnreportedContainer ==
  \A r \in Runs : pc[r] = "done" /\ cleanup[r] \in {"none", "removed"} =>
    cont[r] = "removed" /\ ticket[r] = "answered"

\* An unsupported network has left w as the refused call widened it.
LeftOpen(w) == \E r \in Runs : ws[r] = w /\ req[r].flaw = "network"

\* A walk that followed a link to p has been undone.
Exposed(p) ==
  \E r \in Runs : pc[r] \in Ended /\ req[r].flaw # "policy" /\ p \in LinksOf(r)

\* Run and prepareRunContext: the permission bits of every path are what they
\* were when no call is using it, and no call leaves an env file behind,
\* whatever the calls' order.  What can leave a path open is the unsupported
\* network, a symbolic link to it in a tree that was widened, and a call that
\* wrote private modes back while a later one, which may have recorded the
\* widened ones, still held the workspace; calls that only overlap do not.
HostRestored ==
  /\ \A r \in Runs : pc[r] \in Ended => ~envFile[r]
  /\ \A p \in Paths : PermOf(mode[p]) = "open" =>
       \/ \E r \in Runs : ws[r] = p /\ Holds(r)
       \/ p \in outlived \/ LeftOpen(p) \/ Exposed(p)

\* The test TestNerdctlSandboxRuntimeRestoresWorkspaceWhenPrepareFails: the
\* permission bits of a workspace are private again when preparation has failed.
RestoredWhenPrepareFails ==
  \A r \in Runs : pc[r] = "refused" =>
    \/ PermOf(mode[ws[r]]) = "private"
    \/ \E o \in Runs \ {r} : ws[o] = ws[r]

\* Run, line 98 and commandExitCode: the exit code of a task that failed is
\* reported whatever failed after it, and no later failure passes for it.
TaskExitCodeSurvives ==
  \A r \in Runs : pc[r] = "done" =>
    /\ reply[r].status = "task" <=> ExitCode(r) = "task"
    /\ ExitCode(r) = "zero" => exit[r] = "zero" /\ cont[r] = "removed"

\* Run, lines 91, 97 and 110: a call whose deadline passed before its
\* accounting was done never reports success, however late its runner's good
\* answer and wherever between the three looks at the context it passed.
LateCallFails ==
  \A r \in Runs :
    [](expired[r] /\ pc[r] \in Active \ {"restore"} => [](pc[r] = "done" => Failed(r)))

\* Run: every call returns, though the task, the CLI and the engine may hang.
EveryRunReturns == \A r \in Runs : pc[r] \in Active ~> pc[r] \in Ended
=============================================================================
