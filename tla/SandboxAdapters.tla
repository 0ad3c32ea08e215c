---------------------------- MODULE SandboxAdapters ----------------------------
(***************************************************************************)
(* RunSandboxedCommand and BuildSandboxedContainer (container/adapters.go) *)
(* as concurrent calls on one workspace, above a runtime of which they     *)
(* know only what SandboxPromise says.                                     *)
(*                                                                         *)
(* An adapter asks whether the runtime is there, calls Run under its own   *)
(* deadline, looks at that deadline and at Run's error, and then reads the *)
(* workspace: the command adapter hashes the files its caller listed, the  *)
(* build adapter takes a digest from the output or from a file.  The       *)
(* workspace is a host directory: the tasks of all the calls that use it   *)
(* write to it for as long as they live, and it keeps what earlier calls   *)
(* left.                                                                   *)
(***************************************************************************)
EXTENDS Integers

CONSTANTS
  Calls,      \* calls of the adapters; each makes one call of Run
  Artifacts,  \* the files a command's caller may list, numbered as they sort
  None        \* no file

ASSUME ArtifactsAssumption == Artifacts \subseteq Nat

\* The file a build task may leave its digest in; a caller may list it too.
DigestFile == 0
Files      == Artifacts \cup {DigestFile}

\* A file by the call whose task wrote it, finished or not.
Written  == [by : Calls, whole : BOOLEAN]
Contents == Written \cup {None}
Trees    == [Files -> Contents]

\* readOnly: the workspace is mounted read-only.  listed: the caller lists
\* artifacts.  shorter: the limits allow the task less time than the adapter.
Commands == [kind : {"command"}, readOnly : BOOLEAN, listed : BOOLEAN, shorter : {FALSE}]
Builds   == [kind : {"build"}, readOnly : {FALSE}, listed : {FALSE}, shorter : BOOLEAN]
Jobs     == Commands \cup Builds

Labels == {"idle", "validate", "available", "run", "judge",
           "read", "account", "answered"}

Markers == {"none", "valid", "invalid"}
Answers == {"none", "refused", "unavailable", "failed", "done"}

VARIABLES
  pc,         \* where each call is
  job,        \* what it was asked
  expired,    \* runCtx.Err() # nil
  limit,      \* LimitHit is the caller's word for a timeout
  answer,     \* what the call came to
  taken,      \* the files it has read
  digest,     \* the build whose digest it reports
  marker,     \* the last digest marker in its task's output
  files,      \* the workspace
  left,       \* history: the workspace when its task ended
  disturbed,  \* history: calls another task wrote under after theirs ended
  stage, late, task, code, verdict   \* the calls of Run

Runtime == INSTANCE SandboxPromise WITH Runs <- Calls

runtime == <<stage, late, task, code, verdict>>
own   == <<job, limit, answer, taken, digest>>
disk  == <<files, left, disturbed, marker>>
vars  == <<pc, own, expired, disk, runtime>>

TypeOK ==
  /\ pc \in [Calls -> Labels]
  /\ job \in [Calls -> Jobs]
  /\ expired \in [Calls -> BOOLEAN]
  /\ limit \in [Calls -> BOOLEAN]
  /\ answer \in [Calls -> Answers]
  /\ taken \in [Calls -> Trees]
  /\ digest \in [Calls -> Calls \cup {None}]
  /\ marker \in [Calls -> Markers]
  /\ files \in Trees
  /\ left \in [Calls -> Trees]
  /\ disturbed \in SUBSET Calls
  /\ Runtime!PromiseTypes

Plain == [kind |-> "command", readOnly |-> FALSE, listed |-> FALSE, shorter |-> FALSE]
Empty == [f \in Files |-> None]

Init ==
  /\ pc = [c \in Calls |-> "idle"]
  /\ job = [c \in Calls |-> Plain]
  /\ expired = [c \in Calls |-> FALSE]
  /\ limit = [c \in Calls |-> FALSE]
  /\ answer = [c \in Calls |-> "none"]
  /\ taken = [c \in Calls |-> Empty]
  /\ digest = [c \in Calls |-> None]
  /\ marker = [c \in Calls |-> "none"]
  /\ files = Empty
  /\ left = [c \in Calls |-> Empty]
  /\ disturbed = {}
  /\ Runtime!Init

Goto(c, label)   == pc' = [pc EXCEPT ![c] = label]
Answer(c, what)  == /\ answer' = [answer EXCEPT ![c] = what]
                    /\ Goto(c, "answered")

-----------------------------------------------------------------------------
(* The definitions whose comment says "Mutant" are what the code does not  *)
(* do, as in SandboxRun.                                                   *)

\* Mutant of Judgement: Run's error is looked at before the deadline.
ErrorFirst(c) == IF verdict[c] # "success" THEN "error"
                 ELSE IF expired[c] THEN "timeout" ELSE "good"

\* Mutant of Judgement: Run's error is not looked at.
DeadlineOnly(c) == IF expired[c] THEN "timeout" ELSE "good"

\* Mutant of Judgement: an error of the clean-up is not the caller's business.
CleanupIgnored(c) == IF expired[c] THEN "timeout"
                     ELSE IF verdict[c] = "failure" THEN "error" ELSE "good"

\* What an adapter makes of Run's return: the deadline is looked at first.
Judgement(c) == IF expired[c] THEN "timeout"
                ELSE IF verdict[c] # "success" THEN "error" ELSE "good"

\* Mutant of Announced: the file is read whatever the output says.
NeverAnnounced(c) == FALSE

\* ParseSandboxedContainerBuildDigestMarker: the last marker counts, and
\* counts as none if it is not a digest.  The runtimes of this repository
\* report no digest of their own.
Announced(c) == job[c].kind = "build" /\ marker[c] = "valid"

\* Mutant of DigestIn: what the file holds is passed on as it is.
RawContent(content) == content

\* ReadSandboxedContainerBuildDigest, of a file that was finished.
DigestIn(content) == content.by

\* The files that still have to be read, the first of them first.
Wanted(c)  == CASE job[c].listed         -> Artifacts
                [] job[c].kind = "build" -> {DigestFile} \ {f \in Files : Announced(c)}
                [] OTHER                 -> {}
Pending(c) == {f \in Wanted(c) : taken[c][f] = None}
First(c)   == CHOOSE f \in Pending(c) : \A g \in Pending(c) : f <= g

-----------------------------------------------------------------------------
(* Up to the call of Run.                                                  *)

Start(c) ==
  /\ pc[c] = "idle"
  /\ \E j \in Jobs : job' = [job EXCEPT ![c] = j]
  /\ Goto(c, "validate")
  /\ UNCHANGED <<expired, limit, answer, taken, digest, disk, runtime>>

\* The request, its payload and its paths may be refused; a read-only
\* workspace cannot produce artifacts.
Validate(c) ==
  /\ pc[c] = "validate"
  /\ \/ Answer(c, "refused")
     \/ /\ ~(job[c].readOnly /\ job[c].listed)
        /\ Goto(c, "available")
        /\ UNCHANGED answer
  /\ UNCHANGED <<expired, job, limit, taken, digest, disk, runtime>>

\* A deadline that passes here makes the runtime unavailable; a build's
\* environment is refused only after it was found available.
AskAvailable(c) ==
  /\ pc[c] = "available"
  /\ \/ Answer(c, "unavailable")
     \/ job[c].kind = "build" /\ Answer(c, "refused")
     \/ Goto(c, "run") /\ UNCHANGED answer
  /\ UNCHANGED <<expired, job, limit, taken, digest, disk, runtime>>

CallRun(c) ==
  /\ pc[c] = "run"
  /\ Runtime!Call(c, expired[c])
  /\ Goto(c, "judge")
  /\ UNCHANGED <<expired, own, disk>>

-----------------------------------------------------------------------------
(* From Run's return to the answer.                                        *)

JudgeResult(c) ==
  /\ pc[c] = "judge" /\ stage[c] = "returned"
  /\ \/ /\ Judgement(c) = "good"
        /\ Goto(c, IF Wanted(c) = {} THEN "account" ELSE "read")
        /\ digest' = IF Announced(c) THEN [digest EXCEPT ![c] = c] ELSE digest
        /\ UNCHANGED <<answer, limit>>
     \/ /\ Judgement(c) # "good"
        /\ Answer(c, "failed")
        /\ limit' = [limit EXCEPT ![c] = Judgement(c) = "timeout"]
        /\ UNCHANGED digest
  /\ UNCHANGED <<expired, job, taken, disk, runtime>>

\* hashArtifacts and ReadSandboxedContainerBuildDigest, a file at a time: a
\* path may be refused, a file be missing or replaced between the check and
\* the opening.  Neither looks at the deadline.
ReadFile(c) ==
  /\ pc[c] = "read"
  /\ \/ Answer(c, "failed") /\ UNCHANGED <<taken, digest>>
     \/ LET f == First(c) IN
        /\ files[f] # None
        /\ taken' = [taken EXCEPT ![c][f] = files[f]]
        /\ \/ /\ job[c].kind = "command"
              /\ Goto(c, IF Pending(c) = {f} THEN "account" ELSE "read")
              /\ UNCHANGED digest
           \/ /\ job[c].kind = "build" /\ files[f].whole
              /\ digest' = [digest EXCEPT ![c] = DigestIn(files[f])]
              /\ Goto(c, "account")
        /\ UNCHANGED answer
  /\ UNCHANGED <<expired, job, limit, disk, runtime>>

\* A workspace that Run measured as empty is measured again, under the
\* deadline.
Account(c) ==
  /\ pc[c] = "account"
  /\ \/ Answer(c, "done") /\ UNCHANGED limit
     \/ Answer(c, "failed") /\ limit' = [limit EXCEPT ![c] = expired[c]]
  /\ UNCHANGED <<expired, job, taken, digest, disk, runtime>>

-----------------------------------------------------------------------------
(* The deadlines.  Run's context is derived from the adapter's and has the  *)
(* same timeout, or a shorter one.                                         *)

Expire(c) ==
  /\ pc[c] \notin {"idle", "answered"} /\ ~expired[c]
  /\ expired' = [expired EXCEPT ![c] = TRUE]
  /\ IF stage[c] = "idle" THEN UNCHANGED runtime ELSE Runtime!Expire(c)
  /\ UNCHANGED <<pc, own, disk>>

RunExpires(c) ==
  /\ job[c].shorter /\ stage[c] = "running" /\ ~late[c]
  /\ Runtime!Expire(c)
  /\ UNCHANGED <<pc, own, expired, disk>>

-----------------------------------------------------------------------------
(* The runtime, and the tasks (external to the adapters).                   *)

RunReturns(c) ==
  /\ Runtime!Return(c)
  /\ UNCHANGED <<pc, own, expired, disk>>

TaskStarts(c) ==
  /\ Runtime!TaskStarts(c)
  /\ UNCHANGED <<pc, own, expired, disk>>

TaskEnds(c) ==
  /\ Runtime!TaskEnds(c)
  /\ left' = [left EXCEPT ![c] = files]
  /\ UNCHANGED <<pc, own, expired, files, disturbed, marker>>

\* A task starts a file over, in place or not, or finishes it.
TaskWrites(c, f) ==
  /\ task[c] = "alive" /\ ~job[c].readOnly
  /\ LET begun == [by |-> c, whole |-> FALSE] IN
     files' = [files EXCEPT ![f] = IF @ = begun THEN [begun EXCEPT !.whole = TRUE]
                                   ELSE begun]
  /\ disturbed' = disturbed \cup {d \in Calls : task[d] = "over" /\ pc[d] # "answered"}
  /\ UNCHANGED <<pc, own, expired, left, marker, runtime>>

TaskPrints(c) ==
  /\ task[c] = "alive" /\ stage[c] = "running" /\ job[c].kind = "build"
  /\ marker' \in {[marker EXCEPT ![c] = m] : m \in Markers \ {"none"}}
  /\ UNCHANGED <<pc, own, expired, files, left, disturbed, runtime>>

\* Every call was answered and no task is alive.
Quiet ==
  /\ \A c \in Calls : pc[c] = "answered" /\ task[c] # "alive"
  /\ UNCHANGED vars

-----------------------------------------------------------------------------
Next ==
  \/ \E c \in Calls :
       \/ Start(c) \/ Validate(c) \/ AskAvailable(c) \/ CallRun(c)
       \/ JudgeResult(c) \/ ReadFile(c) \/ Account(c)
       \/ Expire(c) \/ RunExpires(c) \/ RunReturns(c)
       \/ TaskStarts(c) \/ TaskEnds(c) \/ TaskPrints(c)
       \/ \E f \in Files : TaskWrites(c, f)
  \/ Quiet

Spec == Init /\ [][Next]_vars

-----------------------------------------------------------------------------
(* Properties.                                                             *)

\* RunSandboxedCommand, lines 412 to 430: the artifacts a successful command
\* reports are the files as its own task left them when it ended, every one of
\* them, unless the task of another call wrote to the workspace since.
HashedAsTaskLeft ==
  \A c \in Calls : answer[c] = "done" /\ job[c].listed =>
    /\ task[c] = "over"
    /\ \A f \in Artifacts : taken[c][f] # None
    /\ taken[c] = [f \in Files |-> IF f \in Artifacts THEN left[c][f] ELSE None]
       \/ c \in disturbed

\* BuildSandboxedContainer, lines 569 to 581: a successful build reports a
\* digest that its own task announced; or, if its task's last word in the
\* output was none, the finished one that was in the file when its task ended,
\* which an earlier build may have left there; or what another build has
\* written there since.
DigestIsAccountedFor ==
  \A c \in Calls : answer[c] = "done" /\ job[c].kind = "build" =>
    \/ marker[c] = "valid" /\ digest[c] = c
    \/ /\ marker[c] # "valid"
       /\ \/ left[c][DigestFile] = [by |-> digest[c], whole |-> TRUE]
          \/ c \in disturbed

\* Both adapters, lines 412 and 562: a call whose Run failed after its deadline
\* had passed says that it hit the limit, although Run and the adapter look at
\* two contexts at different times; only a build whose limits are shorter than
\* its timeout may not say so.  And no call says so unless it failed late.
LateRunNamesTheLimit ==
  \A c \in Calls : pc[c] = "answered" =>
    /\ stage[c] = "returned" /\ late[c] /\ verdict[c] # "success" =>
         limit[c] \/ job[c].shorter
    /\ limit[c] => expired[c] /\ answer[c] = "failed"

\* Both adapters: a call that is answered with success has left no task, none
\* can start any more, and its task ended by itself with status zero.
SuccessIsFinal ==
  [][\A c \in Calls : answer[c] = "done" =>
       /\ task[c] = "over" /\ code[c] = "zero" /\ task'[c] = "over"
       /\ answer'[c] = "done"]_vars
=============================================================================
