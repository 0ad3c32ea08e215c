-------------------------- MODULE SandboxRefinement --------------------------
(* Run seen as its promise: how far each call is, what its task does in the *)
(* engine, and what the call's error says of it.  After the accounting only *)
(* the workspace is still to be restored.                                   *)
EXTENDS SandboxRun

StageOf(r) ==
  CASE pc[r] = "idle"    -> "idle"
    [] pc[r] \in Ended \cup {"restore"} -> "returned"
    [] OTHER             -> "running"

TaskOf(r) == CASE cont[r] = "never"   -> "never"
               [] cont[r] = "running" -> "alive"
               [] OTHER               -> "over"

\* An exit status the engine has forgotten counts as none.
CodeOf(r) == IF exit[r] = "task" THEN "other" ELSE exit[r]

VerdictOf(r) ==
  IF StageOf(r) # "returned" THEN "none"
  ELSE CASE ~Failed(r)                                      -> "success"
         [] Failed(r) /\ cleanup[r] \in {"none", "removed"} -> "failure"
         [] OTHER                                           -> "unclean"

stageBar   == [r \in Runs |-> StageOf(r)]
taskBar    == [r \in Runs |-> TaskOf(r)]
codeBar    == [r \in Runs |-> CodeOf(r)]
verdictBar == [r \in Runs |-> VerdictOf(r)]

Promise == INSTANCE SandboxPromise WITH
  stage   <- stageBar,
  late    <- expired,
  task    <- taskBar,
  code    <- codeBar,
  verdict <- verdictBar

\* Run keeps its promise: a task that is reported to have failed or succeeded
\* is over for good, success means it ended by itself with status zero before
\* the deadline was seen, and only a reported clean-up error leaves it open.
KeepsPromise == Promise!Spec
=============================================================================
