-------------------------- MODULE CaptureRefinement --------------------------
(* runBoundedProcess and boundRunnerOutput after it, seen as one capture    *)
(* under the smaller of their limits.                                       *)
EXTENDS ProcessCapture

\* A command that could not be started has no drains.
stageBar == CASE pc = "start" -> "new"
              [] pc = "wait"  -> "running"
              [] pc = "drain" -> "reaped"
              [] pc = "bound" -> IF drain["out"] = "idle" THEN "new" ELSE "reaped"
              [] OTHER        -> "returned"

limitBar == Least(limit.runner, limit.caller)
openBar  == {s \in Streams : holds[s] # {}}

\* What was taken is not returned before it is bound once more.
answerBar ==
  IF pc = "done"
  THEN [kind |-> result.kind, size |-> [s \in Streams |-> Len(result.bytes[s])]]
  ELSE [kind |-> "none", size |-> NoCount]

Promise == INSTANCE BoundedCapture WITH
  stage  <- stageBar,
  limit  <- limitBar,
  late   <- expired,
  open   <- openBar,
  sent   <- sent,
  sure   <- complete,
  answer <- answerBar

\* runBoundedProcess, then boundRunnerOutput: what a call answers is exact and
\* final under the smaller limit, or incomplete; it is incomplete if the
\* deadline had passed when the command was waited for, if someone held a
\* stream until the timer fired, and only then may more be written.
ImplementsCapture == Promise!Spec
=============================================================================
