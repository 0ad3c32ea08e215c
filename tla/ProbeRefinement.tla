--------------------------- MODULE ProbeRefinement ---------------------------
(* Probe seen as a call that keeps the promise of Run, although it starts   *)
(* its container, judges the outcome and cleans up by itself: how far each  *)
(* probe is, what its container does, and what its report says of it.       *)
EXTENDS RuntimeBackendProbe

\* A conformance run that ended well is judged by what is already known; one
\* that is cleaned up after, when its evidence is read.
Judged(p) == \/ pc[p] \in {"restore", "reported"}
             \/ pc[p] = "evidence" /\ cleanup[p] = "none"

StageOf(p) == CASE pc[p] = "idle" -> "idle"
                [] Judged(p)      -> "returned"
                [] OTHER          -> "running"

TaskOf(p) == CASE cont[p] = "never"   -> "never"
               [] cont[p] = "running" -> "alive"
               [] OTHER               -> "over"

Supported(p) == IF pc[p] = "evidence" THEN ~Refuted(p) ELSE status[p] = "supported"

VerdictOf(p) ==
  CASE ~Judged(p)                                            -> "none"
    [] Judged(p) /\ Supported(p)                             -> "success"
    [] Judged(p) /\ ~Supported(p) /\ cleanup[p] # "error"    -> "failure"
    [] OTHER                                                 -> "unclean"

stageBar   == [p \in Probes |-> StageOf(p)]
taskBar    == [p \in Probes |-> TaskOf(p)]
verdictBar == [p \in Probes |-> VerdictOf(p)]

Promise == INSTANCE SandboxPromise WITH
  Runs    <- Probes,
  stage   <- stageBar,
  late    <- expired,
  task    <- taskBar,
  code    <- exit,
  verdict <- verdictBar

\* Probe, and runtimeBackendConformance under it: a probe promises of its container what Run promises
\* of a task.  Support means that it ended by itself with status zero before
\* the deadline was last looked at, any other report that it does not run and
\* never will, unless the report says that the removal failed.
ProbeKeepsPromise == Promise!Spec
=============================================================================
