---------------------------- MODULE SandboxPromise ----------------------------
(* What a call of Run promises those who call it, without names, labels,    *)
(* inspections, pipes and clean-up: a task that starts at most once, and a   *)
(* verdict that says what has become of it.                                  *)
CONSTANT Runs   \* calls of Run

VARIABLES
  stage,    \* how far each call is
  late,     \* its deadline has passed
  task,     \* its task in the engine
  code,     \* how the task ended
  verdict   \* what the call says

promise == <<stage, late, task, code, verdict>>

Stages   == {"idle", "running", "returned"}
Verdicts == {"none", "success", "failure", "unclean"}

PromiseTypes ==
  /\ stage \in [Runs -> Stages]
  /\ late \in [Runs -> BOOLEAN]
  /\ task \in [Runs -> {"never", "alive", "over"}]
  /\ code \in [Runs -> {"none", "zero", "other"}]
  /\ verdict \in [Runs -> Verdicts]

Init ==
  /\ stage = [r \in Runs |-> "idle"]
  /\ late = [r \in Runs |-> FALSE]
  /\ task = [r \in Runs |-> "never"]
  /\ code = [r \in Runs |-> "none"]
  /\ verdict = [r \in Runs |-> "none"]

\* "failure" and "success" promise that nothing of the call runs, or ever
\* will; after "unclean" the caller knows nothing.
Closed(r) == verdict[r] \in {"success", "failure"}

Warranted(r, v) ==
  /\ v = "success" => ~late[r] /\ task[r] = "over" /\ code[r] = "zero"
  /\ v = "failure" => task[r] # "alive"

-----------------------------------------------------------------------------
\* isLate: the call is made with a context that is done.
Call(r, isLate) ==
  /\ stage[r] = "idle"
  /\ stage' = [stage EXCEPT ![r] = "running"]
  /\ late' = [late EXCEPT ![r] = isLate]
  /\ UNCHANGED <<task, code, verdict>>

Expire(r) ==
  /\ stage[r] # "idle"
  /\ late' = [late EXCEPT ![r] = TRUE]
  /\ UNCHANGED <<stage, task, code, verdict>>

\* The engine starts the task when it likes, unless the call is closed.
TaskStarts(r) ==
  /\ stage[r] # "idle" /\ task[r] = "never" /\ ~Closed(r)
  /\ task' = [task EXCEPT ![r] = "alive"]
  /\ UNCHANGED <<stage, late, code, verdict>>

\* A task that is killed has no code.
TaskEnds(r) ==
  /\ task[r] = "alive"
  /\ task' = [task EXCEPT ![r] = "over"]
  /\ \E c \in {"none", "zero", "other"} : code' = [code EXCEPT ![r] = c]
  /\ UNCHANGED <<stage, late, verdict>>

\* The last look at the deadline has been taken.
Return(r) ==
  /\ stage[r] = "running"
  /\ stage' = [stage EXCEPT ![r] = "returned"]
  /\ \E v \in Verdicts \ {"none"} : /\ Warranted(r, v)
                                    /\ verdict' = [verdict EXCEPT ![r] = v]
  /\ UNCHANGED <<late, task, code>>

Next ==
  \E r \in Runs :
    \/ \E isLate \in BOOLEAN : Call(r, isLate)
    \/ Expire(r) \/ TaskStarts(r) \/ TaskEnds(r)
    \/ Return(r)

Spec == Init /\ [][Next]_promise
=============================================================================
