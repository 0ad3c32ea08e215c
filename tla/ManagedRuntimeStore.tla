------------------------- MODULE ManagedRuntimeStore -------------------------
(* What the managed runtime installer promises its callers, without its    *)
(* lock, its staging directories, its renames and its backup: one store    *)
(* that holds the bundle, and calls that act on it at one instant between   *)
(* their invocation and their answer, or not at all.                       *)
CONSTANTS
  Procs,   \* processes, one call at a time each
  Pins,    \* versions of the bundle
  None,    \* no version
  Lossy    \* calls may be killed, or the file system fails a rename back

Ops     == {"install", "doctor", "uninstall", "reinstall"}
Phases  == {"idle", "called", "removing", "effective", "answered"}
Answers == {"none", "done", "ok", "missing", "degraded", "error"}

\* The store is empty, or holds a directory that is not the bundle, or holds
\* a version of it whose files all are as they were installed, or are not.
Nothing       == [kind |-> "nothing", pin |-> None, sound |-> FALSE]
Unmanaged     == [kind |-> "unmanaged", pin |-> None, sound |-> FALSE]
Installed(v)  == {[kind |-> "installed", pin |-> v, sound |-> s] : s \in BOOLEAN}
Sound(v)      == [kind |-> "installed", pin |-> v, sound |-> TRUE]
Unsound(v)    == [kind |-> "installed", pin |-> v, sound |-> FALSE]

VARIABLES
  store,      \* what the bundle's name stands for
  phase,      \* how far each process's call is
  op,         \* the call
  pin,        \* the version its caller wants
  answer,     \* what it answered
  witnessed   \* it may say the version its caller wants is there

vars == <<store, phase, op, pin, answer, witnessed>>

Init ==
  /\ store \in {Nothing, Unmanaged}
  /\ phase = [p \in Procs |-> "idle"]
  /\ op = [p \in Procs |-> "install"]
  /\ pin = [p \in Procs |-> None]
  /\ answer = [p \in Procs |-> "none"]
  /\ witnessed = [p \in Procs |-> FALSE]

\* A call becomes a witness only while its version is whole in the store.
Witness ==
  /\ witnessed' \in [Procs -> BOOLEAN]
  /\ \A p \in Procs : witnessed'[p] => witnessed[p] \/ store' = Sound(pin'[p])

To(p, next) == phase' = [phase EXCEPT ![p] = next]

Replaces(p) == op[p] \in {"install", "reinstall"}

NobodyRemoves == \A q \in Procs : phase[q] # "removing"

-----------------------------------------------------------------------------
Invoke(p) ==
  /\ phase[p] = "idle"
  /\ To(p, "called")
  /\ \E o \in Ops, v \in Pins : /\ op' = [op EXCEPT ![p] = o]
                                /\ pin' = [pin EXCEPT ![p] = v]
  /\ UNCHANGED <<store, answer>>
  /\ Witness

\* The instant of an install: what was there is gone and the new version is
\* there whole.  It is the one instant at which an examination that began
\* before may mix the files of two versions.
Replace(p) ==
  /\ phase[p] = "called" /\ Replaces(p)
  /\ store # Unmanaged /\ NobodyRemoves
  /\ store' = Sound(pin[p])
  /\ To(p, "effective")
  /\ UNCHANGED <<op, pin, answer>>
  /\ witnessed' \in [Procs -> BOOLEAN]

\* The old version is lost before the new one is there.
Lose(p) ==
  /\ Lossy
  /\ phase[p] = "called" /\ Replaces(p)
  /\ store # Unmanaged /\ NobodyRemoves
  /\ store' = Nothing
  /\ UNCHANGED <<phase, op, pin, answer>>
  /\ Witness

BeginRemoval(p) ==
  /\ phase[p] = "called" /\ op[p] = "uninstall"
  /\ store # Unmanaged /\ NobodyRemoves
  /\ To(p, IF store = Nothing THEN "effective" ELSE "removing")
  /\ UNCHANGED <<store, op, pin, answer>>
  /\ Witness

\* A removal takes time: the version is damaged, then no longer recognized.
Dismantle(p) ==
  /\ phase[p] = "removing"
  /\ \/ \E v \in Pins : store \in Installed(v) /\ store' = Unsound(v)
     \/ store' = Unmanaged
  /\ UNCHANGED <<phase, op, pin, answer>>
  /\ Witness

FinishRemoval(p) ==
  /\ phase[p] = "removing"
  /\ store' = Nothing
  /\ To(p, "effective")
  /\ UNCHANGED <<op, pin, answer>>
  /\ Witness

AbandonRemoval(p) ==
  /\ phase[p] = "removing"
  /\ To(p, "called")
  /\ UNCHANGED <<store, op, pin, answer>>
  /\ Witness

\* What a call may say: "done" only if it took effect, a failure only if it
\* did not, and "ok" only if its caller's version was whole.
Truthful(p, a) ==
  CASE a = "done"  -> op[p] \in {"install", "uninstall"} /\ phase[p] = "effective"
    [] a = "error" -> op[p] = "reinstall" \/ phase[p] = "called"
    [] OTHER       -> /\ \/ op[p] = "doctor"
                         \/ op[p] = "reinstall" /\ phase[p] = "effective"
                      /\ a = "ok" => witnessed[p]

Answer(p) ==
  /\ phase[p] \in {"called", "effective"}
  /\ \E a \in Answers \ {"none"} :
       /\ Truthful(p, a)
       /\ answer' = [answer EXCEPT ![p] = a]
  /\ To(p, "answered")
  /\ UNCHANGED <<store, op, pin>>
  /\ Witness

Forget(p) ==
  /\ To(p, "idle")
  /\ op' = [op EXCEPT ![p] = "install"]
  /\ pin' = [pin EXCEPT ![p] = None]
  /\ answer' = [answer EXCEPT ![p] = "none"]

Return(p) ==
  /\ phase[p] = "answered"
  /\ Forget(p)
  /\ UNCHANGED store
  /\ Witness

\* A killed call has had its effect or never will; a replacement may have
\* lost what it replaces.
Kill(p) ==
  /\ Lossy
  /\ phase[p] # "idle"
  /\ \/ UNCHANGED store
     \/ phase[p] = "called" /\ Replaces(p) /\ store # Unmanaged /\ store' = Nothing
  /\ Forget(p)
  /\ Witness

\* Someone else changes an installed file.
Damage ==
  /\ \E v \in Pins : store \in Installed(v) /\ store' = Unsound(v)
  /\ UNCHANGED <<phase, op, pin, answer>>
  /\ Witness

\* A process looks at the store.
Look ==
  /\ UNCHANGED <<store, phase, op, pin, answer>>
  /\ Witness

Next ==
  \/ Look
  \/ \E p \in Procs :
       \/ Invoke(p) \/ Replace(p) \/ Lose(p)
       \/ BeginRemoval(p) \/ Dismantle(p) \/ FinishRemoval(p) \/ AbandonRemoval(p)
       \/ Answer(p) \/ Return(p) \/ Kill(p)
  \/ Damage

Spec == Init /\ [][Next]_vars
=============================================================================
