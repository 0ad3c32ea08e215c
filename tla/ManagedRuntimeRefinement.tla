----------------------- MODULE ManagedRuntimeRefinement -----------------------
(* The installer seen as the store it promises: which directory the name    *)
(* of the bundle stands for at each instant, and how far each call is.      *)
EXTENDS ManagedRuntimeInstaller

\* Between the two renames of a promotion the copy set aside is the install.
Swapping(p) == pc[p] \in {"swapIn", "rollback"} /\ hadExisting[p]

Visible == IF \E p \in Procs : Swapping(p) THEN backup ELSE root

StoreOf(dir) ==
  IF dir = Absent
  THEN [kind |-> "nothing", pin |-> None, sound |-> FALSE]
  ELSE IF Managed(dir)
       THEN [kind |-> "installed", pin |-> dir.manifest.pin,
             sound |-> dir = Whole(dir.manifest.pin)]
       ELSE [kind |-> "unmanaged", pin |-> None, sound |-> FALSE]

\* A call has taken effect: it has swapped its stage in, or removed the root,
\* or found nothing to remove.
Effective(p) ==
  \/ pc[p] = "dropBackup"
  \/ pc[p] = "unlock" /\ outcome[p] # "error"
  \/ pc[p] \in Examining /\ op[p] = "reinstall"

PhaseOf(p) ==
  CASE pc[p] = "idle"     -> "idle"
    [] pc[p] = "returned" -> "answered"
    [] pc[p] = "removing" -> "removing"
    [] Effective(p)       -> "effective"
    [] OTHER              -> "called"

storeBar  == StoreOf(Visible)
phaseBar  == [p \in Procs |-> PhaseOf(p)]
answerBar == [p \in Procs |-> IF pc[p] = "returned" THEN outcome[p] ELSE "none"]

Store == INSTANCE ManagedRuntimeStore WITH
  Lossy     <- Faults \cap {"crash", "rollback"} # {},
  store     <- storeBar,
  phase     <- phaseBar,
  answer    <- answerBar,
  witnessed <- sawIntact

\* Every behaviour of the installer is one of the store: a call answered with
\* success took effect at one instant since it was made, a failed install
\* never did, and no other call or failure shows through.
ImplementsStore == Store!Spec
=============================================================================
