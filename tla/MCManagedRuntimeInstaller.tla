---------------------- MODULE MCManagedRuntimeInstaller ----------------------
(* Small instances of ManagedRuntimeInstaller for TLC: two versions of the  *)
(* bundle that have the library in common.                                  *)
EXTENDS ManagedRuntimeRefinement, TLC

CONSTANTS v1, v2, command, library, first, second, shared

MCBuild == [v \in Pins |-> [f \in Payload |->
              CASE f = command -> IF v = v1 THEN first ELSE second
                [] f = library -> shared]]

\* The artifact of the second version does not ship the command.
MCBareBuild == [v \in Pins |-> [f \in Payload |-> IF v = v1 THEN first ELSE None]]

\* Processes are interchangeable: no action or property names one.
Symmetric == Permutations(Procs)

\* The bound of the crash run: an examination is not followed.  It holds no lock
\* and writes nothing, so a kill or a failing rename does the same without it.
NobodyExamines == \A p \in Procs : pc[p] \notin Examining

\* The environment of each run.
NoFaults     == {}
CallFaults   == {"reject", "source", "stage", "rename", "tamper"}
CrashFaults  == {"rename", "rollback", "removal", "uninstall", "crash"}
SquatFaults  == {"squat"}
ReturnFaults == {"source", "stage", "rename", "rollback", "uninstall", "squat",
                 "crash"}
=============================================================================
