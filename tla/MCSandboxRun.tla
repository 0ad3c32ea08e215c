---------------------------- MODULE MCSandboxRun ----------------------------
(* Small instances of SandboxRun for TLC.                                  *)
EXTENDS SandboxRefinement, TLC

\* Every workspace has a symbolic link to each path outside; none leads back.
MCLinks == [w \in Workspaces |-> Outside]

\* Calls are interchangeable: no action or property names one.
Symmetric == Permutations(Runs)

\* The bound of the run with two calls: one of them starts its CLI, the other
\* fails to.  The engine never touches the host, whose state that run is about.
OneLaunches == \A r, o \in Runs : ticket[r] # "none" /\ ticket[o] # "none" => r = o
=============================================================================
