------------------------- MODULE MCRuntimeBackendProbe -------------------------
(* Small instances of RuntimeBackendProbe for TLC.                         *)
EXTENDS ProbeRefinement, TLC

\* Probes are interchangeable: no action or property names one.
Symmetric == Permutations(Probes)

\* The bound of the run with two probes: one of them starts its CLI, the other
\* fails to.  The engine never touches the workspace, which that run is about.
OneLaunches == \A p, o \in Probes : ticket[p] # "none" /\ ticket[o] # "none" => p = o
=============================================================================
