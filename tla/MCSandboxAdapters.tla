--------------------------- MODULE MCSandboxAdapters ---------------------------
(* A small instance of SandboxAdapters for TLC.                            *)
EXTENDS SandboxAdapters, TLC

\* Calls are interchangeable: no action or property names one.
Symmetric == Permutations(Calls)

\* The bound of the run: a call meets another only in the files, so that one of
\* them being late, and one of them printing a digest, is enough.
OneIsLateOnePrints ==
  \A c, d \in Calls : c # d =>
    /\ ~late[c] \/ ~late[d]
    /\ marker[c] = "none" \/ marker[d] = "none"
=============================================================================
