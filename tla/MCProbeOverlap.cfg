SPECIFICATION Spec
CONSTANTS
  Probes = {p1, p2}
  Versions = {v1}
  Pinned = v1
  None = None
SYMMETRY Symmetric
INVARIANTS
  WorkspaceRestored
CONSTRAINT
  OneLaunches
