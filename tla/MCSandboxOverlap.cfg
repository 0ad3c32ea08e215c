SPECIFICATION Spec
CONSTANTS
  Runs = {r1, r2}
  Strangers = {}
  Workspaces = {w1}
  Outside = {f1}
  Links <- MCLinks
  Special = {w1}
  None = None
INVARIANTS
  HostRestored
SYMMETRY
  Symmetric
CONSTRAINT
  OneLaunches
