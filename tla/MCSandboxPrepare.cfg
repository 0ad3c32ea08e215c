SPECIFICATION Spec
CONSTANTS
  Runs = {r1}
  Strangers = {}
  Workspaces = {w1}
  Outside = {}
  Links <- MCLinks
  Special = {}
  None = None
INVARIANTS
  RestoredWhenPrepareFails
