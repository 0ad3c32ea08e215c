SPECIFICATION FairSpec
CONSTANTS
  Runs = {r1}
  Strangers = {s1}
  Workspaces = {w1}
  Outside = {}
  Links <- MCLinks
  Special = {}
  None = None
INVARIANTS
  TypeOK
  NoUnreportedContainer
  TaskExitCodeSurvives
PROPERTIES
  OnlyOwnerRemoves
  LateCallFails
  EveryRunReturns
PROPERTY KeepsPromise
