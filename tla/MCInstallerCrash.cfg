SPECIFICATION Spec
CONSTANTS
  Procs = {p1, p2}
  v1 = v1
  v2 = v2
  command = command
  library = library
  first = first
  second = second
  shared = shared
  Pins = {v1, v2}
  Payload = {command}
  Command = command
  Bytes = {first, second, shared}
  Build <- MCBuild
  Faults <- CrashFaults
  None = None
  Absent = Absent
  Altered = Altered
  Theirs = Theirs
  OtherManifest = OtherManifest
  Free = Free
  Stale = Stale
INVARIANTS
  PriorCopySurvives
PROPERTIES
  ImplementsStore
  OldInstallLeavesOnlyForStaged
  OnlyUninstallOrphansRoot
  LastCopyYieldsToStaged
SYMMETRY
  Symmetric
CONSTRAINT
  NobodyExamines
