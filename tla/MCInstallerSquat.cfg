SPECIFICATION Spec
CONSTANTS
  Procs = {p1, p2}
  v1 = v1
  v2 = v2
  command = command
  library = library
  first = first
  second = second
  shared = shared
  Pins = {v1, v2}
  Payload = {command, library}
  Command = command
  Bytes = {first, second, shared}
  Build <- MCBuild
  Faults <- SquatFaults
  None = None
  Absent = Absent
  Altered = Altered
  Theirs = Theirs
  OtherManifest = OtherManifest
  Free = Free
  Stale = Stale
PROPERTIES
  ForeignRootUntouched
