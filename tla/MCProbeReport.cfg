SPECIFICATION FairSpec
CONSTANTS
  Probes = {p1}
  Versions = {v1, v2}
  Pinned = v1
  None = None
INVARIANTS
  TypeOK
  SupportedIsEarned
PROPERTIES
  ProbeKeepsPromise
  LateProbeIsRefused
  EveryProbeReports
