SPECIFICATION Spec
CONSTANTS
  Calls = {c1, c2}
  Artifacts = {0}
  None = None
SYMMETRY Symmetric
INVARIANTS
  TypeOK
  HashedAsTaskLeft
  DigestIsAccountedFor
  LateRunNamesTheLimit
PROPERTIES
  SuccessIsFinal
CONSTRAINT
  OneIsLateOnePrints
