SPECIFICATION FairSpec
CONSTANTS
  Limits <- BothLimits
  Supply = 3
  Capacity = 2
INVARIANTS
  TypeOK
  CompleteIsExact
  ReturnsStreamEnds
PROPERTIES
  NoLateBytes
  WritersNeverBlock
  EveryCaptureReturns
  ImplementsCapture
