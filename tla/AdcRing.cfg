SPECIFICATION Spec
CONSTANTS
  N = 4
  Depth = 3
  Threshold = 2
  MaxCount = 5
  MaxSamples = 9

INVARIANTS
  ReadStaysInBounds

PROPERTIES
  ReportedUnlessAtEnd
  ImplementsChannel
