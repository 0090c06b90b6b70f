SPECIFICATION Spec
CONSTANTS
  Rate = 12
  TxSamples = 5
  DmaSamples = 2
  RxSamples = 3
  Chunk = 2
  Sweeps <- MCSweeps
  CommandLines <- MCCommandLines
  MaxBuffers = 5
CHECK_DEADLOCK FALSE

INVARIANTS
  ResultsAreMeasured
  WaveContinues
  FailuresAreKnown

PROPERTIES
  SweepEnds
