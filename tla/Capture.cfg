SPECIFICATION CaptureSpec
CONSTANTS
  Chunk = 2
  IirA <- MCIirA
  IirB <- MCIirB
  Carrier <- MCCarrier
  DataOffset = 2
  Setups <- MCSetups
  Left = {0, 5}
  MaxSamples = 8
CHECK_DEADLOCK FALSE

INVARIANTS
  FileIsWhatWasCaptured
  ChunksAreSeamless
  FailuresAreKnown

PROPERTIES
  StopEnds
