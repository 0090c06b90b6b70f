SPECIFICATION Spec
CONSTANTS
  SpiDevices = {"spi1.0"}
  Openers = {"cape", "other"}
  MaxProbes = 1
  NSpiMinors = 2
  Bufsiz = 8
  Versions = {1}
  Boards = {"afe031", "other revision", "absent", "emulated"}
  Settings <- MCSettings
  FlagPins <- MCFlagPins
  Frames = 2
  Periods = {1, 2}
  MaxSamples = 4
  MaxInits = 2
  MaxEvents = 2
CHECK_DEADLOCK FALSE

INVARIANTS
  SpidevLifetimes
  ChipAgrees
  FlagsFollowPins
  FailuresAreKnown
  SentInOrder
