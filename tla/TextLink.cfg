SPECIFICATION Spec
CONSTANTS
  GuardBits = 32
  GuardSamples = 1000
  IndexRange = 16
  MorseCode <- MCMorseCode
  Setups <- MCSetups
  Stride = 7

INVARIANTS
  TextIsMessage
  EveryCharacterArrives
