SPECIFICATION AsyncFairSpec
CONSTANTS
  BuffersCount = 2
  Gens = 5

INVARIANTS
  NotTornInTime

PROPERTIES
  SentInTurn
  StopCompletes
  Recovers
