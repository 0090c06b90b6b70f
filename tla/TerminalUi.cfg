SPECIFICATION FairSpec
CONSTANT MaxPanels = 3
CHECK_DEADLOCK FALSE

INVARIANTS
  OnlyActionsDrawUnlocked

PROPERTIES
  KeysAreServed
  SignalAtRestEnds
