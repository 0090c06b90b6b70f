SPECIFICATION FairSpec
CONSTANTS
  Callbacks = {t1, t2}
  Overlapping = {t1}
CHECK_DEADLOCK FALSE

INVARIANTS
  AllOrNothing
  NoAssertionFails

PROPERTIES
  TimeoutDeactivates
