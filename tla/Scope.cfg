SPECIFICATION ScopeSpec
CONSTANTS
  Parts = 4
  DefaultViewer = 2
  DefaultTime = 1
  DefaultRange = 1
  Ticks = 4
  RingSize = 3
  DefaultInterval = 4
  DefaultRate = 2
  Files <- MCFiles
  Preferences <- MCPreferences
  Positions <- MCPositions
  Ranges = {1, 2}
  Widths <- MCWidths
  Budgets <- MCBudgets
CHECK_DEADLOCK FALSE

INVARIANTS
  ViewerInBuffer
  OnlyKnownOverreads
  SeamsAreKnown
  FailuresAreKnown
