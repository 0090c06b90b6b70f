SPECIFICATION Spec
CONSTANTS
  Documents <- MCDocuments
  Defaults <- MCDefaults
  EncDefs <- MCEncDefs
  DecDefs <- MCDecDefs
  AppDefs <- MCAppDefs
  Numbers <- MCNumbers
  CommandLines <- MCCommandLines
CHECK_DEADLOCK FALSE

INVARIANTS
  OnlyKnownDangling
  ObjectsMatchSettings

PROPERTIES
  NearestProfileWins
