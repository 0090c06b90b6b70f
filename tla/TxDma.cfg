SPECIFICATION FairSpec
CONSTANTS
  Gens = 5
  Processes = 2

INVARIANTS
  FillAvoidsBufferInDma
  ChannelIsAccountedFor

PROPERTIES
  StopCompletes
