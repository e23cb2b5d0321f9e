SPECIFICATION FairSpec
CONSTANTS
  MaxInit = 2
  Closer = {c}
  Worlds <- InitWorlds
  None = None
INVARIANTS
  NoOrphan
  AwaitIsAnswered
PROPERTIES
  ImplementsClientLife
  InitReturns
  StoppedEnds
  ComesBack
CHECK_DEADLOCK FALSE
