SPECIFICATION FairSpec
CONSTANTS
  off = off
  direct = direct
  MaxSession = 2
  MaxClient = 2
  Status = {off, direct}
  Off = off
  Worlds <- AllWorlds
  None = None
INVARIANTS
  LatestStatus
  LoopIsServed
  OneSession
  WaitsForStopped
PROPERTIES
  OpenReturns
  CloseReturns
  SessionIsProbed
  HaltedEnds
CHECK_DEADLOCK FALSE
