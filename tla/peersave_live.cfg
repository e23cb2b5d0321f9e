SPECIFICATION FairSpec
CONSTANTS
  loop = loop
  probe = probe
  run = run
  me = me
  bob = bob
  carol = carol
  Caller = {run, loop, probe}
  Peer = {me, bob}
  Local = me
  Saves <- BobSaves
  Width = 2
  Ops = {"lose", "fail", "restart", "linger"}
  None = None
INVARIANTS
  OneSaver
  SavedIsComplete
PROPERTIES
  SaveReturns
CHECK_DEADLOCK FALSE
