SPECIFICATION Spec
CONSTANTS
  loop = loop
  probe = probe
  run = run
  me = me
  bob = bob
  carol = carol
  Caller = {run, loop, probe}
  Peer = {me, bob, carol}
  Local = me
  Saves <- AllSaves
  Width = 2
  Ops = {"lose", "fail", "restart"}
  None = None
SYMMETRY Alike
INVARIANTS
  TypeOK
  OwnAddress
PROPERTIES
  RecordsAreCompleted
CHECK_DEADLOCK FALSE
