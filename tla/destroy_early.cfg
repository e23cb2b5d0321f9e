SPECIFICATION Spec
CONSTANTS
  p = p
  Peer = {p}
  Ttl = {0, 2, 3}
  Horizon = 4
  MaxId = 2
  Period = 3
  None = None
PROPERTIES
  ValidUntil
CHECK_DEADLOCK FALSE
