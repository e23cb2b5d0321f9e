SPECIFICATION Spec
CONSTANTS
  a = a
  b = b
  c = c
  hello = hello
  secret = secret
  photo = photo
  torn = torn
  Node = {a, b}
  Text = {}
  Image = {photo, torn}
  Torn = torn
  Burn = {}
  Talk <- TalkImage
  MaxSeq = 2
  MaxSend = 1
  Ops = {"lose", "fail", "stall", "delete", "flush", "restart"}
  None = None
INVARIANTS
  RegisteredIsAwaited
PROPERTIES
  NothingResurrected
  
CHECK_DEADLOCK FALSE
