SPECIFICATION Spec
CONSTANTS
  a = a
  b = b
  c = c
  hello = hello
  secret = secret
  photo = photo
  torn = torn
  Node = {a, b}
  Text = {secret}
  Image = {photo, torn}
  Torn = torn
  Burn = {secret}
  Talk <- TalkMixed
  MaxSeq = 2
  MaxSend = 1
  Ops = {"lose", "fail", "destroy"}
  None = None
PROPERTIES
  NothingResurrected
  RecordsAreStable
CHECK_DEADLOCK FALSE
