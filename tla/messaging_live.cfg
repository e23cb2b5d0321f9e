SPECIFICATION FairSpec
CONSTANTS
  a = a
  b = b
  c = c
  hello = hello
  secret = secret
  photo = photo
  torn = torn
  Node = {a, b}
  Text = {hello}
  Image = {photo, torn}
  Torn = torn
  Burn = {}
  Talk <- TalkAny
  MaxSeq = 2
  MaxSend = 1
  Ops = {"lose", "age", "restart"}
  None = None
PROPERTIES
  EventuallySettled
CHECK_DEADLOCK FALSE
