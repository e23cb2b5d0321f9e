SPECIFICATION Spec
CONSTANTS
  a = a
  b = b
  c = c
  hello = hello
  secret = secret
  photo = photo
  torn = torn
  Node = {a, b, c}
  Text = {hello}
  Image = {}
  Torn = torn
  Burn = {}
  Talk <- TalkTwoPeers
  MaxSeq = 1
  MaxSend = 1
  Ops = {"age"}
  None = None
INVARIANTS
  ReachedMeansDelivered
CHECK_DEADLOCK FALSE
