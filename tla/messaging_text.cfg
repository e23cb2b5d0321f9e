SPECIFICATION Spec
CONSTANTS
  a = a
  b = b
  c = c
  hello = hello
  secret = secret
  photo = photo
  torn = torn
  Node = {a, b}
  Text = {hello}
  Image = {}
  Torn = torn
  Burn = {}
  Talk <- TalkBoth
  MaxSeq = 2
  MaxSend = 1
  Ops = {"lose", "fail", "age", "restart"}
  None = None
SYMMETRY Alike
INVARIANTS
  TypeOK
  ReachedTextDelivered
  FreshStaysPending
  TextInv
PROPERTIES
  ImplementsDelivery
CHECK_DEADLOCK FALSE
