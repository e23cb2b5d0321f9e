SPECIFICATION FairSpec
CONSTANTS
  alice = alice
  bob = bob
  notifee = notifee
  Node = {1, 2}
  User <- TwoUsers
  Home <- TwoHomes
  Peer <- TwoPeers
  Frames <- TwoFrames
  MaxStream = 3
  MaxCall = 1
  Capacity = 2
  Frail = {1, 2}
  Chunk = 4096
  Worlds <- TwoWorlds
  None = None
INVARIANTS
  TypeOK
  CachedIsRead
  RetryIsAfresh
  FramesWhole
  Agreement
  PeersInv
PROPERTIES
  OnlyFailedLeaves
  WritesAreRead
CHECK_DEADLOCK FALSE
