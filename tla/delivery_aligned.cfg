SPECIFICATION DeliverySpec
CONSTANTS
  a = a
  b = b
  c = c
  d = d
  Node <- Trio
  RingIndex <- OneRing
  MaxKey = 4
  RingKey <- RankKeys
  JoinTo <- ThroughA
  AddrOf <- RankAddr
  GroupKey <- GroupOrder
  MaxGroups = 1
  MaxData <- DataFromAB
  Leaver = {}
  Talker = {}
  Prompt = TRUE
  Timely = TRUE
  NoNode = NoNode
  NoPeer = NoPeer
  NoGroup = NoGroup
INVARIANTS DataReachesMembers

CHECK_DEADLOCK FALSE
