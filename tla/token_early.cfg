SPECIFICATION Spec
CONSTANTS
  a = a
  b = b
  c = c
  d = d
  Node <- Quartet
  RingIndex <- OneRing
  MaxKey = 4
  RingKey <- RankKeys
  JoinTo <- ThroughA
  AddrOf <- RankAddr
  GroupKey <- GroupOrder
  MaxGroups = 1
  MaxData <- NoData
  Leaver = {}
  Talker = {}
  Prompt = TRUE
  Timely = TRUE
  NoNode = NoNode
  NoPeer = NoPeer
  NoGroup = NoGroup
INVARIANTS TokenHeldDuringJoin

CHECK_DEADLOCK FALSE
