SPECIFICATION Spec
CONSTANTS
  a = a
  b = b
  c = c
  d = d
  Node <- Trio
  RingIndex <- OneRing
  MaxKey = 4
  RingKey <- RankKeys
  JoinTo <- Chain
  AddrOf <- RankAddr
  GroupKey <- GroupOrder
  MaxGroups = 2
  MaxData <- NoData
  Leaver = {}
  Talker = {}
  Prompt = TRUE
  Timely = TRUE
  NoNode = NoNode
  NoPeer = NoPeer
  NoGroup = NoGroup
PROPERTIES GroupKept
CHECK_DEADLOCK FALSE
