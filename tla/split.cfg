SPECIFICATION Spec
CONSTANTS
  a = a
  b = b
  c = c
  d = d
  Node <- Quartet
  RingIndex <- OneRing
  MaxKey = 4
  RingKey <- RankKeys
  JoinTo <- Fork
  AddrOf <- OneHost
  GroupKey <- GroupOrderB
  MaxGroups = 2
  MaxData <- NoData
  Leaver = {a}
  Talker = {}
  Prompt = FALSE
  Timely = TRUE
  NoNode = NoNode
  NoPeer = NoPeer
  NoGroup = NoGroup
INVARIANTS LocalGroupSound NeighboursInRings

CHECK_DEADLOCK FALSE
