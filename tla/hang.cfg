SPECIFICATION Spec
CONSTANTS
  a = a
  b = b
  c = c
  d = d
  Node <- Quartet
  RingIndex <- OneRing
  MaxKey = 4
  RingKey <- RankKeys
  JoinTo <- Fork
  AddrOf <- RankAddr
  GroupKey <- GroupOrderB
  MaxGroups = 2
  MaxData <- NoData
  Leaver = {a}
  Talker = {}
  Prompt = TRUE
  Timely = TRUE
  NoNode = NoNode
  NoPeer = NoPeer
  NoGroup = NoGroup
INVARIANTS NoHang

CHECK_DEADLOCK FALSE
