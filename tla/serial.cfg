SPECIFICATION FairSpec
CONSTANTS
  a = a
  b = b
  c = c
  d = d
  Node <- Quartet
  RingIndex <- OneRing
  MaxKey = 4
  RingKey <- RankKeys
  JoinTo <- ThroughA
  AddrOf <- RankAddr
  GroupKey <- GroupOrder
  MaxGroups = 2
  MaxData <- NoData
  Leaver = {}
  Talker = {}
  Prompt = TRUE
  Timely = TRUE
  NoNode = NoNode
  NoPeer = NoPeer
  NoGroup = NoGroup
INVARIANTS NoCrash OneGroup NeighboursFresh ViewsAgree NeighboursAgree TokenReleased
PROPERTIES JoinCompletes
CHECK_DEADLOCK FALSE
