SPECIFICATION Spec
CONSTANTS
  a = a
  b = b
  c = c
  d = d
  Node <- Trio
  RingIndex <- OneRing
  MaxKey = 4
  RingKey <- RankKeys
  JoinTo <- ThroughA
  AddrOf <- RankAddr
  GroupKey <- GroupOrder
  MaxGroups = 2
  MaxData <- DataFromB
  Leaver = {a, b}
  Talker = {a}
  Prompt = FALSE
  Timely = FALSE
  NoNode = NoNode
  NoPeer = NoPeer
  NoGroup = NoGroup
INVARIANTS NoForgottenJoin PeersAreMembers AddressReadable ReadyComesLast OnlyQuitsCrash GhostsAreReset NoHang
PROPERTIES GroupKept ImplementsBroadcast
CHECK_DEADLOCK FALSE
