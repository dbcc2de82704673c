SPECIFICATION FairSpec
CONSTANTS
  a = a
  b = b
  c = c
  d = d
  Node <- Quartet
  RingIndex <- TwoRings
  MaxKey = 4
  RingKey <- MixedKeys
  MaxSent <- ThriceA
  MaxTime = 2
INVARIANTS InOrder Accounted PredecessorsCleared
PROPERTIES Reached
CHECK_DEADLOCK FALSE
