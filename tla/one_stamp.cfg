SPECIFICATION Spec
CONSTANTS
  a = a
  b = b
  c = c
  d = d
  Node <- Pair
  RingIndex <- OneRing
  MaxKey = 4
  RingKey <- MixedKeys
  MaxSent <- TwiceA
  MaxTime = 1
INVARIANTS EveryMessageReached
CHECK_DEADLOCK FALSE
