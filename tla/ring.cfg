SPECIFICATION Spec
CONSTANTS
  a = a
  b = b
  c = c
  d = d
  e = e
  Node <- Five
  RingIndex <- Orders
  MaxKey = 5
  RingKey <- OrderKeys
  Kind = {"called", "caller"}
INVARIANTS Inverse OneCycle
PROPERTIES OnlyNeighboursMove
