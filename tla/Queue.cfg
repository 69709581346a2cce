SPECIFICATION Spec
CONSTANTS
  p1 = p1 p2 = p2 p3 = p3
  g1 = g1 g2 = g2
  noItem = noItem
  NoItem <- noItem
  Putters <- MCPutters
  Getters <- MCGetters
  Capacity = 2
  MaxPuts = 2
INVARIANTS TypeOK NoLostWakeup
PROPERTIES RefinesFifo AllDelivered
