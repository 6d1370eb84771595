SPECIFICATION FairSpec
CONSTANTS
  a = a
  b = b
  c = c
  Ops <- One
  Slots <- OneSlot
  SlotOf <- AllSlot
  Nodes <- Both
  Host <- SameHost
  Port <- TwoPorts
  LocalHost = 1
  Owners <- First
  Capacity = 2
  MaxMoves = 1
  MaxLosses = 0
  MaxOdd = 1
PROPERTY NobodyStranded
