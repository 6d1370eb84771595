SPECIFICATION FairSpec
CONSTANTS
  a = a
  b = b
  c = c
  Ops <- One
  Slots <- OneSlot
  SlotOf <- AllSlot
  Nodes <- Both
  Host <- TwoHosts
  Port <- SamePort
  LocalHost = 99
  Owners <- First
  Capacity = 2
  MaxMoves = 0
  MaxLosses = 0
  MaxOdd = 0
PROPERTY EverySettles
