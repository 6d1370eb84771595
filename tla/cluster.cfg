SPECIFICATION FairSpec
CONSTANTS
  a = a
  b = b
  c = c
  Ops <- Three
  Slots <- OneSlot
  SlotOf <- AllSlot
  Nodes <- Both
  Host <- SameHost
  Port <- TwoPorts
  LocalHost = 1
  Owners <- First
  Capacity = 2
  MaxMoves = 1
  MaxLosses = 1
  MaxOdd = 1
INVARIANTS TypeOK OneHome RepliesMatch ExecutedOnce
PROPERTY EverySettles
