SPECIFICATION FairSpec
CONSTANTS
  Root = "a"
  Children <- TwoChildren
  Cancellers <- TwoCancellers
  MaxOps = 3
  NoOne = "nobody"
INVARIANTS TypeOK HookedIsPath NobodyMissed RefusedForCause
PROPERTIES Sticky CancelsItsOwn CancelledEnds
CHECK_DEADLOCK FALSE
