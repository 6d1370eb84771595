SPECIFICATION Spec
CONSTANTS
  Root = "a"
  Children <- TwoChildren
  Cancellers <- TwoCancellers
  MaxOps = 3
  NoOne = "nobody"
INVARIANT RefusedOnlyIfCancelled
CHECK_DEADLOCK FALSE
