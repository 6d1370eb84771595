SPECIFICATION FairSpec
CONSTANTS
  Ops <- One
  Nested <- NoOps
  Capacity = 1
  CommitBatch = 1
  Endings <- Close1
  MaxLosses = 0
  MaxFailures = 0
  MaxTears = 0
PROPERTIES ClosingEnds
