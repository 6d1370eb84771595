SPECIFICATION FairSpec
CONSTANTS
  Producers = {p1, p2}
  p1 = p1
  p2 = p2
  Capacity = 2
  MaxBatch = 2
  CommitBatch = 2
  MaxOps = 2
  MaxResets = 1
  Nothing = Nothing
INVARIANTS TypeOK CountersOrdered ClaimsPartition OccupancyBound WaitersAreLive RepliesMatch
PROPERTIES ResumedOnce ImplementsQueue PushReturns DrainCompletes
