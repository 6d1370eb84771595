SPECIFICATION FairSpec
CONSTANTS
  Ops <- Two
  Nested <- OnlyA
  Capacity = 2
  CommitBatch = 2
  Endings <- Both
  MaxLosses = 1
  MaxFailures = 2
  MaxTears = 1
INVARIANTS TypeOK RepliesMatch PayloadsAlive SentOnceInOrder NoLostWakeup DeletedAfterDrain
PROPERTIES SettledOnce EveryCommandSettles LettingGoEnds
