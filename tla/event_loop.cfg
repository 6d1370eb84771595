SPECIFICATION FairSpec
CONSTANTS
  Local <- OneLocal
  Foreign <- OneForeign
  SqEntries = 3
  NumBatch = 3
  Ticker = TRUE
INVARIANTS TypeOK WakeupOnItsWay OneOperationEach
PROPERTY EveryCommandAnswered
