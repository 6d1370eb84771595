SPECIFICATION FairSpec
CONSTANTS
  Local <- OneLocal
  Foreign <- OneForeign
  SqEntries = 4
  NumBatch = 1
  Ticker = FALSE
PROPERTY EveryCommandAnswered
