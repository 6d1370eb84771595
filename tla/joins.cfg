SPECIFICATION FairSpec
CONSTANTS
  N = 3
  Kinds <- AllKinds
  Tasks <- OneTask
  Commands <- OneCommand
INVARIANTS TypeOK ResumedOnce LetGo Verdict
PROPERTIES Settles
CHECK_DEADLOCK FALSE
