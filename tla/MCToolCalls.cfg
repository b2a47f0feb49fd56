SPECIFICATION FairSpec
CONSTANTS
  Calls = 4
  MaxParallel = 2
INVARIANTS ModelOrder ExclusiveAlone ReturnAnswersAll FailureDrains
PROPERTIES BatchEnds
CHECK_DEADLOCK FALSE
