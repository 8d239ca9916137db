SPECIFICATION FairSpec
CONSTANTS
  BatchSize = 4
  Concurrency = 2
  MaxHops = 2
  ValidItems = {1, 2, 4}
  Empty = Empty
CHECK_DEADLOCK FALSE
INVARIANT TypeOK
INVARIANT SlotsAccounted
INVARIANT LateIsSuffix
PROPERTY AnswersInFull
PROPERTY BatchEnds
