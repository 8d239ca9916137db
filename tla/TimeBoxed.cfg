SPECIFICATION TimersSpec
CONSTANTS
  BatchSize = 2
  Concurrency = 1
  MaxHops = 1
  ValidItems = {1, 2}
  Empty = Empty
CHECK_DEADLOCK FALSE
PROPERTY ScansTimeBoxed
