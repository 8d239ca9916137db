SPECIFICATION SpecF
CONSTANTS
  Absent = Absent
  NoContent = NoContent
  MaxRedirects = 1
  MaxPages = 3
  Releases <- JustSeed
  Home <- MCHome
  Sites <- DottedSites
  Today = 20260901
  MaxLoads = 1
  Reviewers = {}
  MaxReviews = 0
  MaxLoadsReviewed = 0
CHECK_DEADLOCK FALSE
INVARIANT NoFalseAlarm
