SPECIFICATION SpecF
CONSTANTS
  Absent = Absent
  NoContent = NoContent
  MaxRedirects = 1
  MaxPages = 3
  Releases <- MCReleases
  Home <- MCHome
  Sites <- MCSites
  Today = 20260901
  MaxLoads = 2
  Reviewers = {"r1", "r2"}
  MaxReviews = 2
  MaxLoadsReviewed = 1
CHECK_DEADLOCK FALSE
INVARIANT TypeOK
INVARIANT WrongFigureFails
INVARIANT NoFalseAlarm
INVARIANT FindingsAttributed
INVARIANT LoadConverges
INVARIANT RulingsKept
