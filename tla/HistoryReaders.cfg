SPECIFICATION SpecR
CONSTANTS
  Absent = Absent
  NoContent = NoContent
  Unseen = Unseen
  Crons = {"cron"}
  Requests = {}
  Domains = {"shop", "blog"}
  Monitored <- Both
  Sightings <- UpOrDown
  Webhook = TRUE
  Faults = {"storage", "webhook"}
  Horizon = 1
  MaxVersion = 2
  MaxInvocations = 2
  AskedLimit = 1
  DefaultLimit = 10
  MaxLimit = 100
CHECK_DEADLOCK FALSE
INVARIANT ChangesGrounded
INVARIANT PagesComplete
INVARIANT ReportCurrent
PROPERTY EveryDomainScanned
