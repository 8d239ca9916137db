SPECIFICATION SpecA
CONSTANTS
  Absent = Absent
  NoContent = NoContent
  Unseen = Unseen
  Crons = {"cron"}
  Requests = {"request"}
  Domains = {"shop"}
  Monitored <- JustOne
  Sightings <- TwoSights
  Webhook = TRUE
  Faults = {"storage", "webhook", "eviction"}
  Horizon = 2
  MaxVersion = 2
  MaxInvocations = 3
CHECK_DEADLOCK FALSE
INVARIANT TypeOK
INVARIANT ChangesAreSteps
INVARIANT AlertsMatch
INVARIANT ToldOfChanges
INVARIANT ChainComplete
INVARIANT CronAlerts
