SPECIFICATION SpecA
CONSTANTS
  Absent = Absent
  NoContent = NoContent
  Unseen = Unseen
  Crons = {"cron"}
  Requests = {"request"}
  Domains = {"shop"}
  Monitored <- JustOne
  Sightings <- TwoSights
  Webhook = TRUE
  Faults = {}
  Horizon = 2
  MaxVersion = 1
  MaxInvocations = 3
CHECK_DEADLOCK FALSE
INVARIANT MonitoredChangesAlert
