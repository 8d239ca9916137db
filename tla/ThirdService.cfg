SPECIFICATION FairSpec
CONSTANTS
  Services = {"sitehealth", "vat-api", "third"}
  Roots = {"t1"}
  Submitted <- OneTx
  Tasks = {"audit"}
  TaskMap <- ThreeTaskMap
  Allowlist = {"sitehealth", "vat-api", "third"}
  PriceCents <- ThreePrice
  PerTxCents = 100
  PerServiceCents <- ThreePerService
  DailyCents = 500
  MonthlyCents = 5000
  MaxPaymentRetries = 0
  MaxServiceRetries = 1
  DayLength = 2
  MonthLength = 4
  Horizon = 0
  MaxRuns = 1
INVARIANT FallbacksBounded
PROPERTY Terminates
