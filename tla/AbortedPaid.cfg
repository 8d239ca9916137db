SPECIFICATION Spec
CONSTANTS
  Services = {"sitehealth", "vat-api"}
  Roots = {"t1", "t2"}
  Submitted <- OneTx
  Tasks = {"security", "compliance"}
  TaskMap <- A1TaskMap
  Allowlist = {"sitehealth", "vat-api"}
  PriceCents <- MixedPrice
  PerTxCents = 100
  PerServiceCents <- A1PerService
  DailyCents = 2
  MonthlyCents = 4
  MaxPaymentRetries = 0
  MaxServiceRetries = 0
  DayLength = 1
  MonthLength = 2
  Horizon = 2
  MaxRuns = 1
INVARIANT AbortedNeverPaid
