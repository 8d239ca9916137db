SPECIFICATION Spec
CONSTANTS
  Services = {"sitehealth", "vat-api"}
  Roots = {"t1"}
  Submitted <- AltIds
  Tasks = {"security", "compliance", "admin"}
  TaskMap <- A1TaskMap
  Allowlist = {"sitehealth", "vat-api"}
  PriceCents <- MixedPrice
  PerTxCents = 100
  PerServiceCents <- A1PerService
  DailyCents = 3
  MonthlyCents = 4
  MaxPaymentRetries = 1
  MaxServiceRetries = 0
  DayLength = 1
  MonthLength = 2
  Horizon = 1
  MaxRuns = 2
INVARIANT TypeOK
INVARIANT Reconciled
INVARIANT CompletedDelivered
INVARIANT PaymentsClosed
INVARIANT CeilingsHold
INVARIANT AtMostOneCharge
INVARIANT NoncesUnique
INVARIANT PaidBeforeService
INVARIANT RetriesCapped
PROPERTY PaysOnce
PROPERTY KillStopsPayments
