SPECIFICATION Spec
CONSTANTS
  Tx = "a2-pass-2"
  Service = "vat-api"
  PriceCents = 300
  MaxPaymentRetries = 2
CHECK_DEADLOCK FALSE
INVARIANT PaidAtMostOnce
