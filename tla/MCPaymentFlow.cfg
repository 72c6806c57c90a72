SPECIFICATION FlowSpec
CONSTANTS
  Orders = { o1, o2 }
  Captures = { c1 }
  Calls <- MCCalls
  BREAKER_THRESHOLD = 5
  RESET_TICKS = 3
  TIMEOUT_TICKS = 1
  MaxFailures <- MCMaxFailures
  PAYMENT_MAX_DECLINE_ATTEMPTS = 2
  GATEWAY_MAX_RETRIES = 3
INVARIANTS
  ClosedIffFewFailures
  HalfOpenAwaitsAnswer
PROPERTIES
  RecoversAfterOutage
  EveryPaymentEnds
  HealthySystemFailsNobody
