SPECIFICATION Spec
CONSTANTS
  Orders = { o1 }
  GoodsTotals <- MCGoodsTotals
  DiscountRates <- MCDiscountRates
  PAYMENT_MAX_DECLINE_ATTEMPTS = 2
  GATEWAY_MAX_RETRIES = 3
  BACKORDER_MAX_ATTEMPTS = 3
  RETRYABLE_ATTEMPTS = 3
  CAPTURE_CONFIRM_MAX_ATTEMPTS = 20
INVARIANT MismatchHeldForReview
CHECK_DEADLOCK FALSE
