--------------------------- MODULE MCPaymentFlow ---------------------------
(* Two orders at a time and a capture: they open the breaker (five failures *)
(* in a row, with the retries of an order among them), have calls from      *)
(* before it opened end after it did, and have probes side by side.  A tick *)
(* is the gateway's timeout of 10 s, so the 30 s of the reset are three.    *)
EXTENDS PaymentFlow

MCCalls == Orders \cup Captures

MCMaxFailures == BREAKER_THRESHOLD
=============================================================================
