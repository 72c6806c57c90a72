---------------------------- MODULE PaymentFlow ----------------------------
(***************************************************************************)
(* The authorizations of many orders through the one circuit breaker:      *)
(* OrderPipelineService.authorizeStep of each order, PaymentClient and the *)
(* gateway.  The pipeline module takes the gateway's answer as given; here *)
(* it comes from the breaker the orders share, and an order's retries are  *)
(* what the other orders' failures add up with.                            *)
(*                                                                         *)
(* One counter of an order, paymentAttempts, counts declines of the issuer *)
(* and failures of the gateway alike.  Every wait of authorizeStep is      *)
(* shorter than the gateway's timeout (9 s, 10 s), so at most a tick of    *)
(* PaymentClient's clock falls into one.  A slot of Orders is taken by a   *)
(* new order when its order is done: the storefront does not stop.         *)
(***************************************************************************)
EXTENDS PaymentClient

CONSTANTS
  Orders,                         \* orders that may be in payment at once
  Captures,                       \* captures that may be: of free orders, no other
                                  \* passes the comparison of amounts before the call
  PAYMENT_MAX_DECLINE_ATTEMPTS,
  GATEWAY_MAX_RETRIES

ASSUME FlowAssumption ==
  /\ Calls = Orders \cup Captures /\ Orders \cap Captures = {}
  /\ PAYMENT_MAX_DECLINE_ATTEMPTS \in Nat \ {0}
  /\ GATEWAY_MAX_RETRIES \in Nat

VARIABLES
  stage,            \* of each order: due (authorizeStep is queued), calling, or its end
  paymentAttempts,
  waited            \* ticks since authorizeStep was queued

flowVars == << vars, stage, paymentAttempts, waited >>

Ends == { "authorized", "declined", "failed" }

FlowInit ==
  /\ Init
  /\ stage = [o \in Orders |-> "authorized"]
  /\ paymentAttempts = [o \in Orders |-> 0]
  /\ waited = [o \in Orders |-> 0]

MoveTo(o, s) ==
  /\ stage' = [stage EXCEPT ![o] = s]
  /\ waited' = [waited EXCEPT ![o] = 0]

\* priceStep queues authorizeStep of an order, the next one to take the slot.
Arrive(o) ==
  /\ stage[o] \in Ends
  /\ MoveTo(o, "due")
  /\ paymentAttempts' = [paymentAttempts EXCEPT ![o] = 0]
  /\ UNCHANGED vars

\* The timer of the step fires: every authorizeStep begins so.
Attempt(o) ==
  /\ stage[o] = "due"
  /\ paymentAttempts' = [paymentAttempts EXCEPT ![o] = @ + 1]

\* Mutant: an issuer's decline counts as a failure of the gateway.
DeclinedCountsAsFailure(o) ==
  /\ Attempt(o)
  /\ MoveTo(o, IF paymentAttempts'[o] >= PAYMENT_MAX_DECLINE_ATTEMPTS THEN "declined" ELSE "due")
  /\ consecutiveFailures' = IF consecutiveFailures < MaxFailures
                            THEN consecutiveFailures + 1 ELSE consecutiveFailures
  /\ breaker' = IF consecutiveFailures' >= BREAKER_THRESHOLD THEN "open" ELSE breaker
  /\ sinceOpened' = IF breaker' # breaker THEN 0 ELSE sinceOpened
  /\ UNCHANGED << inFlight, doomed, age, faulty >>

\* Payment declined, or the account's credit limit reached, before any call.
Declined(o) ==
  /\ Attempt(o)
  /\ MoveTo(o, IF paymentAttempts'[o] >= PAYMENT_MAX_DECLINE_ATTEMPTS THEN "declined" ELSE "due")
  /\ UNCHANGED vars

\* Mutant: the order is saved for its retry, which nothing queues.
RetryNotQueued(attempts) == IF attempts > GATEWAY_MAX_RETRIES THEN "failed" ELSE "saved"

\* After a gateway failure code the order waits to try again, or is given up.
RetryOrGiveUp(attempts) == IF attempts > GATEWAY_MAX_RETRIES THEN "failed" ELSE "due"

\* The open breaker refuses the call: CircuitOpenError is a gateway failure code.
Refused(o) ==
  /\ Attempt(o)
  /\ Rejecting
  /\ MoveTo(o, RetryOrGiveUp(paymentAttempts'[o]))
  /\ UNCHANGED vars

Call(o) ==
  /\ Attempt(o)
  /\ CallGateway(o)
  /\ MoveTo(o, "calling")

Authorized(o) ==
  /\ Succeed(o)
  /\ MoveTo(o, "authorized")
  /\ UNCHANGED paymentAttempts

GatewayError(o) ==
  /\ Fail(o)
  /\ MoveTo(o, RetryOrGiveUp(paymentAttempts[o]))
  /\ UNCHANGED paymentAttempts

\* A capture passes the breaker once; its failure ends the order elsewhere.
Capture(c) ==
  /\ CallGateway(c)
  /\ UNCHANGED << stage, paymentAttempts, waited >>

CaptureAnswered(c) ==
  /\ Succeed(c) \/ Fail(c)
  /\ UNCHANGED << stage, paymentAttempts, waited >>

\* Time passes while no timer of authorizeStep is overdue either.
FlowTick ==
  /\ Tick
  /\ \A o \in Orders : stage[o] = "due" => waited[o] < TIMEOUT_TICKS
  /\ waited' = [o \in Orders |-> IF stage[o] = "due" THEN waited[o] + 1 ELSE waited[o]]
  /\ UNCHANGED << stage, paymentAttempts >>

FlowToggle ==
  /\ ToggleFaults
  /\ UNCHANGED << stage, paymentAttempts, waited >>

AuthorizeStep(o) == Declined(o) \/ Refused(o) \/ Call(o)

FlowNext ==
  \/ \E o \in Orders : Arrive(o) \/ AuthorizeStep(o) \/ Authorized(o) \/ GatewayError(o)
  \/ \E c \in Captures : Capture(c) \/ CaptureAnswered(c)
  \/ FlowTick \/ FlowToggle

\* Orders keep arriving, timers fire, calls are answered and time passes; and the
\* issuers, who decline a few of a hundred, do not decline every order in whose
\* turn the breaker would have let a call through.
FlowFairness ==
  /\ WF_flowVars(FlowTick)
  /\ \A o \in Orders :
       /\ WF_flowVars(Arrive(o))
       /\ WF_flowVars(AuthorizeStep(o))
       /\ WF_flowVars(Authorized(o) \/ GatewayError(o))
       /\ SF_flowVars(Call(o))
  /\ \A c \in Captures : WF_flowVars(CaptureAnswered(c))

FlowSpec == FlowInit /\ [][FlowNext]_flowVars /\ FlowFairness

-----------------------------------------------------------------------------
(* Properties, besides those of PaymentClient, which this traffic has too. *)

\* Every order that comes to payment is authorized, declined or dead-lettered,
\* however long the outage is and whoever's probes keep the breaker open.
EveryPaymentEnds == \A o \in Orders : stage[o] = "due" ~> stage[o] \in Ends

\* While the gateway has no faults no order is dead-lettered: issuers' declines
\* leave the breaker alone, and of a decline and a retry only declines add up.
HealthySystemFailsNobody == []~faulty => [](\A o \in Orders : stage[o] # "failed")
=============================================================================
