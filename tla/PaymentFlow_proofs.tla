------------------------- MODULE PaymentFlow_proofs -------------------------
(***************************************************************************)
(* Proofs about PaymentClient, for any number of concurrent calls and any  *)
(* threshold, reset period and timeout, and about PaymentFlow, whose       *)
(* orders use it in their way.                                             *)
(***************************************************************************)
EXTENDS PaymentFlow, TLAPS

\* The three invariants hold each other up: the counter decides whether a
\* failure opens a closed breaker, and sinceOpened restarts only when it opens.
IInv == TypeOK /\ ClosedIffFewFailures /\ HalfOpenAwaitsAnswer

LEMMA InitInvariant == Init => IInv
BY BreakerAssumption
   DEF Init, IInv, TypeOK, ClosedIffFewFailures, HalfOpenAwaitsAnswer

LEMMA NextInvariant == IInv /\ [Next]_vars => IInv'
<1> SUFFICES ASSUME IInv, [Next]_vars PROVE IInv'
  OBVIOUS
<1> USE BreakerAssumption DEF IInv, TypeOK, ClosedIffFewFailures, HalfOpenAwaitsAnswer
<1>1. ASSUME NEW c \in Calls, CallGateway(c) PROVE IInv'
  BY <1>1 DEF CallGateway, Rejecting
<1>2. ASSUME NEW c \in Calls, Succeed(c) PROVE IInv'
  BY <1>2 DEF Succeed, Ended
<1>3. ASSUME NEW c \in Calls, Fail(c) PROVE IInv'
  <2>1. CASE breaker = "closed"
    BY <1>3, <2>1 DEF Fail, Ended
  <2>2. CASE breaker = "half-open"
    BY <1>3, <2>2 DEF Fail, Ended
  <2>3. CASE breaker = "open"
    BY <1>3, <2>3 DEF Fail, Ended
  <2> QED
    BY <2>1, <2>2, <2>3
<1>4. CASE Tick
  BY <1>4 DEF Tick
<1>5. CASE ToggleFaults
  BY <1>5 DEF ToggleFaults
<1>6. CASE UNCHANGED vars
  BY <1>6 DEF vars
<1> QED
  BY <1>1, <1>2, <1>3, <1>4, <1>5, <1>6 DEF Next

\* The breaker is closed exactly while fewer than BREAKER_THRESHOLD calls in a
\* row have failed, and half-open only while a call is out to settle it.
THEOREM BreakerCorrect == Spec => [](TypeOK /\ ClosedIffFewFailures /\ HalfOpenAwaitsAnswer)
<1>1. IInv => TypeOK /\ ClosedIffFewFailures /\ HalfOpenAwaitsAnswer
  BY DEF IInv
<1> QED
  BY <1>1, InitInvariant, NextInvariant, PTL DEF Spec

\* What the orders do to the breaker is what calls do to it.
LEMMA FlowStep == [FlowNext]_flowVars => [Next]_vars
<1> SUFFICES ASSUME [FlowNext]_flowVars PROVE [Next]_vars
  OBVIOUS
<1>1. ASSUME NEW o \in Orders, Arrive(o) \/ AuthorizeStep(o) \/ Authorized(o) \/ GatewayError(o)
      PROVE  [Next]_vars
  <2>1. o \in Calls
    BY FlowAssumption
  <2>2. CallGateway(o) \/ Succeed(o) \/ Fail(o) \/ UNCHANGED vars
    BY <1>1 DEF Arrive, AuthorizeStep, Declined, Refused, Call, Authorized, GatewayError
  <2> QED
    BY <2>1, <2>2 DEF Next
<1>2. ASSUME NEW c \in Captures, Capture(c) \/ CaptureAnswered(c) PROVE [Next]_vars
  <2>1. c \in Calls
    BY FlowAssumption
  <2> QED
    BY <1>2, <2>1 DEF Capture, CaptureAnswered, Next
<1>3. CASE FlowTick
  BY <1>3 DEF FlowTick, Next
<1>4. CASE FlowToggle
  BY <1>4 DEF FlowToggle, Next
<1>5. CASE UNCHANGED flowVars
  BY <1>5 DEF flowVars
<1> QED
  BY <1>1, <1>2, <1>3, <1>4, <1>5 DEF FlowNext

\* So the breaker keeps its books whatever orders retry through it.
THEOREM FlowBreakerCorrect == FlowSpec => [](ClosedIffFewFailures /\ HalfOpenAwaitsAnswer)
<1>1. FlowInit => IInv
  BY InitInvariant DEF FlowInit
<1>2. IInv /\ [FlowNext]_flowVars => IInv'
  BY NextInvariant, FlowStep
<1>3. IInv => ClosedIffFewFailures /\ HalfOpenAwaitsAnswer
  BY DEF IInv
<1> QED
  BY <1>1, <1>2, <1>3, PTL DEF FlowSpec

-----------------------------------------------------------------------------
(* The orders in payment.                                                  *)

\* An order is calling exactly while the gateway has its call, no timer of its
\* steps is overdue, and the attempts it has left behind did not exhaust it.
FlowFits ==
  /\ stage \in [Orders -> { "due", "calling" } \cup Ends]
  /\ waited \in [Orders -> 0 .. TIMEOUT_TICKS]
  /\ paymentAttempts \in [Orders -> Nat]
  /\ \A o \in Orders :
       /\ stage[o] = "calling" <=> o \in inFlight
       /\ stage[o] = "due" => paymentAttempts[o] <= GATEWAY_MAX_RETRIES
       /\ paymentAttempts[o] <= GATEWAY_MAX_RETRIES + 1
       /\ stage[o] = "failed" => paymentAttempts[o] = GATEWAY_MAX_RETRIES + 1

LEMMA InitFits == FlowInit => FlowFits
BY FlowAssumption, BreakerAssumption DEF FlowInit, Init, FlowFits, Ends

\* The steps of an order, one of which uses up an attempt.
LEMMA OrderStepFits ==
  ASSUME IInv, FlowFits, PAYMENT_MAX_DECLINE_ATTEMPTS <= GATEWAY_MAX_RETRIES + 1,
         NEW o \in Orders, Arrive(o) \/ AuthorizeStep(o) \/ Authorized(o) \/ GatewayError(o)
  PROVE  FlowFits'
<1> USE FlowAssumption, BreakerAssumption DEF FlowFits, MoveTo, Ends
<1>1. CASE Arrive(o)
  BY <1>1 DEF Arrive, vars
<1>2. CASE Declined(o)
  BY <1>2 DEF Declined, Attempt, vars
<1>3. CASE Refused(o)
  BY <1>3 DEF Refused, Attempt, RetryOrGiveUp, vars
<1>4. CASE Call(o)
  BY <1>4 DEF Call, Attempt, CallGateway
<1>5. CASE Authorized(o)
  BY <1>5 DEF Authorized, Succeed, Ended
<1>6. CASE GatewayError(o)
  BY <1>6 DEF GatewayError, Fail, Ended, RetryOrGiveUp
<1> QED
  BY <1>1, <1>2, <1>3, <1>4, <1>5, <1>6 DEF AuthorizeStep

LEMMA NextFits ==
  ASSUME IInv, FlowFits, PAYMENT_MAX_DECLINE_ATTEMPTS <= GATEWAY_MAX_RETRIES + 1,
         [FlowNext]_flowVars
  PROVE  FlowFits'
<1>1. ASSUME NEW c \in Captures, Capture(c) \/ CaptureAnswered(c) PROVE FlowFits'
  <2>1. c \notin Orders
    BY FlowAssumption
  <2>2. \A o \in Orders : o \in inFlight' <=> o \in inFlight
    BY <1>1, <2>1 DEF Capture, CaptureAnswered, CallGateway, Succeed, Fail, Ended
  <2> QED
    BY <1>1, <2>2 DEF Capture, CaptureAnswered, FlowFits
<1>2. CASE FlowTick
  <2>1. ASSUME NEW o \in Orders PROVE waited'[o] \in 0 .. TIMEOUT_TICKS
    BY <1>2, BreakerAssumption DEF FlowTick, FlowFits
  <2> QED
    BY <1>2, <2>1 DEF FlowTick, Tick, FlowFits
<1>3. CASE FlowToggle
  BY <1>3 DEF FlowToggle, ToggleFaults, FlowFits
<1>4. CASE UNCHANGED flowVars
  BY <1>4 DEF flowVars, vars, FlowFits
<1> QED
  BY <1>1, <1>2, <1>3, <1>4, OrderStepFits DEF FlowNext

\* Where declines do not outlast gateway retries (the code's limits are 2 and 3) an
\* order enters authorizeStep GATEWAY_MAX_RETRIES + 1 times at most, however declines,
\* refusals of the breaker and failures of the gateway mix, and is dead-lettered at
\* the last of them only; while its call is out, the gateway has it.
THEOREM AttemptsCorrect ==
  ASSUME PAYMENT_MAX_DECLINE_ATTEMPTS <= GATEWAY_MAX_RETRIES + 1
  PROVE  FlowSpec => [](\A o \in Orders :
           /\ stage[o] = "calling" <=> o \in inFlight
           /\ paymentAttempts[o] <= GATEWAY_MAX_RETRIES + 1
           /\ stage[o] = "failed" => paymentAttempts[o] = GATEWAY_MAX_RETRIES + 1)
<1>1. FlowInit => IInv /\ FlowFits
  BY InitInvariant, InitFits DEF FlowInit
<1>2. IInv /\ FlowFits /\ [FlowNext]_flowVars => (IInv /\ FlowFits)'
  BY NextInvariant, FlowStep, NextFits
<1>3. FlowFits => \A o \in Orders :
        /\ stage[o] = "calling" <=> o \in inFlight
        /\ paymentAttempts[o] <= GATEWAY_MAX_RETRIES + 1
        /\ stage[o] = "failed" => paymentAttempts[o] = GATEWAY_MAX_RETRIES + 1
  BY DEF FlowFits
<1> QED
  BY <1>1, <1>2, <1>3, PTL DEF FlowSpec

-----------------------------------------------------------------------------
(* A gateway without faults.                                               *)

\* No call is doomed and the breaker has nothing to refuse, so nobody comes to
\* the branch that gives an order up.
Healthy ==
  /\ doomed = {}
  /\ breaker = "closed"
  /\ stage \in [Orders -> { "due", "calling", "authorized", "declined" }]

LEMMA NextHealthy == Healthy /\ ~faulty /\ [FlowNext]_flowVars => Healthy'
<1> SUFFICES ASSUME Healthy, ~faulty, [FlowNext]_flowVars PROVE Healthy'
  OBVIOUS
<1> USE DEF Healthy, MoveTo, vars
<1>1. ASSUME NEW o \in Orders, Arrive(o) \/ AuthorizeStep(o) PROVE Healthy'
  BY <1>1 DEF Arrive, AuthorizeStep, Declined, Refused, Rejecting, Call, Attempt, CallGateway
<1>2. ASSUME NEW o \in Orders, Authorized(o) \/ GatewayError(o) PROVE Healthy'
  BY <1>2 DEF Authorized, GatewayError, Succeed, Fail, Ended
<1>3. ASSUME NEW c \in Captures, Capture(c) \/ CaptureAnswered(c) PROVE Healthy'
  BY <1>3 DEF Capture, CaptureAnswered, CallGateway, Succeed, Fail, Ended
<1>4. CASE FlowTick \/ FlowToggle \/ UNCHANGED flowVars
  BY <1>4 DEF FlowTick, Tick, FlowToggle, ToggleFaults, flowVars
<1> QED
  BY <1>1, <1>2, <1>3, <1>4 DEF FlowNext

\* While the gateway has no faults no order is dead-lettered in payment, whatever
\* the issuers decline, for any orders and limits.
THEOREM HealthyCorrect == FlowSpec => HealthySystemFailsNobody
<1>1. FlowInit => Healthy
  BY DEF FlowInit, Init, Healthy
<1>2. Healthy => \A o \in Orders : stage[o] # "failed"
  BY DEF Healthy
<1> QED
  BY <1>1, <1>2, NextHealthy, PTL DEF FlowSpec, HealthySystemFailsNobody
=============================================================================
