--------------------------- MODULE OrderPipeline ---------------------------
(***************************************************************************)
(* OrderPipelineService: the chain of timers and awaits that drives each   *)
(* order from RECEIVED to a state in which nothing more will happen.       *)
(*                                                                         *)
(* An order has at most one continuation: the step a timer of queue() will *)
(* run, or the rest of a step that waits for the pricing service, the      *)
(* payment gateway or the stock allocator.  The field "pending" names it.  *)
(* An action is the code between two waits, so every step that changes the *)
(* order before it awaits is two actions.  What the services answer is     *)
(* chosen here; their own modules say when they answer it.                 *)
(*                                                                         *)
(* Amounts are integers in cents.  authorizedAmount holds dollars in the   *)
(* code and its value in cents here, so the comparison of PaymentClient    *)
(* .capture, cents against dollars, reads 100 * expected = authorized.     *)
(***************************************************************************)
EXTENDS Integers, Sequences, OrderStates

CONSTANTS
  Orders,
  GoodsTotals,                  \* line totals an order may have, in cents
  DiscountRates,                \* tier rates of the live promotions, percent
  PAYMENT_MAX_DECLINE_ATTEMPTS,
  GATEWAY_MAX_RETRIES,
  BACKORDER_MAX_ATTEMPTS,
  RETRYABLE_ATTEMPTS,           \* the 3 in StockAllocator.allocate
  CAPTURE_CONFIRM_MAX_ATTEMPTS

ASSUME AmountsAssumption ==
  /\ GoodsTotals \subseteq Nat
  /\ DiscountRates \subseteq 0 .. 100

ASSUME LimitsAssumption ==
  /\ PAYMENT_MAX_DECLINE_ATTEMPTS \in Nat
  /\ GATEWAY_MAX_RETRIES \in Nat
  /\ BACKORDER_MAX_ATTEMPTS \in Nat \ {0}
  /\ RETRYABLE_ATTEMPTS \in Nat
  /\ CAPTURE_CONFIRM_MAX_ATTEMPTS \in Nat \ {0}

\* Declines never outlast the gateway retries they share a counter with, and
\* a first shortage always puts the order on backorder.
ASSUME LimitsRelation ==
  /\ PAYMENT_MAX_DECLINE_ATTEMPTS <= GATEWAY_MAX_RETRIES + 1
  /\ BACKORDER_MAX_ATTEMPTS > 1
  /\ RETRYABLE_ATTEMPTS > 1

VARIABLES
  request,    \* what the customer sent; never changes
  order       \* the Order objects of the repository

vars == << request, order >>

\* "created": saved, not yet submitted; "none": no timer, no await.
Continuation ==
  { "created", "validate", "price", "reprice", "recover",
    "authorize", "authorizing", "fraud", "fraudReview",
    "allocate", "allocating", "fulfill", "confirm", "capturing",
    "ship", "deliver", "none" }

\* A promotion is live, expired, or (SUMMER25) has no rules to apply.
PromoCode == { "none", "live", "expired", "ruleless" }

\* History: how far the money of the order has come, by the answers of the
\* gateway's client.  No field of the Order holds it.
Settlement == { "none", "authorized", "captured", "mismatched" }

Request ==
  [ zip : BOOLEAN, blocked : BOOLEAN, knownSkus : BOOLEAN,
    goods : GoodsTotals, promoCode : PromoCode ]

Unset == -1
Amount == Nat \cup { Unset }

Order ==
  [ state : OrderState, pending : Continuation, promoCode : PromoCode,
    subtotal : Amount, total : Amount, authorizedAmount : Amount,
    paymentAttempts : Nat, allocationAttempts : Nat, captureAttempts : Nat,
    settlement : Settlement, history : Seq(OrderState \X OrderState) ]

NewOrder(r) ==
  [ state |-> "RECEIVED", pending |-> "created", promoCode |-> r.promoCode,
    subtotal |-> Unset, total |-> Unset, authorizedAmount |-> Unset,
    paymentAttempts |-> 0, allocationAttempts |-> 0, captureAttempts |-> 0,
    settlement |-> "none", history |-> << >> ]

Init ==
  /\ request \in [Orders -> Request]
  /\ order = [o \in Orders |-> NewOrder(request[o])]

-----------------------------------------------------------------------------
(* Money.                                                                  *)

\* The integers nearest to n / d, both of them when n / d is halfway: Number's
\* toFixed and Math.round then follow the binary error of the product.
Nearest(n, d) ==
  LET q == (2 * n + d) \div (2 * d)
  IN  IF (2 * n + d) % (2 * d) = 0 THEN { q - 1, q } ELSE { q }

\* TaxCalculator.total and totalCents, which may differ by a cent on a tie.
TaxedTotals(subtotal) == Nearest(subtotal * 10825, 10000)

\* Mutant: the percentage is not divided by 100.
SubtotalsUndivided(goods, promoCode) ==
  IF promoCode = "live" THEN { goods - goods * p : p \in DiscountRates } ELSE { goods }

\* DiscountService.applyPromotion for a promotion that is live.
Subtotals(goods, promoCode) ==
  IF promoCode = "live"
  THEN { goods - d : d \in UNION { Nearest(goods * p, 100) : p \in DiscountRates } }
  ELSE { goods }

-----------------------------------------------------------------------------
(* Helpers on one order.                                                   *)

\* Mutant: the history entry is built after the state has been assigned.
MoveToLate(r, to) ==
  [r EXCEPT !.state = to, !.history = Append(@, << to, to >>)]

MoveTo(r, to) ==
  [r EXCEPT !.state = to, !.history = Append(@, << r.state, to >>)]

\* deadLetter: FAILED from any state but the settled ones, with the table's
\* leave or without it.
DeadLetter(r) ==
  [ (IF Settled(r.state) THEN r ELSE MoveTo(r, "FAILED")) EXCEPT !.pending = "none" ]

\* transition, then the continuation the step leaves; assertTransition throws
\* into the catch of queue().
Transition(r, to, next) ==
  IF CanTransition(r.state, to)
  THEN [MoveTo(r, to) EXCEPT !.pending = next]
  ELSE DeadLetter(r)

\* Mutant: the subtotal is not stored.
PricedNoSubtotal(r, subtotal, total) ==
  Transition([r EXCEPT !.total = total], "PRICED", "authorize")

Priced(r, subtotal, total) ==
  Transition([r EXCEPT !.subtotal = subtotal, !.total = total], "PRICED", "authorize")

\* A step of order o that finds it waiting at p and leaves it as r.
At(o, p) == order[o].pending = p

Becomes(o, r) ==
  /\ order' = [order EXCEPT ![o] = r]
  /\ UNCHANGED request

-----------------------------------------------------------------------------
(* Intake, validation and pricing.                                         *)

Submit(o) ==
  /\ At(o, "created")
  /\ Becomes(o, [order[o] EXCEPT !.pending = "validate"])

\* Mutant: the blacklist is not consulted.
AcceptedBlocked(q) == q.zip /\ q.knownSkus

\* The checks of validateStep.
Accepted(q) == q.zip /\ ~q.blocked /\ q.knownSkus

ValidateStep(o) ==
  /\ At(o, "validate")
  /\ Becomes(o, IF Accepted(request[o]) THEN Transition(order[o], "VALIDATED", "price")
                                        ELSE Transition(order[o], "REJECTED", "none"))

PriceStep(o) ==
  /\ At(o, "price")
  /\ order[o].promoCode \in { "none", "live" }
  /\ \E s \in Subtotals(request[o].goods, order[o].promoCode) :
       \E t \in TaxedTotals(s) : Becomes(o, Priced(order[o], s, t))

\* PromoExpired: the code is dropped and the order priced again.
ExpiredPromo(o) ==
  /\ At(o, "price")
  /\ order[o].promoCode = "expired"
  /\ Becomes(o, [order[o] EXCEPT !.promoCode = "none", !.pending = "reprice"])

\* The TypeError of a promotion without rules: recoverFromPricingFailure up to
\* its await, PRICED and PRICING_FAILED in one go.
PricingCrash(o) ==
  /\ At(o, "price")
  /\ order[o].promoCode = "ruleless"
  /\ LET priced == Transition(order[o], "PRICED", "price")
         failed == IF priced.state = "PRICED"
                   THEN Transition(priced, "PRICING_FAILED", "recover") ELSE priced
     IN  Becomes(o, IF failed.state = "PRICING_FAILED"
                    THEN [failed EXCEPT !.promoCode = "none"] ELSE failed)

\* The second price() of either handler: no promotion is left, so it answers.
Reprice(o) ==
  /\ At(o, "reprice") \/ At(o, "recover")
  /\ \E s \in Subtotals(request[o].goods, order[o].promoCode) :
       \E t \in TaxedTotals(s) : Becomes(o, Priced(order[o], s, t))

-----------------------------------------------------------------------------
(* Payment authorization and fraud.                                        *)

\* Mutant: the attempt is not counted.
AuthorizeStepUncounted(o) ==
  /\ At(o, "authorize")
  /\ Becomes(o, [order[o] EXCEPT !.pending = "authorizing"])

AuthorizeStep(o) ==
  /\ At(o, "authorize")
  /\ Becomes(o, [order[o] EXCEPT !.paymentAttempts = @ + 1, !.pending = "authorizing"])

\* Mutant: the authorization is queued once more.
AuthorizeApprovedTwice(o) ==
  /\ At(o, "authorizing")
  /\ Becomes(o, Transition([order[o] EXCEPT !.authorizedAmount = order[o].total,
                                            !.settlement = "authorized"],
                           "PAYMENT_AUTHORIZED", "authorize"))

AuthorizeApproved(o) ==
  /\ At(o, "authorizing")
  /\ Becomes(o, Transition([order[o] EXCEPT !.authorizedAmount = order[o].total,
                                            !.settlement = "authorized"],
                           "PAYMENT_AUTHORIZED", "fraud"))

\* ERR_PAYMENT_DECLINED and ERR_CREDIT_LIMIT.
AuthorizeDeclined(o) ==
  /\ At(o, "authorizing")
  /\ Becomes(o, IF order[o].paymentAttempts >= PAYMENT_MAX_DECLINE_ATTEMPTS
                THEN Transition(order[o], "PAYMENT_DECLINED", "none")
                ELSE [order[o] EXCEPT !.pending = "authorize"])

\* GATEWAY_FAILURE_CODES: a bad gateway, a timeout or an open circuit.
AuthorizeGatewayError(o) ==
  /\ At(o, "authorizing")
  /\ Becomes(o, IF order[o].paymentAttempts > GATEWAY_MAX_RETRIES
                THEN Transition(order[o], "FAILED", "none")
                ELSE [order[o] EXCEPT !.pending = "authorize"])

FraudStep(o) ==
  /\ At(o, "fraud")
  /\ \/ Becomes(o, Transition(order[o], "FRAUD_HOLD", "fraudReview"))
     \/ Becomes(o, Transition(order[o], "FRAUD_CLEARED", "allocate"))

FraudReviewStep(o) ==
  /\ At(o, "fraudReview")
  /\ \/ Becomes(o, Transition(order[o], "FRAUD_CLEARED", "allocate"))
     \/ Becomes(o, Transition(order[o], "CANCELLED", "none"))

-----------------------------------------------------------------------------
(* Allocation.                                                             *)

AllocateStep(o) ==
  /\ At(o, "allocate")
  /\ Becomes(o, [order[o] EXCEPT !.allocationAttempts = @ + 1, !.pending = "allocating"])

AllocateDone(o) ==
  /\ At(o, "allocating")
  /\ Becomes(o, Transition(order[o], "ALLOCATED", "fulfill"))

\* Mutant: a failed backorder retry is saved and not queued again.
AfterShortageLost(r) ==
  IF r.allocationAttempts >= RETRYABLE_ATTEMPTS THEN DeadLetter(r)
  ELSE IF r.state # "BACKORDERED" THEN Transition(r, "BACKORDERED", "allocate")
  ELSE [r EXCEPT !.pending = "none"]

\* ERR_INSUFFICIENT_STOCK; an error that is not retryable is thrown on.
AfterShortage(r) ==
  IF r.allocationAttempts >= RETRYABLE_ATTEMPTS THEN DeadLetter(r)
  ELSE IF r.allocationAttempts >= BACKORDER_MAX_ATTEMPTS THEN Transition(r, "CANCELLED", "none")
  ELSE IF r.state # "BACKORDERED" THEN Transition(r, "BACKORDERED", "allocate")
  ELSE [r EXCEPT !.pending = "allocate"]

AllocateShort(o) ==
  /\ At(o, "allocating")
  /\ Becomes(o, AfterShortage(order[o]))

-----------------------------------------------------------------------------
(* Fulfilment and capture.                                                 *)

\* Mutant: > for >=.
ScheduleCaptureConfirmationLate(r) ==
  LET counted == [r EXCEPT !.captureAttempts = @ + 1]
  IN  IF counted.captureAttempts > CAPTURE_CONFIRM_MAX_ATTEMPTS
      THEN Transition(counted, "FAILED", "none")
      ELSE [counted EXCEPT !.pending = "confirm"]

\* scheduleCaptureConfirmation
ScheduleCaptureConfirmation(r) ==
  LET counted == [r EXCEPT !.captureAttempts = @ + 1]
  IN  IF counted.captureAttempts >= CAPTURE_CONFIRM_MAX_ATTEMPTS
      THEN Transition(counted, "FAILED", "none")
      ELSE [counted EXCEPT !.pending = "confirm"]

\* Mutant: a pending confirmation is taken for a capture.
AttemptCaptureIgnoringHold(r, held, expected) ==
  IF held THEN [r EXCEPT !.pending = "ship"]
  ELSE IF 100 * expected = r.authorizedAmount THEN [r EXCEPT !.pending = "capturing"]
  ELSE [r EXCEPT !.settlement = "mismatched", !.pending = "ship"]

\* attemptCapture up to the call of the gateway: the confirmation is held, or
\* the expected cents are compared with the authorized amount.
AttemptCapture(r, held, expected) ==
  IF held THEN ScheduleCaptureConfirmation(r)
  ELSE IF 100 * expected = r.authorizedAmount THEN [r EXCEPT !.pending = "capturing"]
  ELSE [r EXCEPT !.authorizedAmount = r.total, !.settlement = "mismatched",
                 !.pending = "ship"]

FulfillStep(o) ==
  /\ At(o, "fulfill")
  /\ \E held \in BOOLEAN, expected \in TaxedTotals(order[o].subtotal) :
       LET r == Transition(order[o], "FULFILLING", "capturing")
       IN  Becomes(o, IF r.state = "FULFILLING" THEN AttemptCapture(r, held, expected) ELSE r)

ConfirmCaptureStep(o) ==
  /\ At(o, "confirm")
  /\ \E held \in BOOLEAN, expected \in TaxedTotals(order[o].subtotal) :
       Becomes(o, AttemptCapture(order[o], held, expected))

\* Mutant: a captured order is polled again.
CaptureDonePolled(o) ==
  /\ At(o, "capturing")
  /\ Becomes(o, [order[o] EXCEPT !.settlement = "captured", !.pending = "confirm"])

CaptureDone(o) ==
  /\ At(o, "capturing")
  /\ Becomes(o, [order[o] EXCEPT !.settlement = "captured", !.pending = "ship"])

\* A gateway error during capture has no handler: it reaches queue()'s catch.
CaptureError(o) ==
  /\ At(o, "capturing")
  /\ Becomes(o, DeadLetter(order[o]))

ShipStep(o) ==
  /\ At(o, "ship")
  /\ Becomes(o, Transition(order[o], "SHIPPED", "deliver"))

NoCarrier(o) ==
  /\ At(o, "ship")
  /\ Becomes(o, Transition(order[o], "FAILED", "none"))

\* Mutant: the step queues itself after delivery.
DeliverStepAgain(o) ==
  /\ At(o, "deliver")
  /\ Becomes(o, Transition(order[o], "DELIVERED", "deliver"))

DeliverStep(o) ==
  /\ At(o, "deliver")
  /\ Becomes(o, Transition(order[o], "DELIVERED", "none"))

-----------------------------------------------------------------------------
\* Everything that happens to a submitted order: timers that fire and awaits
\* that return.
Step(o) ==
  \/ ValidateStep(o) \/ PriceStep(o) \/ ExpiredPromo(o) \/ PricingCrash(o)
  \/ Reprice(o)
  \/ AuthorizeStep(o) \/ AuthorizeApproved(o) \/ AuthorizeDeclined(o)
  \/ AuthorizeGatewayError(o)
  \/ FraudStep(o) \/ FraudReviewStep(o)
  \/ AllocateStep(o) \/ AllocateDone(o) \/ AllocateShort(o)
  \/ FulfillStep(o) \/ ConfirmCaptureStep(o) \/ CaptureDone(o) \/ CaptureError(o)
  \/ ShipStep(o) \/ NoCarrier(o) \/ DeliverStep(o)

Next == \E o \in Orders : Submit(o) \/ Step(o)

\* Timers fire and awaited calls return or throw; nobody has to submit.
Fairness == \A o \in Orders : WF_vars(Step(o))

Spec == Init /\ [][Next]_vars /\ Fairness

-----------------------------------------------------------------------------
(* Properties.                                                             *)

\* Requests and orders have their types throughout.
TypeOK ==
  /\ request \in [Orders -> Request]
  /\ order \in [Orders -> Order]

\* The states in which each continuation can find its order.
StatesAt(p) ==
  CASE p \in { "created", "validate" } -> { "RECEIVED" }
    [] p \in { "price", "reprice" } -> { "VALIDATED" }
    [] p = "recover" -> { "PRICING_FAILED" }
    [] p \in { "authorize", "authorizing" } -> { "PRICED" }
    [] p = "fraud" -> { "PAYMENT_AUTHORIZED" }
    [] p = "fraudReview" -> { "FRAUD_HOLD" }
    [] p \in { "allocate", "allocating" } -> { "FRAUD_CLEARED", "BACKORDERED" }
    [] p = "fulfill" -> { "ALLOCATED" }
    [] p \in { "confirm", "capturing", "ship" } -> { "FULFILLING" }
    [] p = "deliver" -> { "SHIPPED" }
    [] p = "none" -> TERMINAL_STATES \cup { "FAILED" }

\* An order that is not settled is never left without a timer, a settled one
\* never has one, and a step that fires finds the state it was queued for: no
\* retry, dead letter or early return of the pipeline loses or doubles the chain.
StepMatchesState ==
  \A o \in Orders : order[o].state \in StatesAt(order[o].pending)

\* The history that tracking() returns is a path: it starts at RECEIVED, every
\* entry leaves the state the one before it reached, and the last one reached
\* the order's state.
HistoryIsPath ==
  \A o \in Orders :
    LET h == order[o].history
    IN  /\ \A i \in DOMAIN h : h[i][1] = IF i = 1 THEN "RECEIVED" ELSE h[i - 1][2]
        /\ order[o].state = IF h = << >> THEN "RECEIVED" ELSE h[Len(h)][2]

\* The retry loops stop: authorizations share one counter between declines and
\* gateway errors, and none of the counters passes its limit.
RetriesBounded ==
  \A o \in Orders :
    /\ order[o].paymentAttempts <= GATEWAY_MAX_RETRIES + 1
    /\ order[o].allocationAttempts <= BACKORDER_MAX_ATTEMPTS
    /\ order[o].captureAttempts <= CAPTURE_CONFIRM_MAX_ATTEMPTS

\* Orders are dead-lettered only out of authorization, backorder (for which the
\* table of transitions has no such edge) and fulfilment; an order on fraud hold
\* or with freshly allocated stock never is.
DeadLetterOrigins ==
  \A o \in Orders : \A i \in DOMAIN order[o].history :
    order[o].history[i][2] = "FAILED" =>
      order[o].history[i][1] \in { "PRICED", "BACKORDERED", "FULFILLING" }

\* Only an order that passed every check of validateStep is priced or charged, and
\* it is priced as it was ordered: with a discount only from a live promotion, so
\* that a code which had expired or crashed the calculation pays the full price of
\* its lines, and with the tax of exactly that subtotal.
PricedAsOrdered ==
  \A o \in Orders :
    /\ order[o].total # Unset \/ order[o].paymentAttempts > 0 =>
         request[o].zip /\ ~request[o].blocked /\ request[o].knownSkus
    /\ order[o].total # Unset =>
         /\ order[o].subtotal \in Subtotals(request[o].goods,
                 IF request[o].promoCode = "live" THEN "live" ELSE "none")
         /\ order[o].total \in TaxedTotals(order[o].subtotal)

\* Nothing ships before capture has been answered, and the order then stands
\* authorized for exactly its total: the mismatch branch has aligned it.
ShippedOnlySettled ==
  \A o \in Orders :
    order[o].state \in { "SHIPPED", "DELIVERED" } =>
      /\ order[o].settlement \in { "captured", "mismatched" }
      /\ order[o].authorizedAmount = order[o].total

\* Once the gateway has approved an order it is not authorized again, and neither
\* its price nor what it is authorized for changes: not by a retry, a backorder or
\* the assignment of authorizedAmount on an amount mismatch.
ApprovalIsFinal ==
  [][ \A o \in Orders :
        order[o].settlement # "none" =>
          /\ order'[o].settlement # "none"
          /\ order'[o].paymentAttempts = order[o].paymentAttempts
          /\ order'[o].subtotal = order[o].subtotal
          /\ order'[o].total = order[o].total
          /\ order'[o].authorizedAmount = order[o].authorizedAmount ]_vars

\* A capture that has been answered is neither polled nor attempted again.
CaptureIsFinal ==
  [][ \A o \in Orders :
        order[o].settlement \in { "captured", "mismatched" } =>
          /\ order'[o].settlement = order[o].settlement
          /\ order'[o].captureAttempts = order[o].captureAttempts ]_vars

\* Nothing touches an order that reached a terminal state or FAILED.
SettledIsFinal ==
  [][ \A o \in Orders : Settled(order[o].state) => order'[o] = order[o] ]_vars

-----------------------------------------------------------------------------
(* The abstract lifecycle, of which the states below are a refinement.     *)

StatusOf(r) ==
  CASE r.pending = "created" -> "new"
    [] r.pending = "validate" -> "submitted"
    [] r.state \in { "VALIDATED", "PRICING_FAILED" } -> "accepted"
    [] r.state = "PRICED" -> "priced"
    [] r.state \in { "PAYMENT_AUTHORIZED", "FRAUD_HOLD" } -> "paid"
    [] r.state \in { "FRAUD_CLEARED", "BACKORDERED" } -> "cleared"
    [] r.state = "ALLOCATED" -> "allocated"
    [] r.state = "FULFILLING" -> "fulfilling"
    [] r.state = "SHIPPED" -> "shipped"
    [] r.state = "DELIVERED" -> "delivered"
    [] r.state = "REJECTED" -> "rejected"
    [] r.state = "PAYMENT_DECLINED" -> "declined"
    [] r.state = "CANCELLED" -> "cancelled"
    [] OTHER -> "failed"

Lifecycle == INSTANCE OrderLifecycle WITH status <- [o \in Orders |-> StatusOf(order[o])]

\* The pipeline, with its retries, holds, backorders and crashed pricings, is a
\* lifecycle: each hop is one stage, one verdict or nothing at all, and every order
\* handed to it settles, whatever the gateway, the warehouse and the reviewers answer.
ImplementsLifecycle == Lifecycle!Spec

-----------------------------------------------------------------------------
(* What comments of the code say, and the code does not do.                *)

\* A capture whose amount did not match holds the order for manual review
\* (the error PaymentClient.capture raises and logs).
MismatchHeldForReview ==
  \A o \in Orders :
    order[o].settlement = "mismatched" => order[o].state \notin { "SHIPPED", "DELIVERED" }
=============================================================================
