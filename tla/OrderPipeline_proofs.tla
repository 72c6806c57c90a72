------------------------ MODULE OrderPipeline_proofs ------------------------
(***************************************************************************)
(* Proofs about OrderPipeline, for every set of orders and every value of  *)
(* the limits that the assumptions of OrderPipeline allow.                 *)
(*                                                                         *)
(* Orders share nothing, so the inductive invariant is a predicate on one  *)
(* order and its request, and one lemma lifts it to all of them: an action *)
(* of order o is safe if the order it writes satisfies the predicate.      *)
(***************************************************************************)
EXTENDS OrderPipeline, TLAPS

\* The counters of one order (RetriesBounded), and what they are when the order waits
\* for each step.
AttemptsFit(r) ==
  /\ r.paymentAttempts <= GATEWAY_MAX_RETRIES + 1
  /\ r.allocationAttempts <= BACKORDER_MAX_ATTEMPTS
  /\ r.captureAttempts <= CAPTURE_CONFIRM_MAX_ATTEMPTS
  /\ r.state \in { "RECEIVED", "VALIDATED", "PRICING_FAILED", "REJECTED" } =>
       r.paymentAttempts = 0
  /\ r.pending = "authorize" => r.paymentAttempts <= GATEWAY_MAX_RETRIES
  /\ r.pending \in { "created", "validate", "price", "reprice", "recover",
                     "authorize", "authorizing", "fraud", "fraudReview" } =>
       r.allocationAttempts = 0
  /\ r.state = "FRAUD_CLEARED" =>
       r.allocationAttempts = IF r.pending = "allocate" THEN 0 ELSE 1
  /\ r.pending = "allocate" => r.allocationAttempts < BACKORDER_MAX_ATTEMPTS
  /\ r.pending \notin { "confirm", "capturing", "ship", "deliver", "none" } =>
       r.captureAttempts = 0
  /\ r.pending = "confirm" => r.captureAttempts \in 1 .. CAPTURE_CONFIRM_MAX_ATTEMPTS - 1

\* What is known of the request and of the money when the order waits at r.
MoneyFits(q, r) ==
  /\ r.state \notin { "RECEIVED", "REJECTED" } => q.zip /\ ~q.blocked /\ q.knownSkus
  /\ r.state \in { "RECEIVED", "VALIDATED", "PRICING_FAILED", "REJECTED" } => r.total = Unset
  /\ r.pending \in { "created", "validate", "price" } => r.promoCode = q.promoCode
  /\ r.pending \in { "reprice", "recover" } =>
       r.promoCode = "none" /\ q.promoCode \in { "expired", "ruleless" }
  /\ r.total # Unset =>
       /\ r.subtotal \in Subtotals(q.goods, IF q.promoCode = "live" THEN "live" ELSE "none")
       /\ r.total \in TaxedTotals(r.subtotal)
  /\ r.pending \in { "created", "validate", "price", "reprice", "recover",
                     "authorize", "authorizing" } => r.settlement = "none"
  /\ r.pending \in { "fraud", "fraudReview", "allocate", "allocating", "fulfill",
                     "confirm", "capturing" } =>
       r.settlement = "authorized" /\ r.authorizedAmount = r.total
  /\ r.pending \in { "ship", "deliver" } \/ r.state = "DELIVERED" =>
       r.settlement \in { "captured", "mismatched" } /\ r.authorizedAmount = r.total

\* The history of one order (HistoryIsPath and DeadLetterOrigins).
HistoryFits(r) ==
  /\ \A i \in 1 .. Len(r.history) :
       r.history[i][1] = IF i = 1 THEN "RECEIVED" ELSE r.history[i - 1][2]
  /\ r.state = IF Len(r.history) = 0 THEN "RECEIVED" ELSE r.history[Len(r.history)][2]
  /\ \A i \in 1 .. Len(r.history) :
       r.history[i][2] = "FAILED" => r.history[i][1] \in { "PRICED", "BACKORDERED", "FULFILLING" }

OrderFits(q, r) ==
  /\ r \in Order
  /\ r.state \in StatesAt(r.pending)
  /\ AttemptsFit(r)
  /\ MoneyFits(q, r)
  /\ HistoryFits(r)

\* The inductive invariant.
IInv ==
  /\ request \in [Orders -> Request]
  /\ order \in [Orders -> Order]
  /\ \A o \in Orders : OrderFits(request[o], order[o])

-----------------------------------------------------------------------------
(* Money.                                                                  *)

\* Rounding a natural number of hundredths yields natural numbers.
LEMMA TaxedTotalsType ==
  ASSUME NEW s \in Nat
  PROVE  TaxedTotals(s) \subseteq Nat
BY SMTT(30) DEF TaxedTotals, Nearest

\* A rounded percentage of an amount is at most the amount.
LEMMA NearestPercent ==
  ASSUME NEW n \in Nat, NEW p \in 0 .. 100
  PROVE  \A x \in Nearest(n * p, 100) : x \in 0 .. n
<1> DEFINE m == n * p
<1>1. m \in Nat /\ m <= 100 * n
  BY SMTT(30)
<1> HIDE DEF m
<1>2. \A x \in Nearest(m, 100) : x \in 0 .. n
  BY <1>1, SMTT(30) DEF Nearest
<1> QED
  BY <1>2 DEF m

\* No promotion makes a subtotal negative.
LEMMA SubtotalsType ==
  ASSUME NEW goods \in GoodsTotals, NEW code \in PromoCode
  PROVE  Subtotals(goods, code) \subseteq Nat
<1>1. goods \in Nat
  BY AmountsAssumption
<1>2. \A p \in DiscountRates : \A x \in Nearest(goods * p, 100) : x \in 0 .. goods
  BY <1>1, NearestPercent, AmountsAssumption
<1> QED
  BY <1>1, <1>2 DEF Subtotals

-----------------------------------------------------------------------------
(* One order.                                                              *)

\* A step that leaves the history alone, or appends the edge it takes, keeps it
\* a path; it may end in FAILED only from the three origins.
LEMMA HistoryStep ==
  ASSUME NEW r \in Order, NEW n \in Order, HistoryFits(r),
         \/ n.history = r.history /\ n.state = r.state
         \/ /\ n.history = Append(r.history, << r.state, n.state >>)
            /\ n.state = "FAILED" => r.state \in { "PRICED", "BACKORDERED", "FULFILLING" }
  PROVE  HistoryFits(n)
<1> DEFINE h == r.history
           e == << r.state, n.state >>
           H == Append(h, e)
<1>1. CASE n.history = r.history /\ n.state = r.state
  BY <1>1 DEF HistoryFits
<1>2. CASE /\ n.history = H
           /\ n.state = "FAILED" => r.state \in { "PRICED", "BACKORDERED", "FULFILLING" }
  <2>1. h \in Seq(OrderState \X OrderState) /\ e \in OrderState \X OrderState
    BY DEF Order
  <2>2. /\ Len(H) = Len(h) + 1 /\ Len(h) \in Nat
        /\ H[Len(h) + 1] = e
        /\ \A i \in 1 .. Len(h) : H[i] = h[i]
    BY <2>1
  <2>3. e[1] = r.state /\ e[2] = n.state
    OBVIOUS
  <2> HIDE DEF h, e, H
  <2>4. /\ \A i \in 1 .. Len(h) : h[i][1] = IF i = 1 THEN "RECEIVED" ELSE h[i - 1][2]
        /\ r.state = IF Len(h) = 0 THEN "RECEIVED" ELSE h[Len(h)][2]
        /\ \A i \in 1 .. Len(h) :
             h[i][2] = "FAILED" => h[i][1] \in { "PRICED", "BACKORDERED", "FULFILLING" }
    BY DEF HistoryFits, h
  <2>5. \A i \in 1 .. Len(H) : H[i][1] = IF i = 1 THEN "RECEIVED" ELSE H[i - 1][2]
    BY <2>2, <2>3, <2>4
  <2>6. n.state = H[Len(H)][2] /\ Len(H) # 0
    BY <2>2, <2>3
  <2>7. \A i \in 1 .. Len(H) :
          H[i][2] = "FAILED" => H[i][1] \in { "PRICED", "BACKORDERED", "FULFILLING" }
    BY <1>2, <2>2, <2>3, <2>4
  <2> QED
    BY <1>2, <2>5, <2>6, <2>7 DEF HistoryFits
<1> QED
  BY <1>1, <1>2

\* MoveTo sets the state and appends the edge, and nothing else.
LEMMA MoveToType ==
  ASSUME NEW r \in Order, NEW to \in OrderState
  PROVE  /\ MoveTo(r, to) \in Order
         /\ MoveTo(r, to).state = to
         /\ MoveTo(r, to).history = Append(r.history, << r.state, to >>)
         /\ \A f \in { "pending", "promoCode", "subtotal", "total", "authorizedAmount",
                       "paymentAttempts", "allocationAttempts", "captureAttempts",
                       "settlement" } : MoveTo(r, to)[f] = r[f]
<1>1. << r.state, to >> \in OrderState \X OrderState
  BY DEF Order
<1>2. Append(r.history, << r.state, to >>) \in Seq(OrderState \X OrderState)
  BY <1>1 DEF Order
<1> QED
  BY <1>2 DEF MoveTo, Order

\* An action of order o that writes an order which fits keeps the invariant.
LEMMA BecomesFits ==
  ASSUME IInv, NEW o \in Orders, NEW r, OrderFits(request[o], r), Becomes(o, r)
  PROVE  IInv'
<1>1. order' = [order EXCEPT ![o] = r] /\ request' = request
  BY DEF Becomes
<1>2. r \in Order
  BY DEF OrderFits
<1>3. order' \in [Orders -> Order]
  BY <1>1, <1>2 DEF IInv
<1>4. ASSUME NEW p \in Orders PROVE OrderFits(request[p], order'[p])
  <2>1. CASE p = o
    BY <2>1, <1>1 DEF IInv
  <2>2. CASE p # o
    BY <2>2, <1>1 DEF IInv
  <2> QED
    BY <2>1, <2>2
<1> QED
  BY <1>1, <1>3, <1>4 DEF IInv

-----------------------------------------------------------------------------
(* Steps.                                                                  *)

\* What the invariant says of one order.
LEMMA Fits ==
  ASSUME IInv, NEW o \in Orders
  PROVE  /\ order[o] \in Order /\ request[o] \in Request
         /\ OrderFits(request[o], order[o])
BY DEF IInv

\* A transition the table allows, when it fits, keeps the history a path.
LEMMA TransitionType ==
  ASSUME NEW r \in Order, NEW to \in OrderState, NEW next \in Continuation,
         CanTransition(r.state, to),
         HistoryFits(r), to = "FAILED" => r.state \in { "PRICED", "BACKORDERED", "FULFILLING" }
  PROVE  LET n == Transition(r, to, next)
         IN  /\ n \in Order
             /\ n.state = to
             /\ n.pending = next
             /\ HistoryFits(n)
             /\ \A f \in { "promoCode", "subtotal", "total", "authorizedAmount",
                           "paymentAttempts", "allocationAttempts", "captureAttempts",
                           "settlement" } : n[f] = r[f]
<1> DEFINE m == MoveTo(r, to)
           n == [m EXCEPT !.pending = next]
<1>1. Transition(r, to, next) = n
  BY DEF Transition
<1>2. /\ m \in Order /\ m.state = to
      /\ m.history = Append(r.history, << r.state, to >>)
      /\ \A f \in { "pending", "promoCode", "subtotal", "total", "authorizedAmount",
                    "paymentAttempts", "allocationAttempts", "captureAttempts",
                    "settlement" } : m[f] = r[f]
  BY MoveToType
<1> HIDE DEF m
<1>3. /\ n \in Order /\ n.state = to /\ n.pending = next /\ n.history = m.history
      /\ \A f \in { "promoCode", "subtotal", "total", "authorizedAmount",
                    "paymentAttempts", "allocationAttempts", "captureAttempts",
                    "settlement" } : n[f] = m[f]
  BY <1>2 DEF Order
<1> HIDE DEF n
<1>4. HistoryFits(n)
  BY <1>2, <1>3, HistoryStep
<1> QED
  BY <1>1, <1>2, <1>3, <1>4

\* A dead letter out of one of the three origins.
LEMMA DeadLetterType ==
  ASSUME NEW r \in Order, HistoryFits(r), r.state \in { "PRICED", "BACKORDERED", "FULFILLING" }
  PROVE  LET n == DeadLetter(r)
         IN  /\ n \in Order
             /\ n.state = "FAILED"
             /\ n.pending = "none"
             /\ HistoryFits(n)
             /\ \A f \in { "promoCode", "subtotal", "total", "authorizedAmount",
                           "paymentAttempts", "allocationAttempts", "captureAttempts",
                           "settlement" } : n[f] = r[f]
<1> DEFINE m == MoveTo(r, "FAILED")
           n == [m EXCEPT !.pending = "none"]
<1>1. DeadLetter(r) = n
  BY DEF DeadLetter, Settled, TERMINAL_STATES
<1>2. /\ m \in Order /\ m.state = "FAILED"
      /\ m.history = Append(r.history, << r.state, "FAILED" >>)
      /\ \A f \in { "pending", "promoCode", "subtotal", "total", "authorizedAmount",
                    "paymentAttempts", "allocationAttempts", "captureAttempts",
                    "settlement" } : m[f] = r[f]
  BY MoveToType DEF OrderState
<1> HIDE DEF m
<1>3. /\ n \in Order /\ n.state = "FAILED" /\ n.pending = "none" /\ n.history = m.history
      /\ \A f \in { "promoCode", "subtotal", "total", "authorizedAmount",
                    "paymentAttempts", "allocationAttempts", "captureAttempts",
                    "settlement" } : n[f] = m[f]
  BY <1>2 DEF Order, Continuation
<1> HIDE DEF n
<1>4. HistoryFits(n)
  BY <1>2, <1>3, HistoryStep
<1> QED
  BY <1>1, <1>2, <1>3, <1>4

\* A step that changes neither the state nor the history leaves it a path.
LEMMA SameHistory ==
  ASSUME NEW r \in Order, NEW n \in Order, HistoryFits(r),
         n.history = r.history, n.state = r.state
  PROVE  HistoryFits(n)
BY HistoryStep

LEMMA SubmitFits ==
  ASSUME IInv, NEW o \in Orders, Submit(o)
  PROVE  IInv'
<1> DEFINE r == order[o]
           n == [r EXCEPT !.pending = "validate"]
<1>1. r \in Order /\ OrderFits(request[o], r) /\ r.pending = "created" /\ Becomes(o, n)
  BY Fits DEF Submit, At
<1>2. n \in Order /\ n.history = r.history /\ n.state = r.state
  BY <1>1 DEF Order, Continuation, Settlement, PromoCode
<1>3. HistoryFits(n)
  BY <1>1, <1>2, SameHistory DEF OrderFits
<1>4. OrderFits(request[o], n)
  BY <1>1, <1>2, <1>3, LimitsAssumption, LimitsRelation
     DEF OrderFits, StatesAt, AttemptsFit, MoneyFits, Order
<1> QED
  BY <1>1, <1>4, BecomesFits

LEMMA ValidateStepFits ==
  ASSUME IInv, NEW o \in Orders, ValidateStep(o)
  PROVE  IInv'
<1> DEFINE r == order[o]
           q == request[o]
           accepted == Accepted(q)
           n(to, next) == Transition(r, to, next)
<1>1. /\ r \in Order /\ OrderFits(q, r) /\ r.pending = "validate"
      /\ Becomes(o, IF accepted THEN n("VALIDATED", "price") ELSE n("REJECTED", "none"))
  BY Fits DEF ValidateStep, At
<1>2. r.state = "RECEIVED" /\ HistoryFits(r)
  BY <1>1 DEF OrderFits, StatesAt
<1>3. CanTransition(r.state, "VALIDATED") /\ CanTransition(r.state, "REJECTED")
  BY <1>2 DEF CanTransition, TRANSITIONS
<1>4. CASE accepted
  <2>1. OrderFits(q, n("VALIDATED", "price"))
    BY <1>1, <1>2, <1>3, <1>4, TransitionType, SMTT(30)
       DEF OrderFits, StatesAt, AttemptsFit, MoneyFits, OrderState, Continuation,
           Accepted
  <2> QED
    BY <1>1, <1>4, <2>1, BecomesFits
<1>5. CASE ~accepted
  <2> DEFINE rejected == n("REJECTED", "none")
  <2>1. /\ rejected \in Order /\ rejected.state = "REJECTED" /\ rejected.pending = "none"
        /\ HistoryFits(rejected)
        /\ \A f \in { "promoCode", "subtotal", "total", "authorizedAmount",
                      "paymentAttempts", "allocationAttempts", "captureAttempts",
                      "settlement" } : rejected[f] = r[f]
    BY <1>1, <1>2, <1>3, TransitionType DEF OrderState, Continuation
  <2>2. Becomes(o, rejected)
    BY <1>1, <1>5
  <2> HIDE DEF rejected
  <2>3. OrderFits(q, rejected)
    BY <1>1, <1>2, <2>1 DEF OrderFits, StatesAt, AttemptsFit, MoneyFits, TERMINAL_STATES
  <2> QED
    BY <1>1, <2>2, <2>3, BecomesFits
<1> QED
  BY <1>4, <1>5

\* A priced order that may move to PRICED and has taken its total from the
\* request fits.
LEMMA PricedFits ==
  ASSUME IInv, NEW o \in Orders,
         order[o].pending \in { "price", "reprice", "recover" },
         order[o].promoCode \in { "none", "live" },
         NEW s \in Subtotals(request[o].goods, order[o].promoCode),
         NEW t \in TaxedTotals(s), Becomes(o, Priced(order[o], s, t))
  PROVE  IInv'
<1> DEFINE r == order[o]
           q == request[o]
           m == [r EXCEPT !.subtotal = s, !.total = t]
           n == Transition(m, "PRICED", "authorize")
<1>1. r \in Order /\ q \in Request /\ OrderFits(q, r)
  BY Fits
<1>2. s \in Nat /\ t \in Nat
  <2>1. q.goods \in GoodsTotals /\ r.promoCode \in PromoCode
    BY <1>1 DEF Request, Order
  <2>2. s \in Nat
    BY <2>1, SubtotalsType
  <2> QED
    BY <2>2, TaxedTotalsType
<1>3. /\ m \in Order /\ m.history = r.history /\ m.state = r.state
      /\ m.subtotal = s /\ m.total = t
      /\ \A f \in { "pending", "promoCode", "authorizedAmount", "paymentAttempts",
                    "allocationAttempts", "captureAttempts", "settlement" } : m[f] = r[f]
  BY <1>1, <1>2 DEF Order, Amount
<1>4. r.state \in { "VALIDATED", "PRICING_FAILED" } /\ HistoryFits(m)
  BY <1>1, <1>3, SameHistory DEF OrderFits, StatesAt
<1>5. CanTransition(m.state, "PRICED")
  BY <1>3, <1>4 DEF CanTransition, TRANSITIONS
<1> HIDE DEF m
<1>6. /\ n \in Order /\ n.state = "PRICED" /\ n.pending = "authorize" /\ HistoryFits(n)
      /\ n.subtotal = s /\ n.total = t
      /\ \A f \in { "promoCode", "authorizedAmount", "paymentAttempts",
                    "allocationAttempts", "captureAttempts", "settlement" } : n[f] = r[f]
  <2>1. "PRICED" \in OrderState /\ "authorize" \in Continuation
    BY DEF OrderState, Continuation
  <2>2. /\ n \in Order /\ n.state = "PRICED" /\ n.pending = "authorize" /\ HistoryFits(n)
        /\ n.subtotal = m.subtotal /\ n.total = m.total
        /\ \A f \in { "promoCode", "authorizedAmount", "paymentAttempts",
                      "allocationAttempts", "captureAttempts", "settlement" } : n[f] = m[f]
    BY <1>3, <1>4, <1>5, <2>1, TransitionType
  <2> HIDE DEF n
  <2> QED
    BY <1>3, <2>2
<1> HIDE DEF n
<1>7. s \in Subtotals(q.goods, IF q.promoCode = "live" THEN "live" ELSE "none")
  BY <1>1 DEF OrderFits, MoneyFits, Subtotals
<1>8. OrderFits(q, n)
  BY <1>1, <1>2, <1>4, <1>6, <1>7, LimitsAssumption
     DEF OrderFits, StatesAt, AttemptsFit, MoneyFits
<1> QED
  BY <1>8, BecomesFits DEF Priced, n, m

LEMMA PriceStepFits ==
  ASSUME IInv, NEW o \in Orders, PriceStep(o)
  PROVE  IInv'
BY PricedFits DEF PriceStep, At

LEMMA RepriceFits ==
  ASSUME IInv, NEW o \in Orders, Reprice(o)
  PROVE  IInv'
<1>1. order[o].promoCode = "none"
  BY Fits DEF Reprice, At, OrderFits, MoneyFits
<1> QED
  BY <1>1, PricedFits DEF Reprice, At

LEMMA ExpiredPromoFits ==
  ASSUME IInv, NEW o \in Orders, ExpiredPromo(o)
  PROVE  IInv'
<1> DEFINE r == order[o]
           n == [r EXCEPT !.promoCode = "none", !.pending = "reprice"]
<1>1. /\ r \in Order /\ OrderFits(request[o], r) /\ r.pending = "price" /\ Becomes(o, n)
      /\ r.promoCode = "expired"
  BY Fits DEF ExpiredPromo, At
<1>2. n \in Order /\ n.history = r.history /\ n.state = r.state
  BY <1>1 DEF Order, Continuation, Settlement, PromoCode
<1>3. HistoryFits(n)
  BY <1>1, <1>2, SameHistory DEF OrderFits
<1>4. OrderFits(request[o], n)
  BY <1>1, <1>2, <1>3, LimitsAssumption, LimitsRelation
     DEF OrderFits, StatesAt, AttemptsFit, MoneyFits, Order
<1> QED
  BY <1>1, <1>4, BecomesFits

LEMMA PricingCrashFits ==
  ASSUME IInv, NEW o \in Orders, PricingCrash(o)
  PROVE  IInv'
<1> DEFINE r == order[o]
           q == request[o]
           priced == Transition(r, "PRICED", "price")
           failed == Transition(priced, "PRICING_FAILED", "recover")
           n == [failed EXCEPT !.promoCode = "none"]
<1>1. /\ r \in Order /\ OrderFits(q, r) /\ r.pending = "price" /\ r.promoCode = "ruleless"
      /\ r.state = "VALIDATED" /\ HistoryFits(r)
  BY Fits DEF PricingCrash, At, OrderFits, StatesAt
<1>2. /\ priced \in Order /\ priced.state = "PRICED" /\ HistoryFits(priced)
      /\ \A f \in { "promoCode", "subtotal", "total", "authorizedAmount",
                    "paymentAttempts", "allocationAttempts", "captureAttempts",
                    "settlement" } : priced[f] = r[f]
  <2>1. CanTransition(r.state, "PRICED")
    BY <1>1 DEF CanTransition, TRANSITIONS
  <2> QED
    BY <1>1, <2>1, TransitionType DEF OrderState, Continuation
<1> HIDE DEF priced
<1>3. /\ failed \in Order /\ failed.state = "PRICING_FAILED" /\ failed.pending = "recover"
      /\ HistoryFits(failed)
      /\ \A f \in { "promoCode", "subtotal", "total", "authorizedAmount",
                    "paymentAttempts", "allocationAttempts", "captureAttempts",
                    "settlement" } : failed[f] = r[f]
  <2>1. CanTransition(priced.state, "PRICING_FAILED")
    BY <1>2 DEF CanTransition, TRANSITIONS
  <2> QED
    BY <1>2, <2>1, TransitionType DEF OrderState, Continuation
<1> DEFINE left == IF priced.state = "PRICED" THEN failed ELSE priced
<1>4. Becomes(o, IF left.state = "PRICING_FAILED"
                 THEN [left EXCEPT !.promoCode = "none"] ELSE left)
  BY Zenon DEF PricingCrash, priced
<1>5. left = failed
  BY <1>2
<1> HIDE DEF failed, left
<1>6. /\ n \in Order /\ n.state = failed.state /\ n.history = failed.history
      /\ n.pending = "recover" /\ n.promoCode = "none"
      /\ \A f \in { "subtotal", "total", "authorizedAmount", "paymentAttempts",
                    "allocationAttempts", "captureAttempts", "settlement" } : n[f] = r[f]
  BY <1>3 DEF Order, PromoCode
<1>7. HistoryFits(n)
  BY <1>3, <1>6, SameHistory
<1>8. OrderFits(q, n)
  BY <1>1, <1>3, <1>6, <1>7 DEF OrderFits, StatesAt, AttemptsFit, MoneyFits
<1> QED
  BY <1>3, <1>4, <1>5, <1>8, BecomesFits

LEMMA AuthorizeStepFits ==
  ASSUME IInv, NEW o \in Orders, AuthorizeStep(o)
  PROVE  IInv'
<1> DEFINE r == order[o]
           k == r.paymentAttempts + 1
           n == [r EXCEPT !.paymentAttempts = k, !.pending = "authorizing"]
<1>1. r \in Order /\ OrderFits(request[o], r) /\ r.pending = "authorize"
  BY Fits DEF AuthorizeStep, At
<1>2. k \in Nat /\ k = r.paymentAttempts + 1
  BY <1>1 DEF Order
<1>3. Becomes(o, n)
  BY DEF AuthorizeStep
<1> HIDE DEF k
<1>4. /\ n \in Order /\ n.history = r.history /\ n.state = r.state
      /\ n.paymentAttempts = r.paymentAttempts + 1 /\ n.pending = "authorizing"
      /\ \A f \in { "promoCode", "subtotal", "total", "authorizedAmount",
                    "allocationAttempts", "captureAttempts", "settlement" } : n[f] = r[f]
  BY <1>1, <1>2 DEF Order, Continuation
<1>5. HistoryFits(n)
  BY <1>1, <1>4, SameHistory DEF OrderFits
<1> HIDE DEF n
<1>6. OrderFits(request[o], n)
  BY <1>1, <1>4, <1>5, LimitsAssumption, LimitsRelation
     DEF OrderFits, StatesAt, AttemptsFit, MoneyFits, Order
<1> QED
  BY <1>1, <1>3, <1>6, BecomesFits

LEMMA AuthorizeApprovedFits ==
  ASSUME IInv, NEW o \in Orders, AuthorizeApproved(o)
  PROVE  IInv'
<1> DEFINE r == order[o]
           m == [r EXCEPT !.authorizedAmount = r.total, !.settlement = "authorized"]
           n == Transition(m, "PAYMENT_AUTHORIZED", "fraud")
<1>1. r \in Order /\ OrderFits(request[o], r) /\ r.pending = "authorizing" /\ Becomes(o, n)
  BY Fits DEF AuthorizeApproved, At
<1>2. /\ m \in Order /\ m.history = r.history /\ m.state = r.state
      /\ m.authorizedAmount = r.total /\ m.settlement = "authorized"
      /\ \A f \in { "pending", "promoCode", "subtotal", "total", "paymentAttempts",
                    "allocationAttempts", "captureAttempts" } : m[f] = r[f]
  BY <1>1 DEF Order, Amount, Settlement
<1>3. r.state = "PRICED" /\ HistoryFits(m)
  BY <1>1, <1>2, SameHistory DEF OrderFits, StatesAt
<1>4. CanTransition(m.state, "PAYMENT_AUTHORIZED")
  BY <1>2, <1>3 DEF CanTransition, TRANSITIONS
<1> HIDE DEF m
<1>5. /\ n \in Order /\ n.state = "PAYMENT_AUTHORIZED" /\ n.pending = "fraud"
      /\ HistoryFits(n)
      /\ \A f \in { "promoCode", "subtotal", "total", "authorizedAmount",
                    "paymentAttempts", "allocationAttempts", "captureAttempts",
                    "settlement" } : n[f] = m[f]
  BY <1>2, <1>3, <1>4, TransitionType, SMTT(30) DEF OrderState, Continuation
<1> HIDE DEF n
<1>6. OrderFits(request[o], n)
  BY <1>1, <1>2, <1>3, <1>5 DEF OrderFits, StatesAt, AttemptsFit, MoneyFits
<1> QED
  BY <1>1, <1>6, BecomesFits DEF n, m

LEMMA AuthorizeDeclinedFits ==
  ASSUME IInv, NEW o \in Orders, AuthorizeDeclined(o)
  PROVE  IInv'
<1> DEFINE r == order[o]
           ended == Transition(r, "PAYMENT_DECLINED", "none")
           again == [r EXCEPT !.pending = "authorize"]
           last == r.paymentAttempts >= PAYMENT_MAX_DECLINE_ATTEMPTS
<1>1. /\ r \in Order /\ OrderFits(request[o], r) /\ r.pending = "authorizing"
      /\ Becomes(o, IF last THEN ended ELSE again)
  BY Fits DEF AuthorizeDeclined, At
<1>2. r.state = "PRICED" /\ HistoryFits(r)
  BY <1>1 DEF OrderFits, StatesAt
<1>3. CASE last
  <2>1. CanTransition(r.state, "PAYMENT_DECLINED")
    BY <1>2 DEF CanTransition, TRANSITIONS
  <2>2. /\ ended \in Order /\ ended.state = "PAYMENT_DECLINED" /\ ended.pending = "none"
        /\ HistoryFits(ended)
        /\ \A f \in { "promoCode", "subtotal", "total", "authorizedAmount",
                      "paymentAttempts", "allocationAttempts", "captureAttempts",
                      "settlement" } : ended[f] = r[f]
    BY <1>1, <1>2, <2>1, TransitionType DEF OrderState, Continuation
  <2>3. Becomes(o, ended)
    BY <1>1, <1>3
  <2> HIDE DEF ended
  <2>4. OrderFits(request[o], ended)
    BY <1>1, <1>2, <2>2 DEF OrderFits, StatesAt, AttemptsFit, MoneyFits, TERMINAL_STATES
  <2> QED
    BY <1>1, <2>3, <2>4, BecomesFits
<1>4. CASE ~last
  <2>1. again \in Order /\ again.history = r.history /\ again.state = r.state
    BY <1>1 DEF Order, Continuation
  <2>2. HistoryFits(again)
    BY <1>1, <2>1, SameHistory DEF OrderFits
  <2>3. r.paymentAttempts <= GATEWAY_MAX_RETRIES
    BY <1>1, <1>4, LimitsAssumption, LimitsRelation DEF Order
  <2>4. OrderFits(request[o], again)
    BY <1>1, <1>2, <2>1, <2>2, <2>3
       DEF OrderFits, StatesAt, AttemptsFit, MoneyFits, Order
  <2> QED
    BY <1>1, <1>4, <2>4, BecomesFits
<1> QED
  BY <1>3, <1>4

LEMMA AuthorizeGatewayErrorFits ==
  ASSUME IInv, NEW o \in Orders, AuthorizeGatewayError(o)
  PROVE  IInv'
<1> DEFINE r == order[o]
           ended == Transition(r, "FAILED", "none")
           again == [r EXCEPT !.pending = "authorize"]
           last == r.paymentAttempts > GATEWAY_MAX_RETRIES
<1>1. /\ r \in Order /\ OrderFits(request[o], r) /\ r.pending = "authorizing"
      /\ Becomes(o, IF last THEN ended ELSE again)
  BY Fits DEF AuthorizeGatewayError, At
<1>2. r.state = "PRICED" /\ HistoryFits(r)
  BY <1>1 DEF OrderFits, StatesAt
<1>3. CASE last
  <2>1. CanTransition(r.state, "FAILED")
    BY <1>2 DEF CanTransition, TRANSITIONS
  <2>2. /\ ended \in Order /\ ended.state = "FAILED" /\ ended.pending = "none"
        /\ HistoryFits(ended)
        /\ \A f \in { "promoCode", "subtotal", "total", "authorizedAmount",
                      "paymentAttempts", "allocationAttempts", "captureAttempts",
                      "settlement" } : ended[f] = r[f]
    BY <1>1, <1>2, <2>1, TransitionType DEF OrderState, Continuation
  <2>3. Becomes(o, ended)
    BY <1>1, <1>3
  <2> HIDE DEF ended
  <2>4. OrderFits(request[o], ended)
    BY <1>1, <1>2, <2>2 DEF OrderFits, StatesAt, AttemptsFit, MoneyFits, TERMINAL_STATES
  <2> QED
    BY <1>1, <2>3, <2>4, BecomesFits
<1>4. CASE ~last
  <2>1. again \in Order /\ again.history = r.history /\ again.state = r.state
    BY <1>1 DEF Order, Continuation
  <2>2. HistoryFits(again)
    BY <1>1, <2>1, SameHistory DEF OrderFits
  <2>3. r.paymentAttempts <= GATEWAY_MAX_RETRIES
    BY <1>1, <1>4, LimitsAssumption, LimitsRelation DEF Order
  <2>4. OrderFits(request[o], again)
    BY <1>1, <1>2, <2>1, <2>2, <2>3
       DEF OrderFits, StatesAt, AttemptsFit, MoneyFits, Order
  <2> QED
    BY <1>1, <1>4, <2>4, BecomesFits
<1> QED
  BY <1>3, <1>4

LEMMA FraudStepFits ==
  ASSUME IInv, NEW o \in Orders, FraudStep(o)
  PROVE  IInv'
<1> DEFINE r == order[o]
<1>1. /\ r \in Order /\ OrderFits(request[o], r) /\ r.pending = "fraud"
      /\ \/ Becomes(o, Transition(r, "FRAUD_HOLD", "fraudReview"))
         \/ Becomes(o, Transition(r, "FRAUD_CLEARED", "allocate"))
  BY Fits DEF FraudStep, At
<1>2. r.state \in { "PAYMENT_AUTHORIZED" } /\ HistoryFits(r)
  BY <1>1 DEF OrderFits, StatesAt
<1>3. OrderFits(request[o], Transition(r, "FRAUD_HOLD", "fraudReview"))
  <2> DEFINE n == Transition(r, "FRAUD_HOLD", "fraudReview")
  <2>1. CanTransition(r.state, "FRAUD_HOLD")
    BY <1>2 DEF CanTransition, TRANSITIONS
  <2>2. /\ n \in Order /\ n.state = "FRAUD_HOLD" /\ n.pending = "fraudReview" /\ HistoryFits(n)
        /\ \A f \in { "promoCode", "subtotal", "total", "authorizedAmount",
                      "paymentAttempts", "allocationAttempts", "captureAttempts",
                      "settlement" } : n[f] = r[f]
    BY <1>1, <1>2, <2>1, TransitionType DEF OrderState, Continuation
  <2> HIDE DEF n
  <2>3. OrderFits(request[o], n)
    BY <1>1, <1>2, <2>2, LimitsAssumption
       DEF OrderFits, StatesAt, AttemptsFit, MoneyFits
  <2> QED
    BY <2>3 DEF n
<1>4. OrderFits(request[o], Transition(r, "FRAUD_CLEARED", "allocate"))
  <2> DEFINE n == Transition(r, "FRAUD_CLEARED", "allocate")
  <2>1. CanTransition(r.state, "FRAUD_CLEARED")
    BY <1>2 DEF CanTransition, TRANSITIONS
  <2>2. /\ n \in Order /\ n.state = "FRAUD_CLEARED" /\ n.pending = "allocate" /\ HistoryFits(n)
        /\ \A f \in { "promoCode", "subtotal", "total", "authorizedAmount",
                      "paymentAttempts", "allocationAttempts", "captureAttempts",
                      "settlement" } : n[f] = r[f]
    BY <1>1, <1>2, <2>1, TransitionType DEF OrderState, Continuation
  <2> HIDE DEF n
  <2>3. OrderFits(request[o], n)
    BY <1>1, <1>2, <2>2, LimitsAssumption
       DEF OrderFits, StatesAt, AttemptsFit, MoneyFits
  <2> QED
    BY <2>3 DEF n
<1> QED
  BY <1>1, <1>3, <1>4, BecomesFits

LEMMA FraudReviewStepFits ==
  ASSUME IInv, NEW o \in Orders, FraudReviewStep(o)
  PROVE  IInv'
<1> DEFINE r == order[o]
<1>1. /\ r \in Order /\ OrderFits(request[o], r) /\ r.pending = "fraudReview"
      /\ \/ Becomes(o, Transition(r, "FRAUD_CLEARED", "allocate"))
         \/ Becomes(o, Transition(r, "CANCELLED", "none"))
  BY Fits DEF FraudReviewStep, At
<1>2. r.state \in { "FRAUD_HOLD" } /\ HistoryFits(r)
  BY <1>1 DEF OrderFits, StatesAt
<1>3. OrderFits(request[o], Transition(r, "FRAUD_CLEARED", "allocate"))
  <2> DEFINE n == Transition(r, "FRAUD_CLEARED", "allocate")
  <2>1. CanTransition(r.state, "FRAUD_CLEARED")
    BY <1>2 DEF CanTransition, TRANSITIONS
  <2>2. /\ n \in Order /\ n.state = "FRAUD_CLEARED" /\ n.pending = "allocate" /\ HistoryFits(n)
        /\ \A f \in { "promoCode", "subtotal", "total", "authorizedAmount",
                      "paymentAttempts", "allocationAttempts", "captureAttempts",
                      "settlement" } : n[f] = r[f]
    BY <1>1, <1>2, <2>1, TransitionType DEF OrderState, Continuation
  <2> HIDE DEF n
  <2>3. OrderFits(request[o], n)
    BY <1>1, <1>2, <2>2, LimitsAssumption
       DEF OrderFits, StatesAt, AttemptsFit, MoneyFits
  <2> QED
    BY <2>3 DEF n
<1>4. OrderFits(request[o], Transition(r, "CANCELLED", "none"))
  <2> DEFINE n == Transition(r, "CANCELLED", "none")
  <2>1. CanTransition(r.state, "CANCELLED")
    BY <1>2 DEF CanTransition, TRANSITIONS
  <2>2. /\ n \in Order /\ n.state = "CANCELLED" /\ n.pending = "none" /\ HistoryFits(n)
        /\ \A f \in { "promoCode", "subtotal", "total", "authorizedAmount",
                      "paymentAttempts", "allocationAttempts", "captureAttempts",
                      "settlement" } : n[f] = r[f]
    BY <1>1, <1>2, <2>1, TransitionType DEF OrderState, Continuation
  <2> HIDE DEF n
  <2>3. OrderFits(request[o], n)
    BY <1>1, <1>2, <2>2, LimitsAssumption
       DEF OrderFits, StatesAt, AttemptsFit, MoneyFits, TERMINAL_STATES
  <2> QED
    BY <2>3 DEF n
<1> QED
  BY <1>1, <1>3, <1>4, BecomesFits

LEMMA AllocateStepFits ==
  ASSUME IInv, NEW o \in Orders, AllocateStep(o)
  PROVE  IInv'
<1> DEFINE r == order[o]
           k == r.allocationAttempts + 1
           n == [r EXCEPT !.allocationAttempts = k, !.pending = "allocating"]
<1>1. r \in Order /\ OrderFits(request[o], r) /\ r.pending = "allocate"
  BY Fits DEF AllocateStep, At
<1>2. k \in Nat /\ k = r.allocationAttempts + 1
  BY <1>1 DEF Order
<1>3. Becomes(o, n)
  BY DEF AllocateStep
<1> HIDE DEF k
<1>4. /\ n \in Order /\ n.history = r.history /\ n.state = r.state
      /\ n.allocationAttempts = r.allocationAttempts + 1 /\ n.pending = "allocating"
      /\ \A f \in { "promoCode", "subtotal", "total", "authorizedAmount",
                    "paymentAttempts", "captureAttempts", "settlement" } : n[f] = r[f]
  BY <1>1, <1>2 DEF Order, Continuation
<1>5. HistoryFits(n)
  BY <1>1, <1>4, SameHistory DEF OrderFits
<1> HIDE DEF n
<1>6. OrderFits(request[o], n)
  BY <1>1, <1>4, <1>5, LimitsAssumption, LimitsRelation
     DEF OrderFits, StatesAt, AttemptsFit, MoneyFits, Order
<1> QED
  BY <1>1, <1>3, <1>6, BecomesFits

LEMMA AllocateDoneFits ==
  ASSUME IInv, NEW o \in Orders, AllocateDone(o)
  PROVE  IInv'
<1> DEFINE r == order[o]
<1>1. /\ r \in Order /\ OrderFits(request[o], r) /\ r.pending = "allocating"
      /\ Becomes(o, Transition(r, "ALLOCATED", "fulfill"))
  BY Fits DEF AllocateDone, At
<1>2. r.state \in { "FRAUD_CLEARED", "BACKORDERED" } /\ HistoryFits(r)
  BY <1>1 DEF OrderFits, StatesAt
<1>3. OrderFits(request[o], Transition(r, "ALLOCATED", "fulfill"))
  <2> DEFINE n == Transition(r, "ALLOCATED", "fulfill")
  <2>1. CanTransition(r.state, "ALLOCATED")
    BY <1>2 DEF CanTransition, TRANSITIONS
  <2>2. /\ n \in Order /\ n.state = "ALLOCATED" /\ n.pending = "fulfill" /\ HistoryFits(n)
        /\ \A f \in { "promoCode", "subtotal", "total", "authorizedAmount",
                      "paymentAttempts", "allocationAttempts", "captureAttempts",
                      "settlement" } : n[f] = r[f]
    BY <1>1, <1>2, <2>1, TransitionType DEF OrderState, Continuation
  <2> HIDE DEF n
  <2>3. OrderFits(request[o], n)
    BY <1>1, <1>2, <2>2, LimitsAssumption
       DEF OrderFits, StatesAt, AttemptsFit, MoneyFits
  <2> QED
    BY <2>3 DEF n
<1> QED
  BY <1>1, <1>3, BecomesFits

LEMMA CaptureDoneFits ==
  ASSUME IInv, NEW o \in Orders, CaptureDone(o)
  PROVE  IInv'
<1> DEFINE r == order[o]
           n == [r EXCEPT !.settlement = "captured", !.pending = "ship"]
<1>1. r \in Order /\ OrderFits(request[o], r) /\ r.pending = "capturing" /\ Becomes(o, n)
  BY Fits DEF CaptureDone, At
<1>2. n \in Order /\ n.history = r.history /\ n.state = r.state
  BY <1>1 DEF Order, Continuation, Settlement, PromoCode
<1>3. HistoryFits(n)
  BY <1>1, <1>2, SameHistory DEF OrderFits
<1>4. OrderFits(request[o], n)
  BY <1>1, <1>2, <1>3, LimitsAssumption, LimitsRelation
     DEF OrderFits, StatesAt, AttemptsFit, MoneyFits, Order
<1> QED
  BY <1>1, <1>4, BecomesFits

LEMMA ShipStepFits ==
  ASSUME IInv, NEW o \in Orders, ShipStep(o)
  PROVE  IInv'
<1> DEFINE r == order[o]
<1>1. /\ r \in Order /\ OrderFits(request[o], r) /\ r.pending = "ship"
      /\ Becomes(o, Transition(r, "SHIPPED", "deliver"))
  BY Fits DEF ShipStep, At
<1>2. r.state \in { "FULFILLING" } /\ HistoryFits(r)
  BY <1>1 DEF OrderFits, StatesAt
<1>3. OrderFits(request[o], Transition(r, "SHIPPED", "deliver"))
  <2> DEFINE n == Transition(r, "SHIPPED", "deliver")
  <2>1. CanTransition(r.state, "SHIPPED")
    BY <1>2 DEF CanTransition, TRANSITIONS
  <2>2. /\ n \in Order /\ n.state = "SHIPPED" /\ n.pending = "deliver" /\ HistoryFits(n)
        /\ \A f \in { "promoCode", "subtotal", "total", "authorizedAmount",
                      "paymentAttempts", "allocationAttempts", "captureAttempts",
                      "settlement" } : n[f] = r[f]
    BY <1>1, <1>2, <2>1, TransitionType DEF OrderState, Continuation
  <2> HIDE DEF n
  <2>3. OrderFits(request[o], n)
    BY <1>1, <1>2, <2>2, LimitsAssumption
       DEF OrderFits, StatesAt, AttemptsFit, MoneyFits
  <2> QED
    BY <2>3 DEF n
<1> QED
  BY <1>1, <1>3, BecomesFits

LEMMA NoCarrierFits ==
  ASSUME IInv, NEW o \in Orders, NoCarrier(o)
  PROVE  IInv'
<1> DEFINE r == order[o]
<1>1. /\ r \in Order /\ OrderFits(request[o], r) /\ r.pending = "ship"
      /\ Becomes(o, Transition(r, "FAILED", "none"))
  BY Fits DEF NoCarrier, At
<1>2. r.state \in { "FULFILLING" } /\ HistoryFits(r)
  BY <1>1 DEF OrderFits, StatesAt
<1>3. OrderFits(request[o], Transition(r, "FAILED", "none"))
  <2> DEFINE n == Transition(r, "FAILED", "none")
  <2>1. CanTransition(r.state, "FAILED")
    BY <1>2 DEF CanTransition, TRANSITIONS
  <2>2. /\ n \in Order /\ n.state = "FAILED" /\ n.pending = "none" /\ HistoryFits(n)
        /\ \A f \in { "promoCode", "subtotal", "total", "authorizedAmount",
                      "paymentAttempts", "allocationAttempts", "captureAttempts",
                      "settlement" } : n[f] = r[f]
    BY <1>1, <1>2, <2>1, TransitionType DEF OrderState, Continuation
  <2> HIDE DEF n
  <2>3. OrderFits(request[o], n)
    BY <1>1, <1>2, <2>2, LimitsAssumption
       DEF OrderFits, StatesAt, AttemptsFit, MoneyFits, TERMINAL_STATES
  <2> QED
    BY <2>3 DEF n
<1> QED
  BY <1>1, <1>3, BecomesFits

LEMMA DeliverStepFits ==
  ASSUME IInv, NEW o \in Orders, DeliverStep(o)
  PROVE  IInv'
<1> DEFINE r == order[o]
<1>1. /\ r \in Order /\ OrderFits(request[o], r) /\ r.pending = "deliver"
      /\ Becomes(o, Transition(r, "DELIVERED", "none"))
  BY Fits DEF DeliverStep, At
<1>2. r.state \in { "SHIPPED" } /\ HistoryFits(r)
  BY <1>1 DEF OrderFits, StatesAt
<1>3. OrderFits(request[o], Transition(r, "DELIVERED", "none"))
  <2> DEFINE n == Transition(r, "DELIVERED", "none")
  <2>1. CanTransition(r.state, "DELIVERED")
    BY <1>2 DEF CanTransition, TRANSITIONS
  <2>2. /\ n \in Order /\ n.state = "DELIVERED" /\ n.pending = "none" /\ HistoryFits(n)
        /\ \A f \in { "promoCode", "subtotal", "total", "authorizedAmount",
                      "paymentAttempts", "allocationAttempts", "captureAttempts",
                      "settlement" } : n[f] = r[f]
    BY <1>1, <1>2, <2>1, TransitionType DEF OrderState, Continuation
  <2> HIDE DEF n
  <2>3. OrderFits(request[o], n)
    BY <1>1, <1>2, <2>2, LimitsAssumption
       DEF OrderFits, StatesAt, AttemptsFit, MoneyFits, TERMINAL_STATES
  <2> QED
    BY <2>3 DEF n
<1> QED
  BY <1>1, <1>3, BecomesFits

LEMMA AllocateShortFits ==
  ASSUME IInv, NEW o \in Orders, AllocateShort(o)
  PROVE  IInv'
<1> DEFINE r == order[o]
           n == AfterShortage(r)
<1>1. /\ r \in Order /\ OrderFits(request[o], r) /\ r.pending = "allocating"
      /\ Becomes(o, n)
  BY Fits DEF AllocateShort, At
<1>2. r.state \in { "FRAUD_CLEARED", "BACKORDERED" } /\ HistoryFits(r)
  BY <1>1 DEF OrderFits, StatesAt
<1>3. r.state = "FRAUD_CLEARED" => r.allocationAttempts = 1
  BY <1>1 DEF OrderFits, AttemptsFit
<1>4. CASE r.allocationAttempts >= RETRYABLE_ATTEMPTS
  <2>1. n = DeadLetter(r) /\ r.state = "BACKORDERED"
    BY <1>2, <1>3, <1>4, LimitsAssumption, LimitsRelation DEF AfterShortage
  <2>2. OrderFits(request[o], DeadLetter(r))
    BY <1>1, <1>2, <2>1, DeadLetterType
       DEF OrderFits, StatesAt, AttemptsFit, MoneyFits
  <2> QED
    BY <1>1, <2>1, <2>2, BecomesFits
<1>5. CASE /\ ~(r.allocationAttempts >= RETRYABLE_ATTEMPTS)
           /\ r.allocationAttempts >= BACKORDER_MAX_ATTEMPTS
           /\ r.state = "BACKORDERED"
  <2>1. n = Transition(r, "CANCELLED", "none")
    BY <1>5 DEF AfterShortage
  <2>2. CanTransition(r.state, "CANCELLED")
    BY <1>5 DEF CanTransition, TRANSITIONS
  <2>3. OrderFits(request[o], Transition(r, "CANCELLED", "none"))
    BY <1>1, <1>2, <2>2, TransitionType
       DEF OrderFits, StatesAt, AttemptsFit, MoneyFits, OrderState, Continuation,
           TERMINAL_STATES
  <2> QED
    BY <1>1, <2>1, <2>3, BecomesFits
<1>6. CASE /\ ~(r.allocationAttempts >= RETRYABLE_ATTEMPTS)
           /\ ~(r.allocationAttempts >= BACKORDER_MAX_ATTEMPTS)
           /\ r.state = "FRAUD_CLEARED"
  <2>1. n = Transition(r, "BACKORDERED", "allocate")
    BY <1>6 DEF AfterShortage
  <2>2. CanTransition(r.state, "BACKORDERED")
    BY <1>6 DEF CanTransition, TRANSITIONS
  <2> DEFINE m == Transition(r, "BACKORDERED", "allocate")
  <2>3. /\ m \in Order /\ m.state = "BACKORDERED" /\ m.pending = "allocate"
        /\ HistoryFits(m)
        /\ \A f \in { "promoCode", "subtotal", "total", "authorizedAmount",
                      "paymentAttempts", "allocationAttempts", "captureAttempts",
                      "settlement" } : m[f] = r[f]
    BY <1>1, <1>2, <2>2, TransitionType DEF OrderState, Continuation
  <2> HIDE DEF m
  <2>4. r.allocationAttempts < BACKORDER_MAX_ATTEMPTS
    BY <1>1, <1>6, LimitsAssumption DEF Order
  <2>5. OrderFits(request[o], m)
    BY <1>1, <1>2, <2>3, <2>4 DEF OrderFits, StatesAt, AttemptsFit, MoneyFits
  <2> QED
    BY <1>1, <2>1, <2>5, BecomesFits DEF m
<1>7. CASE /\ ~(r.allocationAttempts >= RETRYABLE_ATTEMPTS)
           /\ ~(r.allocationAttempts >= BACKORDER_MAX_ATTEMPTS)
           /\ r.state = "BACKORDERED"
  <2> DEFINE again == [r EXCEPT !.pending = "allocate"]
  <2>1. n = again
    BY <1>7 DEF AfterShortage
  <2>2. again \in Order /\ again.history = r.history /\ again.state = r.state
    BY <1>1 DEF Order, Continuation
  <2>3. HistoryFits(again)
    BY <1>1, <1>2, <2>2, SameHistory
  <2>4. OrderFits(request[o], again)
    BY <1>1, <1>7, <2>2, <2>3, LimitsAssumption
       DEF OrderFits, StatesAt, AttemptsFit, MoneyFits, Order
  <2> QED
    BY <1>1, <2>1, <2>4, BecomesFits
<1>8. r.state = "FRAUD_CLEARED" => ~(r.allocationAttempts >= BACKORDER_MAX_ATTEMPTS)
  BY <1>3, LimitsAssumption, LimitsRelation
<1> QED
  BY <1>2, <1>4, <1>5, <1>6, <1>7, <1>8

\* Whatever attemptCapture finds, an order in FULFILLING that it leaves fits.
LEMMA AttemptCaptureFits ==
  ASSUME NEW q, NEW r \in Order, NEW held \in BOOLEAN, NEW expected \in Int,
         r.state = "FULFILLING", HistoryFits(r),
         AttemptsFit([r EXCEPT !.pending = "capturing"]),
         MoneyFits(q, [r EXCEPT !.pending = "capturing"]),
         r.captureAttempts < CAPTURE_CONFIRM_MAX_ATTEMPTS
  PROVE  OrderFits(q, AttemptCapture(r, held, expected))
<1> DEFINE c == [r EXCEPT !.pending = "capturing"]
           counted == [r EXCEPT !.captureAttempts = @ + 1]
<1>1. /\ c \in Order /\ c.history = r.history /\ c.state = r.state /\ c.pending = "capturing"
      /\ \A f \in { "promoCode", "subtotal", "total", "authorizedAmount",
                    "paymentAttempts", "allocationAttempts", "captureAttempts",
                    "settlement" } : c[f] = r[f]
  BY DEF Order, Continuation
<1>2. AttemptsFit(c) /\ MoneyFits(q, c)
  OBVIOUS
<1>3. /\ counted \in Order /\ counted.history = r.history /\ counted.state = r.state
      /\ counted.captureAttempts = r.captureAttempts + 1
      /\ \A f \in { "pending", "promoCode", "subtotal", "total", "authorizedAmount",
                    "paymentAttempts", "allocationAttempts", "settlement" } :
           counted[f] = r[f]
  BY DEF Order
<1> HIDE DEF c, counted
<1>4. HistoryFits(counted)
  BY <1>3, SameHistory
<1>5. CASE held /\ counted.captureAttempts >= CAPTURE_CONFIRM_MAX_ATTEMPTS
  <2>1. AttemptCapture(r, held, expected) = Transition(counted, "FAILED", "none")
    BY <1>5 DEF AttemptCapture, ScheduleCaptureConfirmation, counted
  <2>2. CanTransition(counted.state, "FAILED")
    BY <1>3 DEF CanTransition, TRANSITIONS
  <2> DEFINE n == Transition(counted, "FAILED", "none")
  <2>3. /\ n \in Order /\ n.state = "FAILED" /\ n.pending = "none" /\ HistoryFits(n)
        /\ \A f \in { "promoCode", "subtotal", "total", "authorizedAmount",
                      "paymentAttempts", "allocationAttempts", "captureAttempts",
                      "settlement" } : n[f] = counted[f]
    BY <1>3, <1>4, <2>2, TransitionType DEF OrderState, Continuation
  <2> HIDE DEF n
  <2>4. n.captureAttempts <= CAPTURE_CONFIRM_MAX_ATTEMPTS
    BY <1>3, <2>3, LimitsAssumption DEF Order
  <2>5. OrderFits(q, n)
    BY <1>1, <1>2, <1>3, <2>3, <2>4
       DEF OrderFits, StatesAt, AttemptsFit, MoneyFits, TERMINAL_STATES
  <2> QED
    BY <2>1, <2>5 DEF n
<1>6. CASE held /\ ~(counted.captureAttempts >= CAPTURE_CONFIRM_MAX_ATTEMPTS)
  <2> DEFINE n == [counted EXCEPT !.pending = "confirm"]
  <2>1. AttemptCapture(r, held, expected) = n
    BY <1>6 DEF AttemptCapture, ScheduleCaptureConfirmation, counted
  <2>2. /\ n \in Order /\ n.history = r.history /\ n.state = r.state /\ n.pending = "confirm"
        /\ n.captureAttempts = r.captureAttempts + 1
        /\ \A f \in { "promoCode", "subtotal", "total", "authorizedAmount",
                      "paymentAttempts", "allocationAttempts", "settlement" } : n[f] = r[f]
    BY <1>3 DEF Order, Continuation
  <2>3. HistoryFits(n)
    BY <2>2, SameHistory
  <2> HIDE DEF n
  <2>4. n.captureAttempts \in 1 .. CAPTURE_CONFIRM_MAX_ATTEMPTS - 1
    BY <1>3, <1>6, <2>2, LimitsAssumption DEF Order
  <2>5. OrderFits(q, n)
    BY <1>1, <1>2, <2>2, <2>3, <2>4, LimitsAssumption
       DEF OrderFits, StatesAt, AttemptsFit, MoneyFits, Order
  <2> QED
    BY <2>1, <2>5
<1>7. CASE ~held /\ 100 * expected = r.authorizedAmount
  <2>1. AttemptCapture(r, held, expected) = c
    BY <1>7 DEF AttemptCapture, c
  <2>2. HistoryFits(c)
    BY <1>1, SameHistory
  <2> QED
    BY <1>1, <1>2, <2>1, <2>2 DEF OrderFits, StatesAt
<1>8. CASE ~held /\ 100 * expected # r.authorizedAmount
  <2> DEFINE n == [r EXCEPT !.authorizedAmount = r.total, !.settlement = "mismatched",
                            !.pending = "ship"]
  <2>1. AttemptCapture(r, held, expected) = n
    BY <1>8 DEF AttemptCapture
  <2>2. /\ n \in Order /\ n.history = r.history /\ n.state = r.state /\ n.pending = "ship"
        /\ n.settlement = "mismatched" /\ n.authorizedAmount = r.total
        /\ \A f \in { "promoCode", "subtotal", "total", "paymentAttempts",
                      "allocationAttempts", "captureAttempts" } : n[f] = r[f]
    BY DEF Order, Continuation, Settlement, Amount
  <2>3. HistoryFits(n)
    BY <2>2, SameHistory
  <2> HIDE DEF n
  <2>4. OrderFits(q, n)
    BY <1>1, <1>2, <2>2, <2>3, LimitsAssumption
       DEF OrderFits, StatesAt, AttemptsFit, MoneyFits, Order
  <2> QED
    BY <2>1, <2>4
<1> QED
  BY <1>5, <1>6, <1>7, <1>8

LEMMA FulfillStepFits ==
  ASSUME IInv, NEW o \in Orders, FulfillStep(o)
  PROVE  IInv'
<1> DEFINE r == order[o]
           n == Transition(r, "FULFILLING", "capturing")
<1>1. PICK held \in BOOLEAN, expected \in TaxedTotals(r.subtotal) :
        Becomes(o, IF n.state = "FULFILLING" THEN AttemptCapture(n, held, expected) ELSE n)
  BY DEF FulfillStep
<1>2. r \in Order /\ OrderFits(request[o], r) /\ r.pending = "fulfill"
  BY Fits DEF FulfillStep, At
<1>3. r.state = "ALLOCATED" /\ HistoryFits(r)
  BY <1>2 DEF OrderFits, StatesAt
<1>4. CanTransition(r.state, "FULFILLING")
  BY <1>3 DEF CanTransition, TRANSITIONS
<1>5. /\ n \in Order /\ n.state = "FULFILLING" /\ n.pending = "capturing" /\ HistoryFits(n)
      /\ \A f \in { "promoCode", "subtotal", "total", "authorizedAmount",
                    "paymentAttempts", "allocationAttempts", "captureAttempts",
                    "settlement" } : n[f] = r[f]
  BY <1>2, <1>3, <1>4, TransitionType DEF OrderState, Continuation
<1> HIDE DEF n
<1>6. [n EXCEPT !.pending = "capturing"] = n
  BY <1>5 DEF Order
<1>7. AttemptsFit(n) /\ MoneyFits(request[o], n)
  BY <1>2, <1>3, <1>5 DEF OrderFits, AttemptsFit, MoneyFits
<1>8. expected \in Int
  BY <1>1 DEF TaxedTotals, Nearest
<1>9. n.captureAttempts < CAPTURE_CONFIRM_MAX_ATTEMPTS
  BY <1>2, <1>5, LimitsAssumption DEF OrderFits, AttemptsFit
<1>10. OrderFits(request[o], AttemptCapture(n, held, expected))
  BY <1>5, <1>6, <1>7, <1>8, <1>9, AttemptCaptureFits
<1> QED
  BY <1>1, <1>5, <1>10, BecomesFits

LEMMA ConfirmCaptureStepFits ==
  ASSUME IInv, NEW o \in Orders, ConfirmCaptureStep(o)
  PROVE  IInv'
<1> DEFINE r == order[o]
           c == [r EXCEPT !.pending = "capturing"]
<1>1. PICK held \in BOOLEAN, expected \in TaxedTotals(r.subtotal) :
        Becomes(o, AttemptCapture(r, held, expected))
  BY DEF ConfirmCaptureStep
<1>2. r \in Order /\ OrderFits(request[o], r) /\ r.pending = "confirm"
  BY Fits DEF ConfirmCaptureStep, At
<1>3. r.state = "FULFILLING" /\ HistoryFits(r)
  BY <1>2 DEF OrderFits, StatesAt
<1>4. /\ c \in Order /\ c.state = r.state /\ c.pending = "capturing"
      /\ \A f \in { "promoCode", "subtotal", "total", "authorizedAmount",
                    "paymentAttempts", "allocationAttempts", "captureAttempts",
                    "settlement" } : c[f] = r[f]
  BY <1>2 DEF Order, Continuation
<1>5. AttemptsFit(c) /\ MoneyFits(request[o], c)
  <2> HIDE DEF c
  <2> QED
    BY <1>2, <1>3, <1>4 DEF OrderFits, AttemptsFit, MoneyFits
<1>6. expected \in Int
  <2>1. r.subtotal \in Int
    BY <1>2 DEF Order, Amount, Unset
  <2> QED
    BY <1>1, <2>1, SMTT(30) DEF TaxedTotals, Nearest
<1>7. r.captureAttempts < CAPTURE_CONFIRM_MAX_ATTEMPTS
  BY <1>2, LimitsAssumption DEF OrderFits, AttemptsFit, Order
<1>8. OrderFits(request[o], AttemptCapture(r, held, expected))
  BY <1>2, <1>3, <1>5, <1>6, <1>7, AttemptCaptureFits
<1> QED
  BY <1>1, <1>8, BecomesFits

LEMMA CaptureErrorFits ==
  ASSUME IInv, NEW o \in Orders, CaptureError(o)
  PROVE  IInv'
<1> DEFINE r == order[o]
<1>1. /\ r \in Order /\ OrderFits(request[o], r) /\ r.pending = "capturing"
      /\ Becomes(o, DeadLetter(r))
  BY Fits DEF CaptureError, At
<1>2. r.state = "FULFILLING" /\ HistoryFits(r)
  BY <1>1 DEF OrderFits, StatesAt
<1>3. OrderFits(request[o], DeadLetter(r))
  BY <1>1, <1>2, DeadLetterType DEF OrderFits, StatesAt, AttemptsFit, MoneyFits
<1> QED
  BY <1>1, <1>3, BecomesFits

-----------------------------------------------------------------------------
(* The invariant and what follows from it.                                 *)

LEMMA InitFits == Init => IInv
<1> SUFFICES ASSUME Init PROVE IInv
  OBVIOUS
<1>1. \A o \in Orders : order[o] = NewOrder(request[o]) /\ request[o] \in Request
  BY DEF Init
<1>2. ASSUME NEW q \in Request PROVE OrderFits(q, NewOrder(q))
  <2> DEFINE r == NewOrder(q)
  <2>1. /\ r.state = "RECEIVED" /\ r.pending = "created" /\ r.promoCode = q.promoCode
        /\ r.total = Unset /\ r.settlement = "none" /\ r.history = << >>
        /\ r.paymentAttempts = 0 /\ r.allocationAttempts = 0 /\ r.captureAttempts = 0
    BY DEF NewOrder
  <2>2. r \in Order
    BY DEF NewOrder, Order, Request, OrderState, Continuation, Amount, Settlement
  <2> HIDE DEF r
  <2>3. HistoryFits(r)
    BY <2>1 DEF HistoryFits
  <2>4. OrderFits(q, r)
    BY <2>1, <2>2, <2>3, LimitsAssumption
       DEF OrderFits, StatesAt, AttemptsFit, MoneyFits
  <2> QED
    BY <2>4 DEF r
<1>3. \A o \in Orders : OrderFits(request[o], order[o])
  BY <1>1, <1>2
<1> QED
  BY <1>3 DEF IInv, Init, OrderFits

LEMMA NextFits == IInv /\ [Next]_vars => IInv'
<1> SUFFICES ASSUME IInv, [Next]_vars PROVE IInv'
  OBVIOUS
<1>1. CASE UNCHANGED vars
  BY <1>1 DEF vars, IInv
<1>2. ASSUME NEW o \in Orders, Submit(o) PROVE IInv'
  BY <1>2, SubmitFits
<1>3. ASSUME NEW o \in Orders, Step(o) PROVE IInv'
  BY <1>3, ValidateStepFits, PriceStepFits, ExpiredPromoFits, PricingCrashFits,
     RepriceFits, AuthorizeStepFits, AuthorizeApprovedFits,
     AuthorizeDeclinedFits, AuthorizeGatewayErrorFits, FraudStepFits,
     FraudReviewStepFits, AllocateStepFits, AllocateDoneFits,
     AllocateShortFits, FulfillStepFits, ConfirmCaptureStepFits,
     CaptureDoneFits, CaptureErrorFits, ShipStepFits, NoCarrierFits,
     DeliverStepFits
     DEF Step
<1> QED
  BY <1>1, <1>2, <1>3 DEF Next

\* The inductive invariant holds in every state of every behaviour.
THEOREM Invariant == Spec => []IInv
BY InitFits, NextFits, PTL DEF Spec

\* Orders and requests keep their types, for any orders, amounts and limits.
THEOREM TypeCorrect == Spec => []TypeOK
<1>1. IInv => TypeOK
  BY DEF IInv, TypeOK
<1> QED
  BY <1>1, Invariant, PTL

\* Every unsettled order has exactly the continuation its state calls for.
THEOREM ContinuationCorrect == Spec => []StepMatchesState
<1>1. IInv => StepMatchesState
  BY DEF IInv, StepMatchesState, OrderFits
<1> QED
  BY <1>1, Invariant, PTL

\* The retry counters stay within the limits, whatever the limits are.
THEOREM RetriesCorrect == Spec => []RetriesBounded
<1>1. IInv => RetriesBounded
  BY DEF IInv, RetriesBounded, OrderFits, AttemptsFit
<1> QED
  BY <1>1, Invariant, PTL

\* The history of an order is a path to its state, of any length.
THEOREM HistoryCorrect == Spec => [](HistoryIsPath /\ DeadLetterOrigins)
<1>1. IInv => HistoryIsPath /\ DeadLetterOrigins
  <2> SUFFICES ASSUME IInv, NEW o \in Orders
               PROVE  LET h == order[o].history
                      IN  /\ \A i \in DOMAIN h :
                               h[i][1] = IF i = 1 THEN "RECEIVED" ELSE h[i - 1][2]
                          /\ order[o].state = IF h = << >> THEN "RECEIVED" ELSE h[Len(h)][2]
                          /\ \A i \in DOMAIN h : h[i][2] = "FAILED" =>
                               h[i][1] \in { "PRICED", "BACKORDERED", "FULFILLING" }
    BY DEF HistoryIsPath, DeadLetterOrigins
  <2> DEFINE h == order[o].history
  <2>1. h \in Seq(OrderState \X OrderState)
    BY Fits DEF Order
  <2>2. DOMAIN h = 1 .. Len(h) /\ (h = << >> <=> Len(h) = 0)
    BY <2>1
  <2>3. HistoryFits(order[o])
    BY DEF IInv, OrderFits
  <2> QED
    BY <2>2, <2>3 DEF HistoryFits
<1> QED
  BY <1>1, Invariant, PTL

\* Orders that failed a check are never priced or charged, the others only as they
\* were ordered: nobody is given the discount of a promotion that is not live.
THEOREM PricingCorrect == Spec => []PricedAsOrdered
<1>1. IInv => PricedAsOrdered
  BY DEF IInv, PricedAsOrdered, OrderFits, AttemptsFit, MoneyFits
<1> QED
  BY <1>1, Invariant, PTL

\* Nothing ships before its capture has been answered.
THEOREM ShipmentCorrect == Spec => []ShippedOnlySettled
<1>1. IInv => ShippedOnlySettled
  <2> SUFFICES ASSUME IInv, NEW o \in Orders, order[o].state \in { "SHIPPED", "DELIVERED" }
               PROVE  /\ order[o].settlement \in { "captured", "mismatched" }
                      /\ order[o].authorizedAmount = order[o].total
    BY DEF ShippedOnlySettled
  <2>1. order[o].state = "SHIPPED" => order[o].pending = "deliver"
    BY Fits DEF OrderFits, StatesAt, Order, Continuation, TERMINAL_STATES
  <2> QED
    BY <2>1, Fits DEF OrderFits, MoneyFits
<1> QED
  BY <1>1, Invariant, PTL

-----------------------------------------------------------------------------
(* What a step may never do.                                               *)

\* No action of an order touches another, and none finds a settled order.
LEMMA SettledHasNoStep ==
  ASSUME IInv, NEW o \in Orders, Settled(order[o].state)
  PROVE  ~ Submit(o) /\ ~ Step(o)
<1>1. order[o].pending = "none"
  BY Fits DEF OrderFits, StatesAt, Settled, TERMINAL_STATES, Order, Continuation
<1> QED
  BY <1>1 DEF At, Step, Submit, ValidateStep, PriceStep, ExpiredPromo, PricingCrash, Reprice,
              AuthorizeStep, AuthorizeApproved, AuthorizeDeclined,
              AuthorizeGatewayError, FraudStep, FraudReviewStep,
              AllocateStep, AllocateDone, AllocateShort, FulfillStep,
              ConfirmCaptureStep, CaptureDone, CaptureError, ShipStep,
              NoCarrier, DeliverStep

LEMMA StepTouchesOne ==
  ASSUME NEW o \in Orders, Submit(o) \/ Step(o), IInv
  PROVE  \A p \in Orders \ {o} : order'[p] = order[p]
<1>1. PICK r : Becomes(o, r)
  BY DEF Step, Submit, ValidateStep, PriceStep, ExpiredPromo, PricingCrash, Reprice,
         AuthorizeStep, AuthorizeApproved, AuthorizeDeclined,
         AuthorizeGatewayError, FraudStep, FraudReviewStep,
         AllocateStep, AllocateDone, AllocateShort, FulfillStep,
         ConfirmCaptureStep, CaptureDone, CaptureError, ShipStep,
         NoCarrier, DeliverStep
<1> QED
  BY <1>1 DEF Becomes, IInv

\* A delivered, refused, cancelled or failed order is never touched again.
THEOREM SettledCorrect == Spec => SettledIsFinal
<1>1. ASSUME IInv, [Next]_vars, NEW p \in Orders, Settled(order[p].state)
      PROVE  order'[p] = order[p]
  <2>1. CASE UNCHANGED vars
    BY <2>1 DEF vars
  <2>2. ASSUME NEW o \in Orders, Submit(o) \/ Step(o) PROVE order'[p] = order[p]
    <3>1. o # p
      BY <1>1, <2>2, SettledHasNoStep
    <3> QED
      BY <1>1, <2>2, <3>1, StepTouchesOne
  <2> QED
    BY <1>1, <2>1, <2>2 DEF Next
<1>2. IInv /\ [Next]_vars =>
        [\A o \in Orders : Settled(order[o].state) => order'[o] = order[o]]_vars
  BY <1>1
<1> QED
  BY <1>2, Invariant, PTL DEF Spec, SettledIsFinal

\* What an action of an order writes.
LEMMA BecomesOwn ==
  ASSUME IInv, NEW o \in Orders, NEW r, Becomes(o, r)
  PROVE  order'[o] = r
BY DEF IInv, Becomes

\* A transition and a dead letter change the state, the continuation and the history,
\* and with the leave of the table the state is the one asked for.
Kept == { "promoCode", "subtotal", "total", "authorizedAmount", "paymentAttempts",
          "allocationAttempts", "captureAttempts", "settlement" }

LEMMA DeadLetterKeeps ==
  ASSUME NEW r \in Order
  PROVE  /\ DeadLetter(r).state \in { r.state, "FAILED" }
         /\ \A f \in Kept : DeadLetter(r)[f] = r[f]
<1> DEFINE m == MoveTo(r, "FAILED")
<1>1. m.state = "FAILED" /\ m \in Order /\ \A f \in Kept : m[f] = r[f]
  BY MoveToType DEF OrderState, Kept
<1>2. DeadLetter(r) = [r EXCEPT !.pending = "none"] \/ DeadLetter(r) = [m EXCEPT !.pending = "none"]
  BY DEF DeadLetter
<1> HIDE DEF m
<1> QED
  BY <1>1, <1>2 DEF Order, Kept

LEMMA TransitionKeeps ==
  ASSUME NEW r \in Order, NEW to \in OrderState, NEW next \in Continuation
  PROVE  LET n == Transition(r, to, next)
         IN  /\ CanTransition(r.state, to) => n.state = to
             /\ \A f \in Kept : n[f] = r[f]
<1> DEFINE m == MoveTo(r, to)
<1>1. m.state = to /\ m \in Order /\ \A f \in Kept : m[f] = r[f]
  BY MoveToType DEF Kept
<1>2. Transition(r, to, next) = IF CanTransition(r.state, to)
                                THEN [m EXCEPT !.pending = next] ELSE DeadLetter(r)
  BY DEF Transition
<1>3. \A f \in Kept : DeadLetter(r)[f] = r[f]
  BY DeadLetterKeeps
<1> HIDE DEF m
<1>4. LET n == [m EXCEPT !.pending = next] IN n.state = to /\ \A f \in Kept : n[f] = r[f]
  BY <1>1 DEF Order, Kept
<1> QED
  BY <1>2, <1>3, <1>4

\* Where the gateway has approved the order, nothing that it approved changes, and
\* where capture has been answered, nothing of the answer.
FinalMoney(r, n) ==
  /\ r.settlement # "none" =>
       /\ n.settlement # "none" /\ n.paymentAttempts = r.paymentAttempts
       /\ n.subtotal = r.subtotal /\ n.total = r.total
       /\ n.authorizedAmount = r.authorizedAmount
  /\ r.settlement \in { "captured", "mismatched" } =>
       n.settlement = r.settlement /\ n.captureAttempts = r.captureAttempts

LEMMA SameMoney ==
  ASSUME NEW r, NEW n, \A f \in Kept : n[f] = r[f]
  PROVE  FinalMoney(r, n)
BY DEF FinalMoney, Kept

LEMMA AttemptCaptureMoney ==
  ASSUME NEW r \in Order, NEW held, NEW expected, r.settlement = "authorized",
         r.authorizedAmount = r.total
  PROVE  FinalMoney(r, AttemptCapture(r, held, expected))
<1> DEFINE counted == [r EXCEPT !.captureAttempts = @ + 1]
           n == AttemptCapture(r, held, expected)
<1>1. /\ counted \in Order
      /\ \A f \in Kept \ { "captureAttempts" } : counted[f] = r[f]
  BY DEF Order, Kept
<1>2. n \in { Transition(counted, "FAILED", "none"), [counted EXCEPT !.pending = "confirm"],
               [r EXCEPT !.pending = "capturing"],
               [r EXCEPT !.authorizedAmount = r.total, !.settlement = "mismatched",
                         !.pending = "ship"] }
  BY DEF AttemptCapture, ScheduleCaptureConfirmation
<1> HIDE DEF counted, n
<1>3. ASSUME n = Transition(counted, "FAILED", "none") PROVE FinalMoney(r, n)
  <2>1. "FAILED" \in OrderState /\ "none" \in Continuation
    BY DEF OrderState, Continuation
  <2>2. \A f \in Kept : Transition(counted, "FAILED", "none")[f] = counted[f]
    BY <1>1, <2>1, TransitionKeeps
  <2>3. \A f \in Kept : n[f] = counted[f]
    BY <1>3, <2>2
  <2> QED
    BY <1>1, <2>3 DEF FinalMoney, Kept
<1>4. ASSUME n = [counted EXCEPT !.pending = "confirm"] PROVE FinalMoney(r, n)
  <2>1. \A f \in Kept : n[f] = counted[f]
    BY <1>1, <1>4 DEF Order, Kept
  <2> QED
    BY <1>1, <2>1 DEF FinalMoney, Kept
<1>5. ASSUME n = [r EXCEPT !.pending = "capturing"] PROVE FinalMoney(r, n)
  BY <1>5 DEF FinalMoney, Order
<1>6. ASSUME n = [r EXCEPT !.authorizedAmount = r.total, !.settlement = "mismatched", !.pending = "ship"]
      PROVE  FinalMoney(r, n)
  BY <1>6 DEF FinalMoney, Order
<1>7. FinalMoney(r, n)
  BY <1>2, <1>3, <1>4, <1>5, <1>6
<1> QED
  BY <1>7 DEF n

\* No step changes money that is settled.
LEMMA StepMoney ==
  ASSUME IInv, NEW o \in Orders, Submit(o) \/ Step(o)
  PROVE  FinalMoney(order[o], order'[o])
<1> DEFINE r == order[o]
<1>1. r \in Order /\ OrderFits(request[o], r)
  BY Fits
<1>2. CASE r.settlement = "none"
  BY <1>2 DEF FinalMoney
<1>3. CASE r.settlement # "none"
  <2>1. r.pending \notin { "created", "validate", "price", "reprice", "recover", "authorize",
                           "authorizing" }
    BY <1>1, <1>3 DEF OrderFits, MoneyFits
  <2>2. ASSUME NEW to \in OrderState, NEW next \in Continuation, Becomes(o, Transition(r, to, next))
        PROVE  FinalMoney(r, order'[o])
    <3>1. order'[o] = Transition(r, to, next)
      BY <2>2, BecomesOwn
    <3> QED
      BY <1>1, <3>1, TransitionKeeps, SameMoney
  <2>3. ASSUME Becomes(o, DeadLetter(r)) PROVE FinalMoney(r, order'[o])
    <3>1. order'[o] = DeadLetter(r)
      BY <2>3, BecomesOwn
    <3> QED
      BY <1>1, <3>1, DeadLetterKeeps, SameMoney
  <2>4. ASSUME NEW p \in Continuation, Becomes(o, [r EXCEPT !.pending = p])
        PROVE  FinalMoney(r, order'[o])
    <3>1. order'[o] = [r EXCEPT !.pending = p]
      BY <2>4, BecomesOwn
    <3> QED
      BY <1>1, <3>1 DEF FinalMoney, Order
  <2>5. CASE FraudStep(o)
    BY <2>2, <2>5 DEF FraudStep, OrderState, Continuation
  <2>6. CASE FraudReviewStep(o)
    BY <2>2, <2>6 DEF FraudReviewStep, OrderState, Continuation
  <2>7. CASE AllocateStep(o)
    <3>1. order'[o] = [r EXCEPT !.allocationAttempts = @ + 1, !.pending = "allocating"]
      BY <2>7, BecomesOwn DEF AllocateStep
    <3> QED
      BY <1>1, <3>1 DEF FinalMoney, Order
  <2>8. CASE AllocateDone(o)
    BY <2>2, <2>8 DEF AllocateDone, OrderState, Continuation
  <2>9. CASE AllocateShort(o)
    BY <2>2, <2>3, <2>4, <2>9 DEF AllocateShort, AfterShortage, OrderState, Continuation
  <2>10. CASE FulfillStep(o)
    <3> DEFINE m == Transition(r, "FULFILLING", "capturing")
    <3>1. PICK held \in BOOLEAN, expected \in TaxedTotals(r.subtotal) :
            Becomes(o, IF m.state = "FULFILLING" THEN AttemptCapture(m, held, expected) ELSE m)
      BY <2>10 DEF FulfillStep
    <3>2. /\ r.pending = "fulfill" /\ r.state = "ALLOCATED" /\ HistoryFits(r)
          /\ r.settlement = "authorized" /\ r.authorizedAmount = r.total
      BY <1>1, <2>10 DEF FulfillStep, At, OrderFits, StatesAt, MoneyFits
    <3>3. CanTransition(r.state, "FULFILLING")
      BY <3>2 DEF CanTransition, TRANSITIONS
    <3>4. m \in Order /\ m.state = "FULFILLING" /\ \A f \in Kept : m[f] = r[f]
      BY <1>1, <3>2, <3>3, TransitionType DEF OrderState, Continuation, Kept
    <3> HIDE DEF m
    <3>5. order'[o] = AttemptCapture(m, held, expected)
      BY <3>1, <3>4, BecomesOwn
    <3>6. m.settlement = "authorized" /\ m.authorizedAmount = m.total
      BY <3>2, <3>4 DEF Kept
    <3>7. FinalMoney(m, order'[o])
      BY <3>4, <3>5, <3>6, AttemptCaptureMoney
    <3> QED
      BY <3>4, <3>7 DEF FinalMoney, Kept
  <2>11. CASE ConfirmCaptureStep(o)
    <3>1. PICK held \in BOOLEAN, expected \in TaxedTotals(r.subtotal) :
            Becomes(o, AttemptCapture(r, held, expected))
      BY <2>11 DEF ConfirmCaptureStep
    <3>2. r.settlement = "authorized" /\ r.authorizedAmount = r.total
      BY <1>1, <2>11 DEF ConfirmCaptureStep, At, OrderFits, MoneyFits
    <3>3. order'[o] = AttemptCapture(r, held, expected)
      BY <3>1, BecomesOwn
    <3> QED
      BY <1>1, <3>2, <3>3, AttemptCaptureMoney
  <2>12. CASE CaptureDone(o)
    <3>1. order'[o] = [r EXCEPT !.settlement = "captured", !.pending = "ship"]
      BY <2>12, BecomesOwn DEF CaptureDone
    <3>2. r.settlement = "authorized"
      BY <1>1, <2>12 DEF CaptureDone, At, OrderFits, MoneyFits
    <3> QED
      BY <1>1, <3>1, <3>2 DEF FinalMoney, Order
  <2>13. CASE CaptureError(o)
    BY <2>3, <2>13 DEF CaptureError
  <2>14. CASE ShipStep(o) \/ NoCarrier(o) \/ DeliverStep(o)
    BY <2>2, <2>14 DEF ShipStep, NoCarrier, DeliverStep, OrderState, Continuation
  <2> QED
    BY <2>1, <2>5, <2>6, <2>7, <2>8, <2>9, <2>10, <2>11, <2>12, <2>13, <2>14
       DEF Submit, Step, At, ValidateStep, PriceStep, ExpiredPromo, PricingCrash, Reprice,
           AuthorizeStep, AuthorizeApproved, AuthorizeDeclined, AuthorizeGatewayError
<1> QED
  BY <1>2, <1>3

LEMMA NextMoney ==
  ASSUME IInv, [Next]_vars, NEW p \in Orders
  PROVE  FinalMoney(order[p], order'[p])
<1>1. CASE order'[p] = order[p]
  BY <1>1 DEF FinalMoney
<1>2. CASE UNCHANGED vars
  BY <1>1, <1>2 DEF vars
<1>3. ASSUME NEW o \in Orders, Submit(o) \/ Step(o) PROVE FinalMoney(order[p], order'[p])
  BY <1>1, <1>3, StepMoney, StepTouchesOne
<1> QED
  BY <1>2, <1>3 DEF Next

\* An order that the gateway has approved is never authorized again, nor priced again
\* under its authorization, and what it is authorized for does not change: the branch
\* of the amount mismatch assigns the amount that is there already.
THEOREM ApprovalCorrect == Spec => ApprovalIsFinal
<1>1. IInv /\ [Next]_vars =>
        [\A o \in Orders :
           order[o].settlement # "none" =>
             /\ order'[o].settlement # "none"
             /\ order'[o].paymentAttempts = order[o].paymentAttempts
             /\ order'[o].subtotal = order[o].subtotal
             /\ order'[o].total = order[o].total
             /\ order'[o].authorizedAmount = order[o].authorizedAmount]_vars
  BY NextMoney DEF FinalMoney
<1> QED
  BY <1>1, Invariant, PTL DEF Spec, ApprovalIsFinal

\* An order whose capture has been answered is neither polled nor captured again.
THEOREM CaptureCorrect == Spec => CaptureIsFinal
<1>1. IInv /\ [Next]_vars =>
        [\A o \in Orders :
           order[o].settlement \in { "captured", "mismatched" } =>
             /\ order'[o].settlement = order[o].settlement
             /\ order'[o].captureAttempts = order[o].captureAttempts]_vars
  BY NextMoney DEF FinalMoney
<1> QED
  BY <1>1, Invariant, PTL DEF Spec, CaptureIsFinal

-----------------------------------------------------------------------------
(* The hops, and the abstract lifecycle they implement.                    *)

\* The states in which one hop may leave an order, by the state it found it in.
Successors(s) ==
  CASE s = "RECEIVED" -> { "VALIDATED", "REJECTED" }
    [] s = "VALIDATED" -> { "VALIDATED", "PRICED", "PRICING_FAILED" }
    [] s = "PRICING_FAILED" -> { "PRICED" }
    [] s = "PRICED" -> { "PRICED", "PAYMENT_AUTHORIZED", "PAYMENT_DECLINED", "FAILED" }
    [] s = "PAYMENT_AUTHORIZED" -> { "FRAUD_HOLD", "FRAUD_CLEARED" }
    [] s = "FRAUD_HOLD" -> { "FRAUD_CLEARED", "CANCELLED" }
    [] s = "FRAUD_CLEARED" -> { "FRAUD_CLEARED", "BACKORDERED", "ALLOCATED" }
    [] s = "BACKORDERED" -> { "BACKORDERED", "ALLOCATED", "CANCELLED", "FAILED" }
    [] s = "ALLOCATED" -> { "FULFILLING" }
    [] s = "FULFILLING" -> { "FULFILLING", "SHIPPED", "FAILED" }
    [] s = "SHIPPED" -> { "DELIVERED" }
    [] OTHER -> {}

LEMMA AttemptCaptureState ==
  ASSUME NEW r \in Order, NEW held, NEW expected, r.state = "FULFILLING"
  PROVE  /\ AttemptCapture(r, held, expected).state \in { "FULFILLING", "FAILED" }
         /\ r.captureAttempts + 1 < CAPTURE_CONFIRM_MAX_ATTEMPTS =>
              AttemptCapture(r, held, expected).state = "FULFILLING"
<1> DEFINE counted == [r EXCEPT !.captureAttempts = @ + 1]
           n == AttemptCapture(r, held, expected)
           late == counted.captureAttempts >= CAPTURE_CONFIRM_MAX_ATTEMPTS
           again == [counted EXCEPT !.pending = "confirm"]
<1>1. /\ counted \in Order /\ counted.state = "FULFILLING"
      /\ counted.captureAttempts = r.captureAttempts + 1 /\ again.state = "FULFILLING"
  BY DEF Order
<1>2. \/ n = Transition(counted, "FAILED", "none") /\ late
      \/ n = again
      \/ n = [r EXCEPT !.pending = "capturing"]
      \/ n = [r EXCEPT !.authorizedAmount = r.total, !.settlement = "mismatched",
                       !.pending = "ship"]
  BY DEF AttemptCapture, ScheduleCaptureConfirmation
<1> HIDE DEF n, counted, again
<1>3. CanTransition("FULFILLING", "FAILED")
  BY DEF CanTransition, TRANSITIONS
<1>4. Transition(counted, "FAILED", "none").state = "FAILED"
  BY <1>1, <1>3, TransitionKeeps DEF OrderState, Continuation
<1>5. /\ [r EXCEPT !.pending = "capturing"].state = "FULFILLING"
      /\ [r EXCEPT !.authorizedAmount = r.total, !.settlement = "mismatched",
                   !.pending = "ship"].state = "FULFILLING"
  BY DEF Order
<1>6. \/ n.state = "FULFILLING"
      \/ n.state = "FAILED" /\ r.captureAttempts + 1 >= CAPTURE_CONFIRM_MAX_ATTEMPTS
  BY <1>1, <1>2, <1>4, <1>5
<1>7. r.captureAttempts \in Nat
  BY DEF Order
<1> QED
  BY <1>6, <1>7, LimitsAssumption DEF n

\* A hop leaves an order in a successor of its state.
LEMMA StepSuccessor ==
  ASSUME IInv, CAPTURE_CONFIRM_MAX_ATTEMPTS > 1, NEW o \in Orders, Step(o)
  PROVE  order'[o].state \in Successors(order[o].state)
<1> DEFINE r == order[o]
           S == order'[o].state
<1>1. r \in Order /\ OrderFits(request[o], r) /\ r.state \in StatesAt(r.pending)
  BY Fits DEF OrderFits
<1> USE DEF At, StatesAt
<1>2. ASSUME NEW to \in OrderState, NEW next \in Continuation, Becomes(o, Transition(r, to, next)),
             CanTransition(r.state, to)
      PROVE  S = to
  <2>1. order'[o] = Transition(r, to, next)
    BY <1>2, BecomesOwn
  <2> QED
    BY <1>1, <1>2, <2>1, TransitionKeeps
<1>3. ASSUME Becomes(o, DeadLetter(r)) PROVE S \in { r.state, "FAILED" }
  <2>1. order'[o] = DeadLetter(r)
    BY <1>3, BecomesOwn
  <2> QED
    BY <1>1, <2>1, DeadLetterKeeps
<1>4. ASSUME NEW p, Becomes(o, [r EXCEPT !.pending = p]) PROVE S = r.state
  <2>1. order'[o] = [r EXCEPT !.pending = p]
    BY <1>4, BecomesOwn
  <2> QED
    BY <1>1, <2>1 DEF Order
<1>5. CASE ValidateStep(o)
  <2>1. r.state = "RECEIVED"
    BY <1>1, <1>5 DEF ValidateStep
  <2>2. CanTransition(r.state, "VALIDATED") /\ CanTransition(r.state, "REJECTED")
    BY <2>1 DEF CanTransition, TRANSITIONS
  <2>3. S \in { "VALIDATED", "REJECTED" }
    BY <1>2, <1>5, <2>2 DEF ValidateStep, OrderState, Continuation
  <2> QED
    BY <2>1, <2>3 DEF Successors
<1>6. CASE PriceStep(o) \/ Reprice(o)
  <2>1. r.state \in { "VALIDATED", "PRICING_FAILED" }
    BY <1>1, <1>6 DEF PriceStep, Reprice
  <2>2. IInv'
    BY <1>6, PriceStepFits, RepriceFits
  <2>3. PICK s, t : Becomes(o, Priced(r, s, t))
    BY <1>6 DEF PriceStep, Reprice
  <2> DEFINE m == [r EXCEPT !.subtotal = s, !.total = t]
  <2>4. order'[o] = Transition(m, "PRICED", "authorize")
    BY <2>3, BecomesOwn DEF Priced
  <2>5. m.state = r.state
    BY <1>1 DEF Order
  <2> HIDE DEF m
  <2>6. CanTransition(m.state, "PRICED")
    BY <2>1, <2>5 DEF CanTransition, TRANSITIONS
  <2>7. order'[o] = [MoveTo(m, "PRICED") EXCEPT !.pending = "authorize"]
    BY <2>4, <2>6 DEF Transition
  <2>8. order'[o].pending = "authorize"
    BY <2>7 DEF MoveTo
  <2>9. S = "PRICED"
    BY <2>2, <2>8, Fits DEF IInv, OrderFits
  <2> QED
    BY <2>1, <2>9 DEF Successors
<1>7. CASE ExpiredPromo(o)
  <2>1. order'[o] = [r EXCEPT !.promoCode = "none", !.pending = "reprice"]
    BY <1>7, BecomesOwn DEF ExpiredPromo
  <2> QED
    BY <1>1, <1>7, <2>1 DEF ExpiredPromo, Order, Successors
<1>8. CASE PricingCrash(o)
  <2> DEFINE priced == Transition(r, "PRICED", "price")
             failed == IF priced.state = "PRICED"
                       THEN Transition(priced, "PRICING_FAILED", "recover") ELSE priced
  <2>1. r.state = "VALIDATED" /\ HistoryFits(r)
    BY <1>1, <1>8 DEF PricingCrash, OrderFits
  <2>2. CanTransition(r.state, "PRICED")
    BY <2>1 DEF CanTransition, TRANSITIONS
  <2>3. priced.state = "PRICED" /\ priced \in Order
    BY <1>1, <2>1, <2>2, TransitionType DEF OrderState, Continuation
  <2>4. CanTransition("PRICED", "PRICING_FAILED")
    BY DEF CanTransition, TRANSITIONS
  <2>5. order'[o] = IF failed.state = "PRICING_FAILED" THEN [failed EXCEPT !.promoCode = "none"] ELSE failed
    BY <1>8, BecomesOwn, Zenon DEF PricingCrash
  <2> HIDE DEF priced
  <2>6. failed = Transition(priced, "PRICING_FAILED", "recover")
    BY <2>3
  <2>7. failed.state = "PRICING_FAILED"
    BY <2>3, <2>4, <2>6, TransitionKeeps DEF OrderState, Continuation
  <2> HIDE DEF failed
  <2>8. failed = [MoveTo(priced, "PRICING_FAILED") EXCEPT !.pending = "recover"]
    BY <2>3, <2>4, <2>6 DEF Transition
  <2>9. S = "PRICING_FAILED"
    BY <2>5, <2>7, <2>8 DEF MoveTo
  <2> QED
    BY <2>1, <2>9 DEF Successors
<1>9. CASE AuthorizeStep(o)
  <2>1. order'[o] = [r EXCEPT !.paymentAttempts = @ + 1, !.pending = "authorizing"]
    BY <1>9, BecomesOwn DEF AuthorizeStep
  <2> QED
    BY <1>1, <1>9, <2>1 DEF AuthorizeStep, Order, Successors
<1>10. CASE AuthorizeApproved(o)
  <2> DEFINE m == [r EXCEPT !.authorizedAmount = r.total, !.settlement = "authorized"]
  <2>1. r.state = "PRICED"
    BY <1>1, <1>10 DEF AuthorizeApproved
  <2>2. order'[o] = Transition(m, "PAYMENT_AUTHORIZED", "fraud")
    BY <1>10, BecomesOwn DEF AuthorizeApproved
  <2>3. m \in Order /\ m.state = "PRICED"
    BY <1>1, <2>1 DEF Order, Settlement
  <2> HIDE DEF m
  <2>4. CanTransition(m.state, "PAYMENT_AUTHORIZED")
    BY <2>3 DEF CanTransition, TRANSITIONS
  <2> QED
    BY <2>1, <2>2, <2>3, <2>4, TransitionKeeps DEF OrderState, Continuation, Successors
<1>11. CASE AuthorizeDeclined(o) \/ AuthorizeGatewayError(o)
  <2>1. r.state = "PRICED"
    BY <1>1, <1>11 DEF AuthorizeDeclined, AuthorizeGatewayError
  <2>2. CanTransition(r.state, "PAYMENT_DECLINED") /\ CanTransition(r.state, "FAILED")
    BY <2>1 DEF CanTransition, TRANSITIONS
  <2>3. S \in { "PRICED", "PAYMENT_DECLINED", "FAILED" }
    BY <1>2, <1>4, <1>11, <2>1, <2>2 DEF AuthorizeDeclined, AuthorizeGatewayError, OrderState, Continuation
  <2> QED
    BY <2>1, <2>3 DEF Successors
<1>12. CASE FraudStep(o)
  <2>1. r.state = "PAYMENT_AUTHORIZED"
    BY <1>1, <1>12 DEF FraudStep
  <2>2. CanTransition(r.state, "FRAUD_HOLD") /\ CanTransition(r.state, "FRAUD_CLEARED")
    BY <2>1 DEF CanTransition, TRANSITIONS
  <2>3. S \in { "FRAUD_HOLD", "FRAUD_CLEARED" }
    BY <1>2, <1>12, <2>2 DEF FraudStep, OrderState, Continuation
  <2> QED
    BY <2>1, <2>3 DEF Successors
<1>13. CASE FraudReviewStep(o)
  <2>1. r.state = "FRAUD_HOLD"
    BY <1>1, <1>13 DEF FraudReviewStep
  <2>2. CanTransition(r.state, "CANCELLED") /\ CanTransition(r.state, "FRAUD_CLEARED")
    BY <2>1 DEF CanTransition, TRANSITIONS
  <2>3. S \in { "CANCELLED", "FRAUD_CLEARED" }
    BY <1>2, <1>13, <2>2 DEF FraudReviewStep, OrderState, Continuation
  <2> QED
    BY <2>1, <2>3 DEF Successors
<1>14. CASE AllocateStep(o)
  <2>1. order'[o] = [r EXCEPT !.allocationAttempts = @ + 1, !.pending = "allocating"]
    BY <1>14, BecomesOwn DEF AllocateStep
  <2> QED
    BY <1>1, <1>14, <2>1 DEF AllocateStep, Order, Successors
<1>15. CASE AllocateDone(o)
  <2>1. r.state \in { "FRAUD_CLEARED", "BACKORDERED" }
    BY <1>1, <1>15 DEF AllocateDone
  <2>2. CanTransition(r.state, "ALLOCATED")
    BY <2>1 DEF CanTransition, TRANSITIONS
  <2>3. S = "ALLOCATED"
    BY <1>2, <1>15, <2>2 DEF AllocateDone, OrderState, Continuation
  <2> QED
    BY <2>1, <2>3 DEF Successors
<1>16. CASE AllocateShort(o)
  <2>1. /\ r.state \in { "FRAUD_CLEARED", "BACKORDERED" }
        /\ r.state = "FRAUD_CLEARED" => r.allocationAttempts = 1
    BY <1>1, <1>16 DEF AllocateShort, OrderFits, AttemptsFit
  <2>2. r.allocationAttempts >= RETRYABLE_ATTEMPTS => r.state = "BACKORDERED"
    BY <2>1, LimitsAssumption, LimitsRelation
  <2>3. r.allocationAttempts >= BACKORDER_MAX_ATTEMPTS => r.state = "BACKORDERED"
    BY <2>1, LimitsAssumption, LimitsRelation
  <2>4. /\ r.state = "BACKORDERED" => CanTransition(r.state, "CANCELLED")
        /\ r.state = "FRAUD_CLEARED" => CanTransition(r.state, "BACKORDERED")
    BY DEF CanTransition, TRANSITIONS
  <2>5. Becomes(o, AfterShortage(r))
    BY <1>16 DEF AllocateShort
  <2>6. CASE r.state = "FRAUD_CLEARED"
    <3>1. S = "BACKORDERED"
      BY <1>2, <2>2, <2>3, <2>4, <2>5, <2>6 DEF AfterShortage, OrderState, Continuation
    <3> QED
      BY <2>6, <3>1 DEF Successors
  <2>7. CASE r.state = "BACKORDERED"
    <3>1. S \in { "BACKORDERED", "CANCELLED", "FAILED" }
      BY <1>2, <1>3, <1>4, <2>4, <2>5, <2>7 DEF AfterShortage, OrderState, Continuation
    <3> QED
      BY <2>7, <3>1 DEF Successors
  <2> QED
    BY <2>1, <2>6, <2>7
<1>17. CASE FulfillStep(o)
  <2> DEFINE m == Transition(r, "FULFILLING", "capturing")
  <2>1. PICK held \in BOOLEAN, expected \in TaxedTotals(r.subtotal) :
          Becomes(o, IF m.state = "FULFILLING" THEN AttemptCapture(m, held, expected) ELSE m)
    BY <1>17 DEF FulfillStep
  <2>2. r.state = "ALLOCATED" /\ HistoryFits(r) /\ r.captureAttempts = 0
    BY <1>1, <1>17 DEF FulfillStep, OrderFits, AttemptsFit
  <2>3. CanTransition(r.state, "FULFILLING")
    BY <2>2 DEF CanTransition, TRANSITIONS
  <2>4. m \in Order /\ m.state = "FULFILLING" /\ m.captureAttempts = 0
    BY <1>1, <2>2, <2>3, TransitionType DEF OrderState, Continuation
  <2> HIDE DEF m
  <2>5. order'[o] = AttemptCapture(m, held, expected)
    BY <2>1, <2>4, BecomesOwn
  <2>6. S = "FULFILLING"
    BY <2>4, <2>5, AttemptCaptureState, LimitsAssumption
  <2> QED
    BY <2>2, <2>6 DEF Successors
<1>18. CASE ConfirmCaptureStep(o)
  <2>1. PICK held \in BOOLEAN, expected \in TaxedTotals(r.subtotal) :
          Becomes(o, AttemptCapture(r, held, expected))
    BY <1>18 DEF ConfirmCaptureStep
  <2>2. r.state = "FULFILLING"
    BY <1>1, <1>18 DEF ConfirmCaptureStep
  <2>3. order'[o] = AttemptCapture(r, held, expected)
    BY <2>1, BecomesOwn
  <2>4. S \in { "FULFILLING", "FAILED" }
    BY <1>1, <2>2, <2>3, AttemptCaptureState
  <2> QED
    BY <2>2, <2>4 DEF Successors
<1>19. CASE CaptureDone(o)
  <2>1. order'[o] = [r EXCEPT !.settlement = "captured", !.pending = "ship"]
    BY <1>19, BecomesOwn DEF CaptureDone
  <2> QED
    BY <1>1, <1>19, <2>1 DEF CaptureDone, Order, Successors
<1>20. CASE CaptureError(o)
  <2>1. r.state = "FULFILLING"
    BY <1>1, <1>20 DEF CaptureError
  <2> QED
    BY <1>3, <1>20, <2>1 DEF CaptureError, Successors
<1>21. CASE ShipStep(o) \/ NoCarrier(o)
  <2>1. r.state = "FULFILLING"
    BY <1>1, <1>21 DEF ShipStep, NoCarrier
  <2>2. CanTransition(r.state, "SHIPPED") /\ CanTransition(r.state, "FAILED")
    BY <2>1 DEF CanTransition, TRANSITIONS
  <2>3. S \in { "SHIPPED", "FAILED" }
    BY <1>2, <1>21, <2>2 DEF ShipStep, NoCarrier, OrderState, Continuation
  <2> QED
    BY <2>1, <2>3 DEF Successors
<1>22. CASE DeliverStep(o)
  <2>1. r.state = "SHIPPED"
    BY <1>1, <1>22 DEF DeliverStep
  <2>2. CanTransition(r.state, "DELIVERED")
    BY <2>1 DEF CanTransition, TRANSITIONS
  <2>3. S = "DELIVERED"
    BY <1>2, <1>22, <2>2 DEF DeliverStep, OrderState, Continuation
  <2> QED
    BY <2>1, <2>3 DEF Successors
<1> QED
  BY <1>5, <1>6, <1>7, <1>8, <1>9, <1>10, <1>11, <1>12, <1>13, <1>14, <1>15, <1>16, <1>17,
     <1>18, <1>19, <1>20, <1>21, <1>22 DEF Step

Status == [o \in Orders |-> StatusOf(order[o])]

\* Away from RECEIVED the stage of an order is a matter of its state.
LEMMA StageOfState ==
  ASSUME NEW q, NEW r, OrderFits(q, r), r.state # "RECEIVED"
  PROVE  r.pending \notin { "created", "validate" }
BY DEF OrderFits, StatesAt

\* One stage, one verdict or nothing.
StageStep(s, t) ==
  \/ t = s
  \/ /\ s \in Lifecycle!Stage
     /\ t = Lifecycle!NextStage[s] \/ t \in Lifecycle!Verdicts[s]

\* What one hop does to the stage of its order.
LEMMA StepStage ==
  ASSUME IInv, IInv', CAPTURE_CONFIRM_MAX_ATTEMPTS > 1, NEW o \in Orders, Step(o)
  PROVE  StageStep(StatusOf(order[o]), StatusOf(order'[o]))
<1> DEFINE r == order[o]
           n == order'[o]
<1>1. OrderFits(request[o], r) /\ OrderFits(request'[o], n)
  BY Fits, IInv' DEF IInv
<1>2. r.pending # "created"
  BY DEF Step, At, ValidateStep, PriceStep, ExpiredPromo, PricingCrash, Reprice,
         AuthorizeStep, AuthorizeApproved, AuthorizeDeclined, AuthorizeGatewayError, FraudStep,
         FraudReviewStep, AllocateStep, AllocateDone, AllocateShort, FulfillStep,
         ConfirmCaptureStep, CaptureDone, CaptureError, ShipStep, NoCarrier, DeliverStep
<1>3. n.state \in Successors(r.state)
  BY StepSuccessor
<1>4. n.state # "RECEIVED" /\ n.pending \notin { "created", "validate" }
  BY <1>1, <1>3, StageOfState DEF Successors
<1>5. r.state = "RECEIVED" => r.pending = "validate"
  BY <1>1, <1>2 DEF OrderFits, StatesAt, TERMINAL_STATES, Order, Continuation
<1>6. r.state # "RECEIVED" => r.pending \notin { "created", "validate" }
  BY <1>1, StageOfState
<1>7. r.state \in OrderState /\ n.state \in OrderState
  BY <1>1 DEF OrderFits, Order
<1> HIDE DEF r, n
<1>8. StageStep(StatusOf(r), StatusOf(n))
  <2> USE DEF StageStep, Lifecycle!Stage, Lifecycle!NextStage, Lifecycle!Verdicts
  <2>1. CASE r.state = "RECEIVED"
    BY <1>3, <1>4, <1>5, <2>1 DEF Successors, StatusOf
  <2>2. CASE r.state \in { "VALIDATED", "PRICING_FAILED", "PRICED" }
    BY <1>3, <1>4, <1>6, <2>2 DEF Successors, StatusOf
  <2>3. CASE r.state \in { "PAYMENT_AUTHORIZED", "FRAUD_HOLD" }
    BY <1>3, <1>4, <1>6, <2>3 DEF Successors, StatusOf
  <2>4. CASE r.state \in { "FRAUD_CLEARED", "BACKORDERED" }
    BY <1>3, <1>4, <1>6, <2>4 DEF Successors, StatusOf
  <2>5. CASE r.state \in { "ALLOCATED", "FULFILLING", "SHIPPED" }
    BY <1>3, <1>4, <1>6, <2>5 DEF Successors, StatusOf
  <2>6. CASE r.state \in TERMINAL_STATES \cup { "FAILED" }
    BY <1>3, <2>6 DEF Successors, TERMINAL_STATES
  <2> QED
    BY <1>7, <2>1, <2>2, <2>3, <2>4, <2>5, <2>6 DEF OrderState, TERMINAL_STATES, Successors
<1> QED
  BY <1>8 DEF r, n

LEMMA InitLifecycle == Init => Lifecycle!Init
BY DEF Init, NewOrder, StatusOf, Lifecycle!Init

LEMMA NextLifecycle ==
  ASSUME IInv, IInv', CAPTURE_CONFIRM_MAX_ATTEMPTS > 1, [Next]_vars
  PROVE  [Lifecycle!Next]_Status
<1>1. CASE UNCHANGED vars
  BY <1>1 DEF vars, Status
<1>2. ASSUME NEW o \in Orders, Submit(o) \/ Step(o)
      PROVE  [Lifecycle!Next]_Status
  <2> DEFINE s == StatusOf(order[o])
             t == StatusOf(order'[o])
  <2>1. \A p \in Orders \ { o } : order'[p] = order[p]
    BY <1>2, StepTouchesOne
  <2>2. Status' = [Status EXCEPT ![o] = t] /\ Status[o] = s
    BY <2>1 DEF Status
  <2>3. CASE Submit(o)
    <3>1. order'[o] = [order[o] EXCEPT !.pending = "validate"] /\ order[o].pending = "created"
      BY <2>3, BecomesOwn DEF Submit, At
    <3>2. /\ order[o].state = "RECEIVED" /\ order'[o].state = "RECEIVED"
          /\ order'[o].pending = "validate"
      BY <3>1, Fits DEF Order, OrderFits, StatesAt
    <3>3. s = "new" /\ t = "submitted"
      BY <3>1, <3>2 DEF StatusOf
    <3> QED
      BY <2>2, <3>3 DEF Lifecycle!Next, Lifecycle!Submit, Status
  <2>4. CASE Step(o)
    <3>1. StageStep(s, t)
      BY <2>4, StepStage
    <3>2. t = s => Status' = Status
      BY <2>2 DEF Status
    <3> HIDE DEF s, t
    <3> QED
      BY <2>2, <3>1, <3>2 DEF StageStep, Lifecycle!Next, Lifecycle!Advance, Lifecycle!Close, Status
  <2> QED
    BY <1>2, <2>3, <2>4
<1> QED
  BY <1>1, <1>2 DEF Next

\* The hops that the pipeline ever takes: eight edges of the table of transitions are never
\* used, among them every way of failing before authorization, after it and after
\* allocation, and one hop has no edge, the dead letter of a backorder.
THEOREM HopsCorrect ==
  ASSUME CAPTURE_CONFIRM_MAX_ATTEMPTS > 1
  PROVE  Spec => [][\A o \in Orders : order'[o].state = order[o].state
                                     \/ order'[o].state \in Successors(order[o].state)]_vars
<1>1. ASSUME IInv, [Next]_vars, NEW p \in Orders
      PROVE  order'[p].state = order[p].state \/ order'[p].state \in Successors(order[p].state)
  <2>1. CASE UNCHANGED vars
    BY <2>1 DEF vars
  <2>2. ASSUME NEW o \in Orders, Submit(o)
        PROVE  order'[p].state = order[p].state
    <3>1. order'[o] = [order[o] EXCEPT !.pending = "validate"]
      BY <1>1, <2>2, BecomesOwn DEF Submit
    <3>2. order'[o].state = order[o].state
      BY <1>1, <3>1, Fits DEF Order
    <3> QED
      BY <1>1, <2>2, <3>2, StepTouchesOne
  <2>3. ASSUME NEW o \in Orders, Step(o)
        PROVE  order'[p].state = order[p].state \/ order'[p].state \in Successors(order[p].state)
    BY <1>1, <2>3, StepSuccessor, StepTouchesOne
  <2> QED
    BY <1>1, <2>1, <2>2, <2>3 DEF Next
<1>2. IInv /\ [Next]_vars =>
        [\A o \in Orders : order'[o].state = order[o].state
                           \/ order'[o].state \in Successors(order[o].state)]_vars
  BY <1>1
<1> QED
  BY <1>2, Invariant, PTL DEF Spec

\* Where a first held confirmation is polled again (the code polls 20 times), the pipeline
\* implements the abstract lifecycle: the safety part of ImplementsLifecycle.
THEOREM LifecycleCorrect ==
  ASSUME CAPTURE_CONFIRM_MAX_ATTEMPTS > 1
  PROVE  Spec => Lifecycle!Init /\ [][Lifecycle!Next]_Status
<1>1. IInv /\ IInv' /\ [Next]_vars => [Lifecycle!Next]_Status
  BY NextLifecycle
<1> QED
  BY <1>1, InitLifecycle, Invariant, PTL DEF Spec

-----------------------------------------------------------------------------
\* What is captured.

\* A capture is made, and answered, for an order that costs nothing only.
CaptureFree(r) == r.pending = "capturing" \/ r.settlement = "captured" => r.total = 0

LEMMA PendingAfter ==
  ASSUME NEW r \in Order, NEW to \in OrderState, NEW next \in Continuation
  PROVE  /\ DeadLetter(r).pending = "none"
         /\ Transition(r, to, next).pending \in { next, "none" }
<1>1. ASSUME NEW m \in Order, NEW p PROVE [m EXCEPT !.pending = p].pending = p
  BY DEF Order
<1>2. MoveTo(r, to) \in Order /\ MoveTo(r, "FAILED") \in Order
  BY MoveToType DEF OrderState
<1>3. DeadLetter(r).pending = "none"
  BY <1>1, <1>2 DEF DeadLetter
<1> QED
  BY <1>1, <1>2, <1>3 DEF Transition

\* Cents and dollars of one total agree for nothing but zero, rounding included.
LEMMA CentsAreDollarsOfNothing ==
  ASSUME NEW s \in Int, NEW t \in TaxedTotals(s), NEW expected \in TaxedTotals(s), 100 * expected = t
  PROVE  t = 0
<1> DEFINE q == (2 * (s * 10825) + 10000) \div (2 * 10000)
<1>1. q \in Int
  OBVIOUS
<1>2. t \in { q - 1, q } /\ expected \in { q - 1, q }
  BY DEF TaxedTotals, Nearest
<1> HIDE DEF q
<1> QED
  BY <1>1, <1>2

LEMMA AttemptCaptureFree ==
  ASSUME NEW r \in Order, NEW held, NEW expected \in TaxedTotals(r.subtotal),
         r.settlement = "authorized", r.authorizedAmount = r.total,
         r.total # Unset => r.total \in TaxedTotals(r.subtotal)
  PROVE  CaptureFree(AttemptCapture(r, held, expected))
<1> DEFINE counted == [r EXCEPT !.captureAttempts = @ + 1]
           n == AttemptCapture(r, held, expected)
<1>1. counted \in Order /\ counted.settlement = "authorized"
  BY DEF Order
<1>2. \/ n = Transition(counted, "FAILED", "none")
      \/ n = [counted EXCEPT !.pending = "confirm"]
      \/ n = [r EXCEPT !.pending = "capturing"] /\ 100 * expected = r.total
      \/ n = [r EXCEPT !.authorizedAmount = r.total, !.settlement = "mismatched",
                       !.pending = "ship"]
  BY DEF AttemptCapture, ScheduleCaptureConfirmation
<1> HIDE DEF counted, n
<1>3. ASSUME n = Transition(counted, "FAILED", "none") PROVE CaptureFree(n)
  <2>1. "FAILED" \in OrderState /\ "none" \in Continuation
    BY DEF OrderState, Continuation
  <2> DEFINE givenUp == Transition(counted, "FAILED", "none")
  <2>2. \A f \in Kept : givenUp[f] = counted[f]
    BY <1>1, <2>1, TransitionKeeps
  <2>3. givenUp.pending = "none"
    BY <1>1, <2>1, PendingAfter
  <2> HIDE DEF givenUp
  <2>4. n.pending = "none" /\ n.settlement = counted.settlement
    BY <1>3, <2>2, <2>3 DEF Kept, givenUp
  <2> QED
    BY <1>1, <2>4 DEF CaptureFree
<1>4. ASSUME n = [counted EXCEPT !.pending = "confirm"] PROVE CaptureFree(n)
  <2>1. n.pending = "confirm" /\ n.settlement = "authorized"
    BY <1>1, <1>4 DEF Order
  <2> QED
    BY <2>1 DEF CaptureFree
<1>5. ASSUME n = [r EXCEPT !.pending = "capturing"], 100 * expected = r.total PROVE CaptureFree(n)
  <2>1. n.total = r.total /\ r.subtotal \in Int /\ r.total \in Int
    BY <1>5 DEF Order, Amount, Unset
  <2>2. expected \in Int
    BY <2>1, SMTT(30) DEF TaxedTotals, Nearest
  <2>3. r.total # Unset
    BY <1>5, <2>1, <2>2 DEF Unset
  <2> QED
    BY <1>5, <2>1, <2>3, CentsAreDollarsOfNothing DEF CaptureFree
<1>6. ASSUME n = [r EXCEPT !.authorizedAmount = r.total, !.settlement = "mismatched", !.pending = "ship"]
      PROVE  CaptureFree(n)
  <2>1. n.pending = "ship" /\ n.settlement = "mismatched"
    BY <1>6 DEF Order
  <2> QED
    BY <2>1 DEF CaptureFree
<1>7. CaptureFree(n)
  BY <1>2, <1>3, <1>4, <1>5, <1>6
<1> QED
  BY <1>7 DEF n

LEMMA StepFree ==
  ASSUME IInv, NEW o \in Orders, Submit(o) \/ Step(o), CaptureFree(order[o])
  PROVE  CaptureFree(order'[o])
<1> DEFINE r == order[o]
           n == order'[o]
<1>1. r \in Order /\ OrderFits(request[o], r) /\ CaptureFree(r)
  BY Fits
<1>2. FinalMoney(r, n)
  BY StepMoney
<1>3. r.settlement # "none" => n.total = r.total
  BY <1>2 DEF FinalMoney
<1> USE DEF At
<1>4. ASSUME NEW m \in Order, m.settlement = r.settlement \/ m.settlement = "authorized",
             m.total = r.total \/ r.settlement = "none",
             NEW to \in OrderState, NEW next \in Continuation \ { "capturing" },
             n = Transition(m, to, next) \/ n = DeadLetter(m) \/ n = [m EXCEPT !.pending = next]
      PROVE  CaptureFree(n)
  <2>1. n.pending # "capturing" /\ n.settlement = m.settlement /\ n.total = m.total
    <3>1. CASE n = Transition(m, to, next)
      BY <1>4, <3>1, PendingAfter, TransitionKeeps DEF Kept
    <3>2. CASE n = DeadLetter(m)
      BY <1>4, <3>2, PendingAfter, DeadLetterKeeps DEF Kept
    <3>3. CASE n = [m EXCEPT !.pending = next]
      BY <1>4, <3>3 DEF Order
    <3> QED
      BY <1>4, <3>1, <3>2, <3>3
  <2> QED
    BY <1>1, <1>4, <2>1 DEF CaptureFree
<1>5. ASSUME NEW to \in OrderState, NEW next \in Continuation \ { "capturing" },
             \/ Becomes(o, Transition(r, to, next)) \/ Becomes(o, DeadLetter(r))
             \/ Becomes(o, [r EXCEPT !.pending = next])
      PROVE  CaptureFree(n)
  <2>1. n = Transition(r, to, next) \/ n = DeadLetter(r) \/ n = [r EXCEPT !.pending = next]
    BY <1>5, BecomesOwn
  <2> QED
    BY <1>1, <1>4, <2>1
<1> HIDE DEF n
<1>6. CASE \/ Submit(o) \/ ValidateStep(o) \/ AuthorizeDeclined(o) \/ AuthorizeGatewayError(o)
           \/ FraudStep(o) \/ FraudReviewStep(o) \/ AllocateDone(o) \/ CaptureError(o)
           \/ ShipStep(o) \/ NoCarrier(o) \/ DeliverStep(o)
  <2> DEFINE Simple == \E to \in OrderState, next \in Continuation \ { "capturing" } :
                         \/ Becomes(o, Transition(r, to, next)) \/ Becomes(o, DeadLetter(r))
                         \/ Becomes(o, [r EXCEPT !.pending = next])
  <2>1. CASE Submit(o) \/ ValidateStep(o)
    <3>1. Simple
      BY <2>1 DEF Submit, ValidateStep, OrderState, Continuation
    <3> QED
      BY <1>5, <3>1 DEF n
  <2>2. CASE AuthorizeDeclined(o) \/ AuthorizeGatewayError(o)
    <3>1. Simple
      BY <2>2 DEF AuthorizeDeclined, AuthorizeGatewayError, OrderState, Continuation
    <3> QED
      BY <1>5, <3>1 DEF n
  <2>3. CASE FraudStep(o) \/ FraudReviewStep(o)
    <3>1. Simple
      BY <2>3 DEF FraudStep, FraudReviewStep, OrderState, Continuation
    <3> QED
      BY <1>5, <3>1 DEF n
  <2>4. CASE AllocateDone(o) \/ CaptureError(o)
    <3>1. Simple
      BY <2>4 DEF AllocateDone, CaptureError, OrderState, Continuation
    <3> QED
      BY <1>5, <3>1 DEF n
  <2>5. CASE ShipStep(o) \/ NoCarrier(o) \/ DeliverStep(o)
    <3>1. Simple
      BY <2>5 DEF ShipStep, NoCarrier, DeliverStep, OrderState, Continuation
    <3> QED
      BY <1>5, <3>1 DEF n
  <2> QED
    BY <1>6, <2>1, <2>2, <2>3, <2>4, <2>5
<1>7. CASE AllocateShort(o)
  <2>1. \E to \in OrderState, next \in Continuation \ { "capturing" } :
          \/ Becomes(o, Transition(r, to, next)) \/ Becomes(o, DeadLetter(r))
          \/ Becomes(o, [r EXCEPT !.pending = next])
    BY <1>7 DEF AllocateShort, AfterShortage, OrderState, Continuation
  <2> QED
    BY <1>5, <2>1 DEF n
<1>8. ASSUME IInv', n.pending \in { "reprice", "recover", "authorize", "authorizing" }
      PROVE  CaptureFree(n)
  <2>1. MoneyFits(request'[o], n)
    BY <1>8 DEF IInv, OrderFits, n
  <2> QED
    BY <1>8, <2>1 DEF MoneyFits, CaptureFree
<1>9. CASE PriceStep(o) \/ Reprice(o)
  <2>1. r.state \in { "VALIDATED", "PRICING_FAILED" }
    BY <1>1, <1>9 DEF PriceStep, Reprice, OrderFits, StatesAt
  <2>2. IInv'
    BY <1>9, PriceStepFits, RepriceFits
  <2>3. PICK s, t : Becomes(o, Priced(r, s, t))
    BY <1>9 DEF PriceStep, Reprice
  <2> DEFINE m == [r EXCEPT !.subtotal = s, !.total = t]
  <2>4. n = Transition(m, "PRICED", "authorize")
    BY <2>3, BecomesOwn DEF Priced, n
  <2>5. m.state = r.state
    BY <1>1 DEF Order
  <2> HIDE DEF m
  <2>6. CanTransition(m.state, "PRICED")
    BY <2>1, <2>5 DEF CanTransition, TRANSITIONS
  <2>7. n = [MoveTo(m, "PRICED") EXCEPT !.pending = "authorize"]
    BY <2>4, <2>6 DEF Transition
  <2>8. n.pending = "authorize"
    BY <2>7 DEF MoveTo
  <2> QED
    BY <1>8, <2>2, <2>8 DEF n
<1>10. CASE ExpiredPromo(o)
  <2>1. n = [r EXCEPT !.promoCode = "none", !.pending = "reprice"]
    BY <1>10, BecomesOwn DEF ExpiredPromo, n
  <2>2. n.pending = "reprice"
    BY <1>1, <2>1 DEF Order
  <2> QED
    BY <1>8, <1>10, <2>2, ExpiredPromoFits DEF n
<1>11. CASE PricingCrash(o)
  <2> DEFINE priced == Transition(r, "PRICED", "price")
             failed == IF priced.state = "PRICED"
                       THEN Transition(priced, "PRICING_FAILED", "recover") ELSE priced
  <2>1. r.state = "VALIDATED" /\ HistoryFits(r)
    BY <1>1, <1>11 DEF PricingCrash, OrderFits, StatesAt
  <2>2. CanTransition(r.state, "PRICED")
    BY <2>1 DEF CanTransition, TRANSITIONS
  <2>3. priced.state = "PRICED" /\ priced \in Order
    BY <1>1, <2>1, <2>2, TransitionType DEF OrderState, Continuation
  <2>4. CanTransition("PRICED", "PRICING_FAILED")
    BY DEF CanTransition, TRANSITIONS
  <2>5. n = IF failed.state = "PRICING_FAILED" THEN [failed EXCEPT !.promoCode = "none"] ELSE failed
    BY <1>11, BecomesOwn, Zenon DEF PricingCrash, n
  <2> HIDE DEF priced
  <2>6. failed = [MoveTo(priced, "PRICING_FAILED") EXCEPT !.pending = "recover"]
    BY <2>3, <2>4 DEF Transition
  <2> HIDE DEF failed
  <2>7. n.pending = "recover"
    BY <2>5, <2>6 DEF MoveTo
  <2> QED
    BY <1>8, <1>11, <2>7, PricingCrashFits DEF n
<1>12. CASE AuthorizeStep(o)
  <2>1. n = [r EXCEPT !.paymentAttempts = @ + 1, !.pending = "authorizing"]
    BY <1>12, BecomesOwn DEF AuthorizeStep, n
  <2>2. n.pending = "authorizing"
    BY <1>1, <2>1 DEF Order
  <2> QED
    BY <1>8, <1>12, <2>2, AuthorizeStepFits DEF n
<1>13. CASE AuthorizeApproved(o)
  <2> DEFINE m == [r EXCEPT !.authorizedAmount = r.total, !.settlement = "authorized"]
  <2>1. m \in Order /\ m.settlement = "authorized" /\ m.total = r.total
    BY <1>1 DEF Order, Settlement
  <2>2. n = Transition(m, "PAYMENT_AUTHORIZED", "fraud")
    BY <1>13, BecomesOwn DEF AuthorizeApproved, n
  <2> HIDE DEF m
  <2> QED
    BY <1>4, <2>1, <2>2 DEF n, OrderState, Continuation
<1>14. CASE AllocateStep(o)
  <2> DEFINE m == [r EXCEPT !.allocationAttempts = @ + 1]
  <2>1. m \in Order /\ m.settlement = r.settlement /\ m.total = r.total
    BY <1>1 DEF Order
  <2>2. n = [m EXCEPT !.pending = "allocating"]
    BY <1>14, BecomesOwn DEF AllocateStep, n
  <2> HIDE DEF m
  <2> QED
    BY <1>4, <2>1, <2>2 DEF n, OrderState, Continuation
<1>15. CASE FulfillStep(o)
  <2> DEFINE m == Transition(r, "FULFILLING", "capturing")
  <2>1. PICK held \in BOOLEAN, expected \in TaxedTotals(r.subtotal) :
          Becomes(o, IF m.state = "FULFILLING" THEN AttemptCapture(m, held, expected) ELSE m)
    BY <1>15 DEF FulfillStep
  <2>2. /\ r.state = "ALLOCATED" /\ HistoryFits(r)
        /\ r.settlement = "authorized" /\ r.authorizedAmount = r.total
        /\ r.total # Unset => r.total \in TaxedTotals(r.subtotal)
    BY <1>1, <1>15 DEF FulfillStep, OrderFits, StatesAt, MoneyFits
  <2>3. CanTransition(r.state, "FULFILLING")
    BY <2>2 DEF CanTransition, TRANSITIONS
  <2>4. m \in Order /\ m.state = "FULFILLING" /\ \A f \in Kept : m[f] = r[f]
    BY <1>1, <2>2, <2>3, TransitionType DEF OrderState, Continuation, Kept
  <2> HIDE DEF m
  <2>5. n = AttemptCapture(m, held, expected)
    BY <2>1, <2>4, BecomesOwn DEF n
  <2>6. /\ m.settlement = "authorized" /\ m.authorizedAmount = m.total /\ m.subtotal = r.subtotal
        /\ m.total # Unset => m.total \in TaxedTotals(m.subtotal)
    BY <2>2, <2>4 DEF Kept
  <2> QED
    BY <2>4, <2>5, <2>6, AttemptCaptureFree DEF n
<1>16. CASE ConfirmCaptureStep(o)
  <2>1. PICK held \in BOOLEAN, expected \in TaxedTotals(r.subtotal) :
          Becomes(o, AttemptCapture(r, held, expected))
    BY <1>16 DEF ConfirmCaptureStep
  <2>2. /\ r.settlement = "authorized" /\ r.authorizedAmount = r.total
        /\ r.total # Unset => r.total \in TaxedTotals(r.subtotal)
    BY <1>1, <1>16 DEF ConfirmCaptureStep, OrderFits, MoneyFits
  <2>3. n = AttemptCapture(r, held, expected)
    BY <2>1, BecomesOwn DEF n
  <2> QED
    BY <1>1, <2>2, <2>3, AttemptCaptureFree DEF n
<1>17. CASE CaptureDone(o)
  <2>1. n = [r EXCEPT !.settlement = "captured", !.pending = "ship"]
    BY <1>17, BecomesOwn DEF CaptureDone, n
  <2>2. n.total = r.total /\ r.total = 0
    BY <1>1, <1>17, <2>1 DEF CaptureDone, CaptureFree, Order
  <2> QED
    BY <2>2 DEF CaptureFree, n
<1> QED
  BY <1>6, <1>7, <1>9, <1>10, <1>11, <1>12, <1>13, <1>14, <1>15, <1>16, <1>17 DEF Step

\* The gateway is asked to capture nothing but free orders: the comparison of cents with
\* dollars lets no other order through, whatever was ordered and however it was rounded.
\* (So a capture of PaymentFlow is one of a free order.)
THEOREM OnlyFreeCaptured ==
  Spec => [](\A o \in Orders : order[o].pending = "capturing" \/ order[o].settlement = "captured"
                               => order[o].total = 0)
<1> DEFINE Free == \A o \in Orders : CaptureFree(order[o])
<1>1. Init => Free
  BY DEF Init, NewOrder, CaptureFree
<1>2. IInv /\ Free /\ [Next]_vars => Free'
  <2> SUFFICES ASSUME IInv, Free, [Next]_vars, NEW p \in Orders PROVE CaptureFree(order'[p])
    OBVIOUS
  <2>1. CASE UNCHANGED vars
    BY <2>1 DEF vars
  <2>2. ASSUME NEW o \in Orders, Submit(o) \/ Step(o) PROVE CaptureFree(order'[p])
    BY <2>2, StepFree, StepTouchesOne
  <2> QED
    BY <2>1, <2>2 DEF Next
<1>3. Free => \A o \in Orders : order[o].pending = "capturing" \/ order[o].settlement = "captured"
                               => order[o].total = 0
  BY DEF CaptureFree
<1> QED
  BY <1>1, <1>2, <1>3, Invariant, PTL DEF Spec
=============================================================================
