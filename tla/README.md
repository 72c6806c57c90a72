# Formal verification of acme-sample

TLA+ models of the ACME order service (`src/`), the TLC configurations that
check them on small instances, and TLAPS proofs about them for every value of
their constants. Paths below are relative to `src/src/` unless they start with
`docs/` or `README.md`.

## 1. The system

One Node.js process, started by NestJS. Everything is in memory; nothing is
persisted, so a restart begins with empty stores. There is one thread: code runs
undisturbed from one `await` or timer to the next, and everything else may run in
between. An action of these models is therefore the code between two such points,
and the hazards are what can change at them.

| component | state | operations | talks to |
|---|---|---|---|
| order pipeline, `orders/order-pipeline.service.ts`, `domain/` | the `Order` objects: state, attempt counters, amounts, history; one timer or await per order | `submit`, eleven `*Step` methods, `queue`, `transition`, `deadLetter` | pricing, payment client, fraud, allocator, shipping (awaits), repository |
| order intake, `orders/orders.service.ts`, `orders/idempotency.store.ts` | `keyToOrderId` | `createOrder`, `claim`, `reconcileIdempotency`, `quote`, `tracking` | idempotency store, repository, pipeline, inventory |
| repository, `orders/order.repository.ts` | map of orders | `save`, `findById`, `findByCustomer`, counts | connection pool |
| connection pool, `infra/db-pool.ts` | free list, waiters, checked-out map, `inUse` | `acquire`, `release`, `runQuery`, `expireWaiter`, `reapLeakedConnections`, `recycle` | called by the repository, by the operator, by a scenario hook |
| payment client and gateway, `payments/` | breaker, `consecutiveFailures`, `openedAt` | `authorize`, `capture`, `throughBreaker`, `roundTrip` | called by the pipeline |
| inventory and cache, `inventory/`, `cache/product-cache.ts` | ledger by SKU, cache entries, `oversellActive` | `allocate`, `checkAvailability`, `readStock`, `syncOversellState` | pipeline, quotes, scenario engine |
| stuck-order sweeper, `orders/stuck-order.sweeper.ts` | `reportCounts` | `sweep` | reads the repository |
| scenario engine, operator tools, `scenarios/`, `mcp/ops-tools.service.ts` | activations and their timers, served version | `start`, `stop`, `stopAll`, expiry, `rollbackRelease`, `recycleDbPool` | every simulated dependency asks it; two scenarios have hooks |
| pricing, fraud, shipping, `pricing/`, `fraud/`, `shipping/` | none | pure answers, some of them random | pipeline |
| checkout quote, `orders/orders.service.ts` | none; the sleeps and timers of checks that run | `quote`, `checkAvailabilityWithTimeout` | pricing, inventory and its cache |
| delivery estimator, `shipping/delivery-estimator.ts` | none | `estimateDelivery` | called by shipping |
| order generator, self traffic, metrics snapshot, `simulation/` | timers, the counter of the day | ticks, storms, reads, `ordersToday` | intake, repository |
| catalog, reports, administration, MCP, health, logging | none that others read | lookups, endpoints, log lines | API, engine |

What makes them correct:

- *pipeline*: an unsettled order always has exactly one continuation; the retry
  loops stop; money is authorized and captured at most once and for the order's
  price; the history is a path; every submitted order is settled.
- *intake*: one order per key, or at least a report of the second; a retry gets
  the first order; an accepted order is run.
- *pool*: a connection is never in two hands; nobody waits beside a free
  connection or forever; the place of a leaked connection comes back; the pool keeps its size.
- *breaker*: agrees with the failures it counts, whichever order they come in;
  closes again after an outage. An order's payment ends however long the outage is,
  and without faults nobody's order is dead-lettered.
- *inventory*: no unit is lost or invented; overselling only where the code
  accepts it; the scenario's damage is undone.
- *quote*: a check that lost the race with its timeout does no harm to the stock.
- *estimator*: the promise follows the cutoff of the warehouse.
- *generator*: the counter of the day is off by no more than the ticks that midnight interrupts.
- *sweeper*: reports what stalls, and no more often than allowed.
- *engine*: a timer ends only the activation it was set for; the hooks leave the
  right version and a pool recycled once for every exhaustion, however it ends.

What is hard: interleavings at awaits (two claims of one key, answers that reach a
breaker which has changed, connections that survive a recycle), caught
exceptions in the middle of a step (`queue`'s dead letter), loops that share a
counter, timers that race what they guard, views of the stock that are stale when
used. `PROJECT.json` lists each with its line under `hazards`.

## 2. Modules

| module | models | composed with |
|---|---|---|
| `OrderStates` | `OrderState`, `TRANSITIONS`, `canTransition` | used by the two below and the sweeper |
| `OrderLifecycle` | abstract: what a submitter is promised | implemented by `OrderPipeline` |
| `OrderPipeline` | every step of the pipeline, the validation checks, pricing and capture arithmetic | `OrderStates`; refines `OrderLifecycle` |
| `OrderIntake` | `createOrder` with the claim, the repository and the check | extended by `OrderTraffic` |
| `DbPool` | the connection pool and `runQuery` | instantiated by `OrderTraffic` |
| `OrderTraffic` | the generator, the storefront's reads and `createOrder` over one pool | extends `OrderIntake`; refines `DbPool` |
| `PaymentClient` | the circuit breaker and the gateway behind it | extended by `PaymentFlow` |
| `PaymentFlow` | `authorizeStep` of many orders, and captures, through one breaker | extends `PaymentClient` |
| `Inventory` | allocation, the ledger, the cached view, the oversell scenario | extended by `CheckoutQuote` |
| `CheckoutQuote` | the availability check of a quote against its timeout | extends `Inventory` |
| `DeliveryEstimator` | the delivery promise | |
| `StuckOrderSweeper` | the sweep, over orders that move along the table | `OrderStates` |
| `ScenarioEngine` | activations, timers, hooks, the two operator tools | |
| `*_proofs` | the theorems of a module | extends it |
| `MC*` | the small instance of a module | extends it |

Operators that begin with the comment "Mutant:" are deliberate faults; nothing
refers to them. Substituted for the definition below them they break a property,
which shows that the property depends on that definition.

### OrderPipeline

`order[o]` is the `Order` object; `pending` names what will run next for it.
`queue(order, step)` sets it to the step; a step that awaits is two actions with
an intermediate value ("authorizing", "allocating", "capturing", "reprice",
"recover"). `created` means saved and not submitted, `none` that no timer is set.

- `Transition` is `transition` followed by the `queue` of the step; when the
  table forbids the edge `assertTransition` throws and `DeadLetter`, the catch of
  `queue`, is what remains.
- Amounts are cents. `Nearest` returns both neighbours on an exact half, because
  `toFixed(2)` and `Math.round` follow the binary error of the product; the
  comparison in `PaymentClient.capture`, cents against dollars, is
  `100 * expected = authorizedAmount`.
- The answers of the services are chosen freely: approval, decline or gateway
  error; hold or clear; stock or shortage; confirmation held or not; carrier or
  none. A promotion is live, expired, or without rules (`SUMMER25`, whose pricing
  throws a `TypeError`).
- `AfterShortage` follows the code: the allocator's error is not retryable from
  the third attempt on and is thrown before the "backorder expired" branch is
  reached, so a backorder ends in FAILED, an edge the table of transitions does not
  have; `DeadLetterOrigins` names it.
- `Lifecycle` is the refinement mapping. `PRICING_FAILED` stutters because the
  crash writes PRICED and PRICING_FAILED in one go; FRAUD_HOLD and BACKORDERED
  are stages the abstract lifecycle does not know.

### OrderIntake

A request stands for a call of `createOrder` and for the order it builds. Its
`phase` is the await it is at: the journal write inside `claim` ("journaling"),
`findById` of the order that holds the key ("fetching"), the query of
`reconcileIdempotency` ("reconciling"). `ClaimPersisted` sets the key whoever holds
it by then, and saves. `QueryFails` is the pool's rejection; `createOrder` has no
handler.

### DbPool

A connection is its id and the generation of the pool it was made for, because
`recycle` makes new objects with old ids while queries hold the old ones.
`Release` is `runQuery` ending with rows, `Leak` without (it returns early and
keeps its connection). `Reap` is one turn of the loop of
`reapLeakedConnections`; the 60 s of age are modelled as "no running query holds
it", since simulated queries last milliseconds.

### PaymentClient

`CallGateway` is `throughBreaker` up to its await, `Succeed` and `Fail` what
comes after. Time passes in ticks of the gateway's 10 s timeout. `roundTrip` rolls
a call's fate when it starts, which is why `doomed` is decided there. The counter
stops at `MaxFailures`: the code only compares it with the threshold. A call that
is refused while the breaker is open changes nothing and is no action here; the
pipeline sees it as a gateway error. The module has no run of its own: its properties are
checked under the traffic of `PaymentFlow`, which decides who calls when.

### PaymentFlow

Each order is at a `stage`: `authorizeStep` is queued ("due"), its call is out, or the
payment has ended. `Attempt` is what every `authorizeStep` begins with: the one counter
`paymentAttempts`, for declines and gateway failures alike. `Declined` never reaches the
breaker, `Refused` is `CircuitOpenError`, `Call` goes through `CallGateway`. Waits of
`authorizeStep` are shorter than a tick, hence the guard of `FlowTick`. An order that has
ended gives its slot to the next (`Arrive`): the storefront does not stop. A call of
`Captures` passes once and is not retried.

What the model makes visible: an order's backoffs add up to at most 17 s and the breaker
rests for 30 s, so an order can use up its attempts while the breaker is open and be
dead-lettered without one call to the gateway.

### Inventory

`allocate` has no wait between gate and deduction, so `Allocate` is one action; the
gate checks line by line against `Visible`, the cached value when there is one.
Cache keys end in the epoch second: `NewSecond` is the moment all of them stop
being found. No entry is ever older than a second, hence the 30 s of
`STOCK_CACHE_FRESH_MS` and the stale reads of `inventory-desync` never happen and
are not modelled. `SyncOversellState` is the 500 ms interval.

### CheckoutQuote

A quote is at a `stage`: its check runs and is awaited, runs though the timeout has
answered ("late"), or is over. `EndCheck` is the check waking up, reading the stock and
filling the cache as `Inventory.CheckAvailability` does, for both. Sleeps are told in the
epoch seconds that the cache keys end with: a check that began under factor `f` of
`checkout-latency-spike` sees `f` to `f + 2` seconds end, the timeout is five of them.

### OrderTraffic

A query of the pool is the request or the reader that makes it. Actions join an action of
`OrderIntake` with one of `DbPool`. `QueryEnds` is the end of `runQuery`: it releases the
connection if there are rows and leaks it if there are none, and the rows are those of the
repository at that moment, for the check and the lookup as for a read. What `OrderIntake` calls a query that fails
is here a waiter that expires, or all waiters at once in `RecyclePool`.
`TickWithKey` and `TickWithoutKey` are the ticks of the generator: the storm calls
`createOrder` several times at once with one key, the burst of the blocked customer may
precede either. `TickEnds` is what follows `Promise.allSettled` and counts without
looking at the date. Three variables are history: `emitted` counts an order when its tick emits
it, whatever becomes of the counter; `ofToday` and `late` are the ticks that have begun since
midnight, and those that ended since and had begun before it.

### DeliveryEstimator

A function of the clock, the warehouse's offset and the order, in half minutes: the
minute as the code formats it and anything within it. `Estimate` takes the UTC date and
appends the local cutoff with a `Z`; `BeforeCutoff` compares the local time.
`DispatchDay` is the rule of the code's comment.

### StuckOrderSweeper

`Move` stands for the pipeline, with the edges of the table and dead letters.
`Sweep` does the reports and then the pruning of `reportCounts`. Ages are counted
in sweep intervals.

### ScenarioEngine

`start` stops the activation there is, hooks included, before it makes the new
one; `Start` is the sum of the two. `setTimeout` fires at once for delays it
cannot represent; that is `LongestTimer`. `timers[n]` are all the timers set for a scenario
that have not fired or been cleared, not only the one the map knows, so that an activation
overwritten without a stop would leave its own behind. `recycles` counts calls of
`DbPool.recycle`; `exhaustions` and `direct` are history.

## 3. Runs

`tlc -config X.cfg M` with the module and configuration of the table. States are distinct
states.

| run | states | what it asks |
|---|---|---|
| MCOrderPipeline | 46 702 | all properties of one order against every answer of every service |
| MCOrderMismatch | violation | is a mismatched capture held for review? |
| MCPaymentFlow | 214 378 | does the breaker agree with its counter and recover, and does every payment end? |
| MCDbPool | 17 916 | is a connection ever in two hands, a waiter ever forgotten, the place of a leaked connection ever lost? |
| MCDbPoolSize | violation | does the pool keep its size? |
| MCOrderTraffic | 294 154 | are duplicates reported, retries harmless and calls ended while connections leak and are recycled; does `createOrder` leak any; by how much can the counter of the day be wrong? |
| MCIdempotency | violation | is there one order per key? |
| MCOrphans | violation | is every order that callers are given run? |
| MCCheckoutQuote | 197 820 | is stock conserved and oversold only where expected, while quotes read it late; which orders are refused needlessly; which quotes time out? |
| MCStuckOrderSweeper | 277 | are stalls reported, and reported within their budget? |
| MCScenarioEngine | 12 506 | do restarts, expiries and operators leave the right version and timers, and recycle the pool for every exhaustion? |
| MCDeliveryEstimator | violation | does the promise follow the warehouse's cutoff? |

### Properties worth a second look

- `StepMatchesState`: ties the state of an order to the continuation that is queued for
  it. A missing `queue`, a second one, or one after a terminal state breaks it.
- `ApprovalIsFinal`, `CaptureIsFinal`: after an approval no path (backorder, hold,
  polling) authorizes again or changes the price or the authorized amount; an answered
  capture is not polled again.
- `DuplicatesReported`: the claim lets duplicates through, and the check afterwards
  sees only what is saved by then. In every interleaving at least one of the two
  is reported, because each saves before it looks.
- `OneHolder`: holds through recycles although old and new connections have
  the same ids; they are different objects.
- `PricedAsOrdered`: whatever the path to a price (a promotion that expired, pricing that
  crashed), only an order that passed every check has one, it is that of its lines, and a
  discount is of a promotion that was live.
- `ClosedIffFewFailures`, `HalfOpenAwaitsAnswer`: answers of calls made in an earlier breaker
  state arrive later; they change the breaker, but never so that it disagrees
  with its counter, and a half-open breaker always has a call out that will decide.
- `EveryPaymentEnds`: an order's retries end although the breaker may be open each time
  and other orders' probes keep it open.
- `HealthySystemFailsNobody`: declines and gateway failures share an order's
  counter, but without faults no mix of them adds up to a dead letter.
- `PlacesComeBack`: each of the pool's places has, again and again, a connection that is free
  or in use. It speaks of places and not of entries: after a recycle a connection of the old
  pool that is released deletes the entry of a new one with its id, leaked or not.
- `CallsGiveBack`: a query of `createOrder` gives its connection back, to the free list or to
  a waiter. It could leak it, as any query without rows does: it never does because an order
  is saved before its check, in every interleaving.
- `ImplementsPool`: the composed system takes only the pool's steps and keeps its
  fairness; a call that failed and left its waiter behind would break it.
- `CounterErrsByTicks`: a tick may begin before midnight and end after it, with a
  snapshot in between. The counter then shows an order of the day before; the property says
  how far it can be off in either direction.
- `TimesOutOnlyAtHigh`: a quote times out only if its check met the latency scenario at
  intensity high, however allocations, seconds and restarts of the scenario fall.
- `RefusedOnlyWhenShort`: a stale view errs towards clearing an order. The one exception is
  named in it: once the oversell scenario is over, a hot SKU's ledger is restored and its cache
  is not, and until the second ends an order may be refused though there is stock.
- `EveryExhaustionRecycles`: compares the recycles with the exhaustions that have ended and the
  operator's direct calls; a restart is an end too.
- `ShortOnlyWhenStale`: says exactly when the code oversells: a stale cached view,
  or a cart with two lines for one SKU, which the gate compares one by one.
- `TimersAreOfTheirActivation`: the timer of a stopped activation does not end the
  next one.

### Bounds, and why they are enough

- *Pipeline*: one order, as orders share no variable of this module (the proofs
  cover any number); the real limits 2, 3, 3, 3 and 20; goods of 0, 200 and 9999
  cents: free, an exact half cent of tax, neither; rates of 8 and 20 %.
- *Payment*: two orders and a capture, so that two probes and a call from before can be in
  flight together, and one order's retries open the breaker on another; the real limits 2
  and 3 and threshold 5, at which the counter stops; reset of three ticks, timeout of one.
- *Pool*: two connections, three queries, two recycles: two old connections
  in use beside two new ones, one query waiting beside both, three waiting beside two leaks.
- *Intake*: three requests with one customer and key, one with the key of
  another customer, one without key, for the two violations. A claim can be overtaken twice.
- *Traffic*: one connection, so that every query contends; the storm with two calls for
  the code's three (two already race in every order, the third is covered by a late
  retry with the same key); one tick without key; a reader; a recycle; a midnight; bursts of 0
  and 2. The baseline tick with a key of its own is the storm's with one call.
- *Quote*: one quote over four orders; factors 2 and 4, either side of the timeout.
- *Estimator*: the three warehouses, winter and summer, every hour of two days and half a
  minute around it; the theorems cover every instant and offset.
- *Inventory*: a hot and a cold SKU with 3 units; carts that compete for more than half,
  a cart with a repeated SKU; floor, inflated view and restored stock keep the order
  of the real numbers. Every order is allocated once, so nothing needs capping.
- *Sweeper*: one order (the sweeper does not compare orders), the default age of
  two intervals, three reports.
- *Engine*: both scenarios with hooks and one without; durations of which one is
  longer than a timer can wait; three exhaustions, so that one can be restarted and end
  twice, and one direct recycle.

`CHECK_DEADLOCK FALSE` appears for the pipeline and the intake, which stop when every
order is settled and every request answered.

### Fairness

- *Pipeline*: a submitted order's step happens: timers fire, awaited simulations
  resolve or reject. Nobody has to submit, and no answer is preferred:
  that every submitted order is settled, which `ImplementsLifecycle` includes, does not
  rely on a favourable one.
- *Payment*: time passes, timers of `authorizeStep` fire, calls in flight end, and orders keep
  arriving. Strong fairness of `Call` says that issuers, who decline a few of a hundred orders,
  do not decline every order in whose turn the breaker would let a call through; without
  it nobody would ever probe. Faults come and go freely;
  `RecoversAfterOutage` says what holds once they end.
- *Pool*: the waiters' timers fire, and the reaper, every 30 s, reaches an entry that
  stays leaked. That queries end is not assumed.
- *Intake and traffic*: journal writes and queries end, the timers of waiters and the reaper
  run. Nobody has to call, to read, to recycle or to pass midnight.
- *Quote*: timers and sleeps end. Nobody has to quote.
- *Inventory*: seconds pass; the 500 ms interval fires.
- *Sweeper*: the sweep interval fires. Orders need not move.
- *Engine*: minutes pass and timers that are due fire. `ActivationsExpire` excludes
  only an operator who starts scenarios for ever.

### Where the code and its words disagree

The violation runs, each with its trace and the line it quotes in `PROJECT.json` under
`findings`:

1. `OneOrderPerKey`: `claim` awaits between test and set; two requests with one
   key both create an order (`docs/RUNBOOK.md` describes it among the planted faults).
2. `AnsweredOrdersRun`: the order is saved and its key claimed before the check
   that may throw; the order is never submitted, and retries are answered with it.
3. `MismatchHeldForReview`: `capture` compares cents with dollars, so every
   order that is not free mismatches; `attemptCapture` then takes the mismatch for
   captured and the order ships.
4. `FixedSize`: connections held across a recycle are released into the new pool;
   it grows, and `inUse` goes negative.
5. `PromiseAnchoredToCutoff`: the estimator parses a local cutoff as UTC and takes the
   date in UTC; where the two dates differ, or the local cutoff has passed at UTC, the promise
   is a day off. The theorems of `DeliveryEstimator_proofs` say by exactly how much.

Seen while modelling, without a run of their own:

- The comment of `recycle` (`infra/db-pool.ts:105`) promises waiters fresh connections; the
  code rejects them (line 110). `RecyclePool` shows what becomes of their calls.
- `checkout-latency-spike` describes itself with error rates that stay flat,
  `docs/RUNBOOK.md` with 504s on quotes; by `TimesOutOnlyAtHigh` each is right at its intensity.
- `ordersToday` ("orders emitted since UTC midnight", `simulation/order-generator.service.ts:68`)
  may show more: an order emitted before midnight is counted when its tick ends (lines 130 and 144),
  for the new day if the snapshot has looked at the date meanwhile. If nothing has, it is counted
  for the old day and dropped.
- When `inventory-oversell` ends, the ledger of the hot SKUs is restored and their cache is not
  (`inventory/inventory.service.ts:63`): for the rest of the second a low cached view refuses
  orders that the ledger could serve.
- A gateway error at a capture dead-letters the order at once
  (`orders/order-pipeline.service.ts:530`), while the same error at an authorization is retried.
- A daily report reads its date before a wait of up to 20 s and its counters after it
  (`reports/reports.service.ts:20`).
- Catalog keys are SKUs as they are written, lookups use the NFD form
  (`catalog/sku.validator.ts`: "canonical form used for catalog keys and lookups"). The imported
  products have a composed Ñ in the seed, so no lookup finds them and
  their orders are rejected as invalid.

## 4. Proofs

`tlapm X_proofs.tla`. All are safety, for every value of the constants that the named
assumptions allow.

| module | theorems | argument |
|---|---|---|
| `OrderPipeline_proofs` | `TypeCorrect`, `ContinuationCorrect`, `RetriesCorrect`, `HistoryCorrect`, `PricingCorrect`, `ShipmentCorrect`, `SettledCorrect`, `ApprovalCorrect`, `CaptureCorrect`, `OnlyFreeCaptured`, `HopsCorrect`, `LifecycleCorrect` | below |
| `PaymentFlow_proofs` | `BreakerCorrect`, `FlowBreakerCorrect`, `AttemptsCorrect`, `HealthyCorrect` | `ClosedIffFewFailures` and `HalfOpenAwaitsAnswer` with the types are inductive together, for any number of calls in flight; every step of the flow is one of the breaker or leaves it alone. `FlowFits` ties the orders' stages and attempts to the calls in flight; without faults "nothing is doomed, the breaker is closed, nobody is given up" is inductive |
| `DbPool_proofs` | `TypesCorrect`, `HoldersCorrect`, `WaitersCorrect`, `BooksCorrect`, `PlacesCorrect`, `SizeCorrect` | below |
| `OrderTraffic_proofs`, the intake | `TypesCorrect`, `DuplicatesCorrect`, `RetriesCorrect` | adds `KeysPointToOrders` (a claimed key keeps a saved order), `FetchingFits` (who found the key taken asks for a saved order of that key) and `PhasesFit` (who saved what by when); without the second, a request could be submitted without having been saved before its check |
| `OrderTraffic_proofs`, the pool and the counter | `HoldersCorrect`, `CallsCorrect`, `CounterCorrect` | every step is one of the pool (`NextPool`), so the invariant of `DbPool_proofs`, instantiated, is one of the system. The queries of calls have rows by the invariant of the intake under traffic. `CounterFits` bounds the counter from both sides, a tick that is out included, and needs `HistoryFits`, who has begun and ended when |
| `OrderTraffic_proofs`, the intake under traffic | `TypesUnderTraffic`, `DuplicatesUnderTraffic`, `RetriesUnderTraffic`, `FetchesFind`, `OrphansAreOfFailures` | below |
| `CheckoutQuote_proofs` | `DeductionsCorrect`, `TypesCorrect`, `StockCorrect`, `TimeoutsCorrect`, `RefusalsCorrect`, `ShortfallsCorrect` | below |
| `StuckOrderSweeper_proofs` | `ReportsCorrect` | adds that the entry of a live order counts its reports, and that no settled state leads back (`SettledStays`): only then is dropping an entry harmless |
| `ScenarioEngine_proofs` | `EngineCorrect`, `RecyclesCorrect` | types, the version and the timers are inductive together; the timers of a scenario are none or the one of its activation, which is what makes a restart replace it; the balance of `EveryExhaustionRecycles` is inductive with the types |
| `DeliveryEstimator_proofs` | `PromiseNotInThePast`, `InvalidOnlySameDay`, `PromiseOffByADay` | arithmetic of days and times of day, for every instant and every offset of a zone |

The invariant of the pool. A hand-over is safe because nobody else runs on the connection
and the waiter runs on none. Both must be known through recycles, where old and new
connections share ids: `ConnectionsFit` bounds the generation of every connection, so
that those of a new pool differ from all there are, and says that an entry is filed under
its connection's id and that no free connection has one; `WaitersFit` says that a query waits
once and not while it runs. `HandOver` and `PutBack` are the two ways a connection goes
back, proved once for `Release` and `Reap`. The books need one fact more: before the first recycle
every query that runs has the entry of its connection. After a recycle it has not, and
the books are wrong, as `FixedSize` shows; `SizeCorrect` says that nothing but a recycle makes
them so. What survives a recycle is `EveryPlaceKnown`: an id without a free connection has an entry,
as a release that deletes an entry puts a connection of that id on the free list.

The intake under traffic. One step of the system may be many of the intake: a storm begins
several calls, a recycle rejects everyone who waits. Both are harmless only because of who those
calls are, and the invariant has to say it: `WaitingFits` (a call that waits for a connection is
in its lookup or its check) and `TicksFit` (the calls of a tick that has not begun have not been
made). The first needs the queue of the pool, hence the invariant of `DbPool_proofs`, and one
lemma, `WaitingChange`, for what each step of the pool does to the set of those who wait.
`FetchesFind` shows that `findById` never misses, so that the branch after a miss, which is not
modelled, is never taken; the same invariant gives `CallsCorrect`.
`OrphansAreOfFailures` delimits what the run MCOrphans finds: an answered order that is not run is
always one whose own call failed in its check.

The invariant of the pipeline. `IInv` is a predicate `OrderFits(request, order)` of
one order, for all of them; `BecomesFits` lifts it, so there is one lemma per action
and each speaks of one record. `OrderFits` has four parts: `StatesAt` (state and
continuation fit), `AttemptsFit` (the counters fit the step), `MoneyFits` (what is known of
checks, promotion, amounts and settlement at each step) and `HistoryFits`. They
are needed together. That a retry finds its state needs the counters: a third
shortage must be from BACKORDERED, or the dead letter would have another origin.
That a shipped order stands authorized for its total needs to know, at every
step since the approval, that the total did not move. `MoneyFits` keeps the promotion
of a crashed pricing out of the second one.

What a step may not do to an order's money is again proved for one record: `FinalMoney` holds
between an order and its successor for each action (`StepMoney`), given `OrderFits` before it; an
approval that came twice, or a price that changed after one, would contradict what `MoneyFits`
says of the continuation. `OnlyFreeCaptured` adds the arithmetic of the comparison: a total in
cents is a hundred times one in dollars, rounding included, for nothing but zero. It justifies
that `PaymentFlow`'s captures are of free orders.

The refinement. `HopsCorrect` lists the successors of every state (`Successors`), a subset of the
table but for one hop; the mapping to the stages of `OrderLifecycle` turns each into a step of it
or a stutter, which is `LifecycleCorrect`. Both need `CAPTURE_CONFIRM_MAX_ATTEMPTS > 1`, and the
proof attempt is how that was found: with a limit of 1 the step that enters FULFILLING
gives the order up at once, the abstract lifecycle has no such hop, and TLC
refutes `ImplementsLifecycle` with that value. The code's limit is 20.

The invariant of the stock. `StockAccounted` sums over the lines of a cart and over orders. The
sums are recursive functions (`SumTo`), because a fact about a recursive function can be proved by
contradiction from the least argument at which it fails: the well-foundedness of strict subsets of
a finite set gives that least argument, and no induction theorem with an operator parameter is
needed. In this way `DeductionsCorrect` shows that the allocator's loop, which takes the lines one by one
and stops at zero, ends with the closed form that the action `Allocate` uses, whatever the
cart, repeated SKUs included. `RefusedOnlyWhenShort` and `ShortOnlyWhenStale` need `CacheFits`: a
cached view is never below the ledger unless it is `BehindRestore`, so it errs in one direction
with one exception. For the hot SKUs this rests on the scenario's view being no lower than the
floors it sets, 500 and 4 to 14 in the code. `TimesOutOnlyAtHigh` needs `QuoteFits`: a check that is waited for is
never overdue.

Assumptions on the limits, as weak as the argument allows: the numbers are
naturals; declines do not outlast gateway retries (`PAYMENT_MAX_DECLINE_ATTEMPTS <=
GATEWAY_MAX_RETRIES + 1`); a first shortage puts an order on backorder
(`BACKORDER_MAX_ATTEMPTS` and `RETRYABLE_ATTEMPTS` above 1). The code has 2, 3, 3
and 3. Discount rates are percentages.

`AttemptsCorrect` also assumes that declines do not outlast gateway retries; `HopsCorrect` and `LifecycleCorrect` assume
`CAPTURE_CONFIRM_MAX_ATTEMPTS > 1`.

Every safety invariant and every action property of the passing runs is stated by a theorem. Only
model-checked is liveness, as the prover does not do fairness: `RecoversAfterOutage`,
`EveryPaymentEnds`, `PlacesComeBack`, `EveryCallEnds`, `ReplenishedAfterOversell`,
`StallsSurface`, `ActivationsExpire`, and that part of `ImplementsLifecycle` and `ImplementsPool`
(their safety parts are `LifecycleCorrect` and the lemma `NextPool`; the one of `PlacesComeBack`
is `PlacesCorrect`).

## 5. Not modelled

- *Services behind the pipeline* (tax rules, tiers, fraud score, carrier choice):
  their answers are free choices in `OrderPipeline`; which one a given order gets is
  not modelled. The payment gateway's latencies are ticks.
- *Compensation*: an order that fails after authorization or allocation keeps both;
  the code has no void or release to model.
- *Cache growth*: `ProductCache` never drops an entry. `Inventory` keeps only what can
  still be found.
- *Repository counters*: `activeCount` and others are read by metrics and reports only.
- *Catalog*: a static list and a string pattern; the outcome of the check is an input of
  `OrderPipeline`. Unicode forms are outside of the models.
- *Reports, administration, MCP transport, health, logging*: input and output over operations
  that are modelled with their services.
- *Contents of the simulated orders*: random in the code, free choices in the models.

## 6. Plan

Built, in this order: `OrderStates`, `OrderLifecycle`, `OrderPipeline` with its
proofs, `PaymentClient`, `DbPool`, `OrderIntake`, `Inventory`, `ScenarioEngine`,
`StuckOrderSweeper`; then `PaymentFlow`, `DeliveryEstimator`, `CheckoutQuote`, `OrderTraffic` and
the proofs of the pool, alone and in the system; then the proofs of the stock and its quotes, of the
intake under traffic, of what is final of an order's money, and of the refinement of the lifecycle.

Next modules:

1. Sweeper over the pipeline's own timing: which confirmation polls refresh
   `updatedAt` and which holds surface.
2. `Pricing`: tier choice and tax rounding against a reference.
3. `Catalog`: SKUs with their written and canonical forms.

Next theorems, towards what is only model-checked: the safety half of the liveness arguments.

1. A variant of the pipeline: a measure of state and counters that every step of an order lowers, so
   that no behaviour delays its end for ever but by not taking steps.
2. The pool after recycles: how far `Len(free)` and `inUse` can be from `POOL_SIZE` after n of them.
3. The sweeper: between two sweeps in which an order is stuck, its count rises or has reached
   the budget.
