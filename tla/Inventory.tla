----------------------------- MODULE Inventory -----------------------------
(***************************************************************************)
(* StockAllocator, StockLedger and InventoryService: the stock of each SKU *)
(* and the cached view of it that gates allocation.                        *)
(*                                                                         *)
(* allocate() runs without a wait between its gate and its deductions, so  *)
(* an allocation is one action.  The gate reads the cache when it can; the *)
(* cache is filled by quotes, and by the oversell scenario.  Cache keys    *)
(* carry the epoch second, so an entry is found until the second ends.     *)
(* (An entry is therefore never as old as STOCK_CACHE_FRESH_MS, and every  *)
(* hit of readStock is served, whatever inventory-desync says.)            *)
(***************************************************************************)
EXTENDS Integers, SequencesExt

CONSTANTS
  Skus,
  HotSkus,                  \* HOT_SKUS, whose stock the scenario manipulates
  Seed,                     \* seedQuantity, by SKU
  Orders,
  CartOf,                   \* the lines of each order
  OversellFloors,           \* OVERSELL_LEDGER_FLOOR_MIN .. _MAX
  OVERSELL_CACHE_ONHAND,
  OVERSELL_RESTORE_ONHAND

Line == [sku : Skus, quantity : Nat \ {0}]

ASSUME StockAssumption ==
  /\ HotSkus \subseteq Skus
  /\ Seed \in [Skus -> Nat]
  /\ OversellFloors \subseteq Nat
  /\ OVERSELL_CACHE_ONHAND \in Nat /\ OVERSELL_RESTORE_ONHAND \in Nat
  /\ \A f \in OversellFloors : f <= OVERSELL_CACHE_ONHAND

ASSUME CartsAssumption ==
  /\ IsFiniteSet(Orders)
  /\ CartOf \in [Orders -> Seq(Line)]

VARIABLES
  ledger,           \* StockLedger, by SKU
  cache,            \* the entry of this second for stock:<sku>, or Miss
  scenario,         \* inventory-oversell is active
  oversellActive,   \* it was when syncOversellState last looked
  answer,           \* what the last allocate() of each order did
  shortfall         \* units reported as fulfillment_shortfall, by SKU

vars == << ledger, cache, scenario, oversellActive, answer, shortfall >>

Miss == -1

Init ==
  /\ ledger = Seed
  /\ cache = [s \in Skus |-> Miss]
  /\ scenario = FALSE
  /\ oversellActive = FALSE
  /\ answer = [o \in Orders |-> "none"]
  /\ shortfall = [s \in Skus |-> 0]

SkusOf(cart) == { l.sku : l \in ToSet(cart) }

\* The sum of the first n values of f, added up as a loop does.  (A recursive
\* function, of which more can be proved than of the folds of the library.)
SumTo(f, n) ==
  LET sum[i \in 0 .. n] == IF i = 0 THEN 0 ELSE sum[i - 1] + f[i]
  IN  sum[n]

\* The units of s that the lines of a cart take one after the other.
UnitsByLine(cart, s) == [i \in 1 .. Len(cart) |-> IF cart[i].sku = s THEN cart[i].quantity ELSE 0]

Requested(cart, s) == SumTo(UnitsByLine(cart, s), Len(cart))

\* Mutant: the rest of a stock that does not suffice stays in the ledger.
DeductedIfEnough(cart, s) ==
  IF Requested(cart, s) > ledger[s] THEN ledger[s] ELSE ledger[s] - Requested(cart, s)

\* Mutant: the remainder is stored as it is.
DeductedBelowZero(cart, s) == ledger[s] - Requested(cart, s)

\* What the deductions leave of s: a line that asks for more than there is
\* takes what there is.
Deducted(cart, s) ==
  IF Requested(cart, s) > ledger[s] THEN 0 ELSE ledger[s] - Requested(cart, s)

Shortfall(cart, s) ==
  IF Requested(cart, s) > ledger[s] THEN Requested(cart, s) - ledger[s] ELSE 0

\* The deductions as the code makes them, line by line: what is left of s and
\* what was missing of it after the first i lines.  Deducted and Shortfall are
\* where this ends (theorem DeductionsCorrect).
DeductedByLine(cart, s, left, missing) ==
  \A i \in 1 .. Len(cart) :
    LET units == UnitsByLine(cart, s)[i]
        remaining == left[i - 1] - units
    IN  IF remaining < 0
        THEN left[i] = 0 /\ missing[i] = missing[i - 1] + units - left[i - 1]
        ELSE left[i] = remaining /\ missing[i] = missing[i - 1]

\* What the gate sees of s.
Visible(s) == IF cache[s] # Miss THEN cache[s] ELSE ledger[s]

\* Mutant: one unit more than visible passes.
GateClearsOneMore(cart) == \A l \in ToSet(cart) : Visible(l.sku) + 1 >= l.quantity

\* The availability gate, line by line.
GateClears(cart) == \A l \in ToSet(cart) : Visible(l.sku) >= l.quantity

Allocate(o) ==
  /\ answer[o] # "allocated"
  /\ GateClears(CartOf[o])
  /\ ledger' = [s \in Skus |-> Deducted(CartOf[o], s)]
  /\ shortfall' = [s \in Skus |-> shortfall[s] + Shortfall(CartOf[o], s)]
  /\ answer' = [answer EXCEPT ![o] = "allocated"]
  /\ UNCHANGED << cache, scenario, oversellActive >>

\* ERR_INSUFFICIENT_STOCK: the pipeline backorders the order and comes back.
Refuse(o) ==
  /\ answer[o] # "allocated"
  /\ ~GateClears(CartOf[o])
  /\ answer' = [answer EXCEPT ![o] = "refused"]
  /\ UNCHANGED << ledger, cache, scenario, oversellActive, shortfall >>

\* Mutant: the quote reserves what it reports.
CheckAvailabilityReserving(o) ==
  /\ cache' = [s \in Skus |-> IF s \in SkusOf(CartOf[o]) /\ cache[s] = Miss
                              THEN Deducted(CartOf[o], s) ELSE cache[s]]
  /\ UNCHANGED << ledger, scenario, oversellActive, answer, shortfall >>

\* checkAvailability for a quote of the lines of o: readStock caches what it had
\* to read from the ledger.
CheckAvailability(o) ==
  /\ cache' = [s \in Skus |-> IF s \in SkusOf(CartOf[o]) /\ cache[s] = Miss
                              THEN ledger[s] ELSE cache[s]]
  /\ UNCHANGED << ledger, scenario, oversellActive, answer, shortfall >>

\* The epoch second ends, and with it every bucket.
NewSecond ==
  /\ cache' = [s \in Skus |-> Miss]
  /\ UNCHANGED << ledger, scenario, oversellActive, answer, shortfall >>

\* Mutant: the flag is reset when the scenario starts, not when it ends.
SyncOversellStateForgetful ==
  /\ IF scenario
     THEN /\ \E floor \in [HotSkus -> OversellFloors] :
               ledger' = [s \in Skus |-> IF s \in HotSkus THEN floor[s] ELSE ledger[s]]
          /\ cache' = [s \in Skus |-> IF s \in HotSkus THEN OVERSELL_CACHE_ONHAND ELSE cache[s]]
     ELSE UNCHANGED << ledger, cache >>
  /\ oversellActive' = (scenario /\ ~oversellActive)
  /\ UNCHANGED << scenario, answer, shortfall >>

\* syncOversellState, every 500 ms.
SyncOversellState ==
  /\ IF scenario
     THEN /\ \E floor \in [HotSkus -> OversellFloors] :
               ledger' = [s \in Skus |-> IF s \in HotSkus THEN floor[s] ELSE ledger[s]]
          /\ cache' = [s \in Skus |-> IF s \in HotSkus THEN OVERSELL_CACHE_ONHAND ELSE cache[s]]
     ELSE /\ ledger' = [s \in Skus |-> IF oversellActive /\ s \in HotSkus
                                       THEN OVERSELL_RESTORE_ONHAND ELSE ledger[s]]
          /\ UNCHANGED cache
  /\ oversellActive' = scenario
  /\ UNCHANGED << scenario, answer, shortfall >>

\* The scenario is started, and stopped or expires.
ToggleScenario ==
  /\ scenario' = ~scenario
  /\ UNCHANGED << ledger, cache, oversellActive, answer, shortfall >>

Next ==
  \/ \E o \in Orders : Allocate(o) \/ Refuse(o) \/ CheckAvailability(o)
  \/ NewSecond \/ SyncOversellState \/ ToggleScenario

\* Seconds pass and the interval timer fires; nobody has to order.
Fairness == WF_vars(NewSecond) /\ WF_vars(SyncOversellState)

Spec == Init /\ [][Next]_vars /\ Fairness

-----------------------------------------------------------------------------
(* Properties.                                                             *)

\* The variables have their types; in particular no stock is ever negative.
TypeOK ==
  /\ ledger \in [Skus -> Nat]
  /\ cache \in [Skus -> Nat \cup { Miss }]
  /\ scenario \in BOOLEAN /\ oversellActive \in BOOLEAN
  /\ answer \in [Orders -> { "none", "refused", "allocated" }]
  /\ shortfall \in [Skus -> Nat]

SoldTo(o, s) == IF answer[o] = "allocated" THEN Requested(CartOf[o], s) ELSE 0

Sold(s) ==
  LET orders == SetToSeq(Orders)
  IN  SumTo([i \in 1 .. Cardinality(Orders) |-> SoldTo(orders[i], s)], Cardinality(Orders))

\* Every unit promised to an order left the ledger or was reported as a
\* shortfall, for the SKUs the scenario leaves alone: none is lost in between.
StockAccounted ==
  \A s \in Skus \ HotSkus : ledger[s] + Sold(s) = Seed[s] + shortfall[s]

\* The view of a hot SKU is below its stock: a quote has cached the floor of the
\* oversell scenario, and the stock has been restored since, but not the cache.
BehindRestore(s) ==
  /\ s \in HotSkus /\ ~oversellActive
  /\ cache[s] # Miss /\ cache[s] < ledger[s] /\ ledger[s] <= OVERSELL_RESTORE_ONHAND

\* An order is refused only for stock that is missing, but for one case: a stale
\* view of the stock may clear an order that it should not, and the only view that
\* refuses one that it should not is that of a hot SKU just restored, until the
\* second ends.
RefusedOnlyWhenShort ==
  [][ \A o \in Orders :
        answer'[o] = "refused" /\ answer[o] # "refused" =>
          \E l \in ToSet(CartOf[o]) : l.quantity > ledger[l.sku] \/ BehindRestore(l.sku) ]_vars

HasRepeatedSku(cart) == \E i, j \in DOMAIN cart : i # j /\ cart[i].sku = cart[j].sku

\* Overselling takes a stale view or a cart with two lines for one SKU: an
\* allocation of other carts whose stock is read from the ledger never falls
\* short.
ShortOnlyWhenStale ==
  [][ \A s \in Skus : shortfall'[s] > shortfall[s] =>
        \/ cache[s] # Miss /\ cache[s] > ledger[s]
        \/ \E o \in Orders : /\ answer[o] # "allocated" /\ answer'[o] = "allocated"
                             /\ s \in SkusOf(CartOf[o])
                             /\ HasRepeatedSku(CartOf[o]) ]_vars

\* When the oversell scenario has depleted the hot SKUs and ended, they are
\* replenished, unless it is started again first.
ReplenishedAfterOversell ==
  oversellActive /\ ~scenario ~>
    scenario \/ \A s \in HotSkus : ledger[s] = OVERSELL_RESTORE_ONHAND
=============================================================================
