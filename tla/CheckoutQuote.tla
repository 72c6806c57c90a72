--------------------------- MODULE CheckoutQuote ---------------------------
(***************************************************************************)
(* OrdersService.quote and the availability check it races with a timeout, *)
(* over the stock and the cache of Inventory.                              *)
(*                                                                         *)
(* The check sleeps before it reads, for seconds while the scenario        *)
(* checkout-latency-spike is active, and reads then, in one go, what       *)
(* allocations and the oversell scenario have made of the stock; a check   *)
(* that lost the race reads too, and fills the cache with what it read.    *)
(*                                                                         *)
(* Time is told by the seconds of the cache keys: a sleep of f to f + 1.15 *)
(* seconds (0.15 without the scenario) sees at least f of them end and at  *)
(* most f + 2, the timeout QUOTE_TIMEOUT of them.                          *)
(***************************************************************************)
EXTENDS Inventory

CONSTANTS
  Quotes,               \* the orders whose carts are quoted
  Factors               \* intensity factors of the scenario that are started

HIGH == 4               \* the factor of intensity high; low is 1 and medium 2
QUOTE_TIMEOUT == 5      \* QUOTE_AVAILABILITY_TIMEOUT_MS

ASSUME QuoteAssumption == Quotes \subseteq Orders /\ Factors \subseteq { 1, 2, HIGH }

VARIABLES
  spike,        \* the factor of checkout-latency-spike, 0 while it is inactive
  quote         \* the last quote of each cart

quoteVars == << vars, spike, quote >>

NoQuote == [stage |-> "none", factor |-> 0, seconds |-> 0]

QuoteInit ==
  /\ Init
  /\ spike = 0
  /\ quote = [q \in Quotes |-> NoQuote]

\* The check runs: awaited, or after the timeout.
Checking(q) == quote[q].stage \in { "awaited", "late" }

\* The quote is priced, its check begins and its timer is set.
BeginCheck(q) ==
  /\ ~Checking(q)
  /\ quote' = [quote EXCEPT ![q] = [stage |-> "awaited", factor |-> spike, seconds |-> 0]]
  /\ UNCHANGED << vars, spike >>

\* An expired promotion (400) or a pricing crash (500): no check is made.
RefuseQuote(q) ==
  /\ ~Checking(q)
  /\ quote' = [quote EXCEPT ![q] = [NoQuote EXCEPT !.stage = "refused"]]
  /\ UNCHANGED << vars, spike >>

\* The check wakes and reads the stock; its quote is answered, if not yet.
EndCheck(q) ==
  /\ Checking(q)
  /\ quote[q].seconds >= quote[q].factor
  /\ CheckAvailability(q)
  /\ quote' = [quote EXCEPT ![q].stage = IF @ = "late" THEN "timed out" ELSE "answered"]
  /\ UNCHANGED spike

\* Mutant: the check is given up after three seconds.
TimeOutSooner(q) ==
  /\ quote[q].stage = "awaited"
  /\ quote[q].seconds >= 3
  /\ quote' = [quote EXCEPT ![q].stage = "late"]
  /\ UNCHANGED << vars, spike >>

\* ERR_UPSTREAM_TIMEOUT (504): nobody stops the check.
TimeOut(q) ==
  /\ quote[q].stage = "awaited"
  /\ quote[q].seconds = QUOTE_TIMEOUT
  /\ quote' = [quote EXCEPT ![q].stage = "late"]
  /\ UNCHANGED << vars, spike >>

Longest(factor) == IF factor = 0 THEN 1 ELSE factor + 2

\* A second ends, while no sleep and no timer is overdue.
QuoteSecond ==
  /\ NewSecond
  /\ \A q \in Quotes :
       /\ Checking(q) => quote[q].seconds < Longest(quote[q].factor)
       /\ quote[q].stage = "awaited" => quote[q].seconds < QUOTE_TIMEOUT
  /\ quote' = [q \in Quotes |-> IF Checking(q) THEN [quote[q] EXCEPT !.seconds = @ + 1]
                                ELSE quote[q]]
  /\ UNCHANGED spike

\* The latency scenario is started, or stopped, or expires.
ToggleSpike ==
  /\ spike' \in IF spike = 0 THEN Factors ELSE { 0 }
  /\ UNCHANGED << vars, quote >>

StockStep ==
  /\ \/ \E o \in Orders : Allocate(o) \/ Refuse(o)
     \/ SyncOversellState
     \/ ToggleScenario
  /\ UNCHANGED << spike, quote >>

QuoteNext ==
  \/ \E q \in Quotes : BeginCheck(q) \/ RefuseQuote(q) \/ EndCheck(q) \/ TimeOut(q)
  \/ QuoteSecond \/ ToggleSpike \/ StockStep

\* Timers fire and seconds pass.
QuoteFairness ==
  /\ WF_quoteVars(QuoteSecond)
  /\ WF_quoteVars(SyncOversellState /\ UNCHANGED << spike, quote >>)
  /\ \A q \in Quotes : WF_quoteVars(EndCheck(q)) /\ WF_quoteVars(TimeOut(q))

QuoteSpec == QuoteInit /\ [][QuoteNext]_quoteVars /\ QuoteFairness

-----------------------------------------------------------------------------
(* Properties, besides those of Inventory, which the late checks keep.     *)

\* A quote times out only if its check met the scenario at intensity high; at the
\* default intensity, medium, and at low, every quote is answered.
TimesOutOnlyAtHigh ==
  \A q \in Quotes : quote[q].stage \in { "late", "timed out" } => quote[q].factor = HIGH
=============================================================================
