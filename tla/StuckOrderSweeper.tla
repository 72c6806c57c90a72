------------------------- MODULE StuckOrderSweeper -------------------------
(***************************************************************************)
(* StuckOrderSweeper: the watchdog that reports orders which linger in a   *)
(* state they should pass through quickly.  The orders move along the      *)
(* table of OrderStates, as the pipeline moves them; the sweeper only      *)
(* reads them.                                                             *)
(*                                                                         *)
(* Time passes in sweep intervals (SWEEP_INTERVAL_MS); ages are counted in *)
(* them and up to STUCK_AGE, which is all the sweeper compares them with.  *)
(***************************************************************************)
EXTENDS Naturals, OrderStates

CONSTANTS
  Orders,
  STUCK_AGE,                \* STUCK_AGE_MS in sweep intervals
  MAX_REPORTS_PER_ORDER

ASSUME SweeperAssumption ==
  STUCK_AGE \in Nat /\ MAX_REPORTS_PER_ORDER \in Nat \ {0}

VARIABLES
  state,            \* of the orders in the repository
  age,              \* intervals since updatedAt
  reportCounts,     \* 0 for an order without an entry
  reports,          \* order_stuck_pending lines ever logged, by order
  due               \* the interval has ended and the sweep has not run

vars == << state, age, reportCounts, reports, due >>

\* Mutant: the state in which captures are awaited is missing.
STUCK_STATES_BeforeCapture == { "PAYMENT_AUTHORIZED", "FRAUD_CLEARED", "ALLOCATED" }

STUCK_STATES == { "PAYMENT_AUTHORIZED", "FRAUD_CLEARED", "ALLOCATED", "FULFILLING" }

Init ==
  /\ state = [o \in Orders |-> "RECEIVED"]
  /\ age = [o \in Orders |-> 0]
  /\ reportCounts = [o \in Orders |-> 0]
  /\ reports = [o \in Orders |-> 0]
  /\ due = FALSE

\* A transition of the pipeline, or its dead letter.
Move(o) ==
  /\ \E to \in OrderState :
       /\ CanTransition(state[o], to) \/ (~Settled(state[o]) /\ to = "FAILED")
       /\ state' = [state EXCEPT ![o] = to]
  /\ age' = [age EXCEPT ![o] = 0]
  /\ UNCHANGED << reportCounts, reports, due >>

Interval ==
  /\ ~due
  /\ due' = TRUE
  /\ age' = [o \in Orders |-> IF age[o] < STUCK_AGE THEN age[o] + 1 ELSE age[o]]
  /\ UNCHANGED << state, reportCounts, reports >>

\* activeInPipeline
Live(o) == ~Settled(state[o])

Reported(o) ==
  /\ Live(o)
  /\ state[o] \in STUCK_STATES
  /\ age[o] >= STUCK_AGE
  /\ reportCounts[o] < MAX_REPORTS_PER_ORDER

\* Mutant: an order counts as live after the checks only.
SweepForgetful ==
  /\ due
  /\ reportCounts' = [o \in Orders |-> IF state[o] \notin STUCK_STATES THEN 0
                                       ELSE IF Reported(o) THEN reportCounts[o] + 1
                                       ELSE reportCounts[o]]
  /\ reports' = [o \in Orders |-> IF Reported(o) THEN reports[o] + 1 ELSE reports[o]]
  /\ due' = FALSE
  /\ UNCHANGED << state, age >>

\* sweep: the reports, and then the entries of orders that have left.
Sweep ==
  /\ due
  /\ reportCounts' = [o \in Orders |-> IF ~Live(o) THEN 0
                                       ELSE IF Reported(o) THEN reportCounts[o] + 1
                                       ELSE reportCounts[o]]
  /\ reports' = [o \in Orders |-> IF Reported(o) THEN reports[o] + 1 ELSE reports[o]]
  /\ due' = FALSE
  /\ UNCHANGED << state, age >>

Next == (\E o \in Orders : Move(o)) \/ Interval \/ Sweep

\* The interval timer fires again and again; no order has to move.
Fairness == WF_vars(Interval) /\ WF_vars(Sweep)

Spec == Init /\ [][Next]_vars /\ Fairness

-----------------------------------------------------------------------------
(* Properties.                                                             *)

\* The variables have their types, the counts their budget.
TypeOK ==
  /\ state \in [Orders -> OrderState]
  /\ age \in [Orders -> 0 .. STUCK_AGE]
  /\ reportCounts \in [Orders -> 0 .. MAX_REPORTS_PER_ORDER]
  /\ reports \in [Orders -> Nat]
  /\ due \in BOOLEAN

\* An order is reported three times in its whole life at most, however often it
\* gets stuck, moves on and gets stuck again: its entry is dropped only when it
\* can not come back.
ReportsCapped == \A o \in Orders : reports[o] <= MAX_REPORTS_PER_ORDER

\* An order that does not get out of a stuck state is reported as often as an
\* order may be.
StallsSurface ==
  \A o \in Orders : \A s \in { "PAYMENT_AUTHORIZED", "FRAUD_CLEARED", "ALLOCATED", "FULFILLING" } :
    <>[](state[o] = s) => <>(reports[o] = MAX_REPORTS_PER_ORDER)
=============================================================================
