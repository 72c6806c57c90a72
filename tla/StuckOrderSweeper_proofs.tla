---------------------- MODULE StuckOrderSweeper_proofs ----------------------
(* That no order is reported more often than its budget, for any number of  *)
(* orders, any threshold and any budget.                                    *)
EXTENDS StuckOrderSweeper, TLAPS

\* While an order is in the pipeline its entry counts all of its reports; once
\* it has left there are no more to count, with the entry or without it.
CountsAreReports ==
  \A o \in Orders :
    /\ Live(o) => reports[o] = reportCounts[o]
    /\ reports[o] <= MAX_REPORTS_PER_ORDER

IInv == TypeOK /\ CountsAreReports

\* The table has no way back from a settled state.
LEMMA SettledStays ==
  \A from, to \in OrderState : Settled(from) => ~CanTransition(from, to)
BY DEF Settled, CanTransition, TRANSITIONS, TERMINAL_STATES, OrderState

\* Nothing is reported before the first sweep.
LEMMA InitIInv == Init => IInv
<1> SUFFICES ASSUME Init PROVE IInv
  OBVIOUS
<1>1. 0 \in 0 .. STUCK_AGE /\ 0 \in 0 .. MAX_REPORTS_PER_ORDER /\ 0 <= MAX_REPORTS_PER_ORDER
  BY SweeperAssumption
<1>2. TypeOK
  BY <1>1 DEF Init, TypeOK, OrderState
<1>3. CountsAreReports
  BY <1>1 DEF Init, CountsAreReports
<1> QED BY <1>2, <1>3 DEF IInv

\* An order that moves was in the pipeline before, and keeps its entry.
LEMMA MoveIInv ==
  ASSUME IInv, NEW o \in Orders, Move(o)
  PROVE  IInv'
<1>1. Live(o)
  BY SettledStays DEF Move, Live, IInv, TypeOK
<1>2. TypeOK'
  BY SweeperAssumption DEF IInv, TypeOK, Move
<1>3. CountsAreReports'
  BY <1>1 DEF IInv, TypeOK, Move, CountsAreReports, Live
<1> QED BY <1>2, <1>3 DEF IInv

\* A sweep adds to both counts or to none, and drops the entries of orders that
\* are no longer live.
LEMMA SweepIInv ==
  ASSUME IInv, Sweep
  PROVE  IInv'
<1>1. ASSUME NEW o \in Orders
      PROVE  /\ reportCounts'[o] \in 0 .. MAX_REPORTS_PER_ORDER
             /\ reports'[o] \in Nat
             /\ Live(o)' => reports'[o] = reportCounts'[o]
             /\ reports'[o] <= MAX_REPORTS_PER_ORDER
  <2>1. /\ reportCounts[o] \in 0 .. MAX_REPORTS_PER_ORDER
        /\ reports[o] \in Nat
        /\ Live(o)' <=> Live(o)
    BY DEF IInv, TypeOK, Sweep, Live
  <2>2. CASE Reported(o)
    BY <2>1, <2>2, SweeperAssumption DEF IInv, CountsAreReports, Sweep, Reported
  <2>3. CASE ~Reported(o)
    BY <2>1, <2>3, SweeperAssumption DEF IInv, CountsAreReports, Sweep
  <2> QED BY <2>2, <2>3
<1>2. TypeOK'
  BY <1>1 DEF IInv, TypeOK, Sweep
<1>3. CountsAreReports'
  BY <1>1 DEF CountsAreReports
<1> QED BY <1>2, <1>3 DEF IInv

\* The invariant is inductive.
LEMMA NextIInv == IInv /\ [Next]_vars => IInv'
<1> SUFFICES ASSUME IInv, [Next]_vars PROVE IInv'
  OBVIOUS
<1>1. ASSUME NEW o \in Orders, Move(o) PROVE IInv'
  BY <1>1, MoveIInv
<1>2. CASE Interval
  BY <1>2, SweeperAssumption DEF Interval, IInv, TypeOK, CountsAreReports, Live
<1>3. CASE Sweep
  BY <1>3, SweepIInv
<1>4. CASE UNCHANGED vars
  BY <1>4 DEF vars, IInv, TypeOK, CountsAreReports, Live
<1> QED BY <1>1, <1>2, <1>3, <1>4 DEF Next

\* "Up to three times per order": no order is reported more often than
\* MAX_REPORTS_PER_ORDER in its whole life.
THEOREM ReportsCorrect == Spec => [](TypeOK /\ ReportsCapped)
<1>1. IInv => TypeOK /\ ReportsCapped
  BY DEF IInv, CountsAreReports, ReportsCapped
<1> QED BY <1>1, InitIInv, NextIInv, PTL DEF Spec
=============================================================================
