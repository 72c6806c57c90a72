---------------------------- MODULE OrderTraffic ----------------------------
(***************************************************************************)
(* The intake of orders under the traffic of the simulation: createOrder   *)
(* (module OrderIntake) and the reads of the storefront share the          *)
(* connection pool (module DbPool), and OrderGeneratorService makes the    *)
(* calls and counts them.                                                  *)
(*                                                                         *)
(* A query is the request or the reader that makes it.  What OrderIntake   *)
(* calls a query that fails is here a waiter that expires or that a        *)
(* recycle rejects, and a query that ends returns rows of the repository   *)
(* as it is then; without rows it keeps its connection.                    *)
(***************************************************************************)
EXTENDS OrderIntake, Naturals, FiniteSets

CONSTANTS
  Readers,          \* reads of the storefront that may run at the same time
  Ticks,            \* ticks of the generator
  CallsOf,          \* the calls each makes at once: three with one key, or one
  Bursts,           \* orders of a blocked customer that a tick may add
  POOL_SIZE,
  MaxRecycles,
  MaxDays           \* midnights that pass

ASSUME TrafficAssumption ==
  /\ Readers \cap Requests = {}
  /\ CallsOf \in [Ticks -> SUBSET Requests]
  /\ \A s, t \in Ticks : s # t => CallsOf[s] \cap CallsOf[t] = {}
  /\ \A t \in Ticks : \A r \in CallsOf[t] : KeyOf[r] = NoKey => CallsOf[t] = { r }
  /\ Bursts \subseteq Nat /\ MaxDays \in Nat
  /\ POOL_SIZE \in Nat \ {0} /\ MaxRecycles \in Nat

VARIABLES
  free, waiters, checkedOut, inUse, running, generation,    \* DbPool
  ticked,           \* ticks that have begun
  counted,          \* ticks whose calls have all ended, and been counted or not
  today,            \* the UTC date
  counterDate,
  generatedToday,
  \* History, no variables of the code: since the last midnight,
  emitted,          \* orders that the ticks have emitted
  ofToday,          \* ticks that have begun
  late              \* ticks that have ended and had begun before it

Pool == INSTANCE DbPool WITH Queries <- Requests \cup Readers

poolVars == << free, waiters, checkedOut, inUse, running, generation >>
counterVars == << ticked, counted, today, counterDate, generatedToday, emitted,
                  ofToday, late >>
trafficVars == << vars, poolVars, counterVars >>

TrafficInit ==
  /\ Init
  /\ Pool!Init
  /\ ticked = {} /\ counted = {}
  /\ today = 0 /\ counterDate = 0
  /\ generatedToday = 0
  /\ emitted = 0 /\ ofToday = {} /\ late = {}

-----------------------------------------------------------------------------
(* Queries.                                                                *)

\* runQuery up to its first await.
Query(q) == Pool!Acquire(q) \/ Pool!Wait(q)

\* A call of the API, with its key: a retry, if another has the key.  (One without
\* a key awaits nothing; that of TickWithoutKey stands for them all.)
ApiCalls == Requests \ UNION { CallsOf[t] : t \in Ticks }

ApiCall(r) ==
  /\ \/ ClaimKey(r) /\ UNCHANGED poolVars
     \/ KeyTaken(r) /\ Query(r)
  /\ UNCHANGED counterVars

ClaimEnds(r) == ClaimPersisted(r) /\ Query(r) /\ UNCHANGED counterVars

\* runQuery after its last await: without rows it returns before the release.
QueryEnds(q, rows) == IF rows = {} THEN Pool!Leak(q) ELSE Pool!Release(q)

\* findByCustomer: the orders of the customer.
CheckEnds(r) ==
  /\ Reconciled(r)
  /\ QueryEnds(r, { s \in saved : CustomerOf[s] = CustomerOf[r] })
  /\ UNCHANGED counterVars

\* findById.  After a miss the call would go on to a check of its own, which is not
\* modelled: FetchesFind proves that the order is always found.
FetchEnds(r) ==
  /\ Fetched(r)
  /\ QueryEnds(r, { fetching[r] } \cap saved)
  /\ UNCHANGED counterVars

\* Mutant: the call fails and leaves its waiter in the queue.
CallTimesOutKept(r) ==
  /\ QueryFails(r)
  /\ \E i \in DOMAIN waiters : waiters[i] = r
  /\ UNCHANGED << poolVars, counterVars >>

CallTimesOut(r) == QueryFails(r) /\ Pool!ExpireWaiter(r) /\ UNCHANGED counterVars

Read(q) == Query(q) /\ UNCHANGED << vars, counterVars >>

\* A read of a dormant customer, of a stale order id or of a state that no order is
\* in has no rows, others have those of orders that were saved, whichever they are.
ReadEnds(q) ==
  /\ \E rows \in { {}, saved } : QueryEnds(q, rows)
  /\ UNCHANGED << vars, counterVars >>

ReadTimesOut(q) == Pool!ExpireWaiter(q) /\ UNCHANGED << vars, counterVars >>

ReapLeak(id) == Pool!Reap(id) /\ UNCHANGED << vars, counterVars >>

\* The recycle rejects every waiter, and with it the call that waits.
RecyclePool ==
  /\ Pool!Recycle
  /\ phase' = [r \in Requests |->
                 IF \E i \in DOMAIN waiters : waiters[i] = r THEN "failed" ELSE phase[r]]
  /\ UNCHANGED << keyToOrderId, saved, submitted, reported, fetching, answer, counterVars >>

-----------------------------------------------------------------------------
(* The generator.                                                          *)

\* Mutant: only the date is rolled.
RolledWithoutReset == generatedToday

\* rollCounterDate: the counter starts over on the first look at it of a date.
Rolled == IF counterDate = today THEN generatedToday ELSE 0

Count(n) ==
  /\ counterDate' = today
  /\ generatedToday' = Rolled + n

\* A tick begins: the burst of the blocked customer, which awaits nothing that
\* takes time, and the call or the calls, of one order.
Begin(t, burst) ==
  /\ t \notin ticked
  /\ ticked' = ticked \cup { t }
  /\ ofToday' = ofToday \cup { t }
  /\ emitted' = emitted + burst + 1
  /\ UNCHANGED << today, late, poolVars >>

TickWithoutKey(t, burst) ==
  /\ Begin(t, burst)
  /\ \E r \in CallsOf[t] : KeyOf[r] = NoKey /\ CreateWithoutKey(r)
  /\ counted' = counted \cup { t }
  /\ Count(burst + 1)

TickWithKey(t, burst) ==
  /\ Begin(t, burst)
  /\ \A r \in CallsOf[t] : KeyOf[r] # NoKey /\ keyToOrderId[KeyOf[r]] = None
  /\ phase' = [r \in Requests |-> IF r \in CallsOf[t] THEN "journaling" ELSE phase[r]]
  /\ Count(burst)
  /\ UNCHANGED << counted, keyToOrderId, saved, submitted, reported, fetching, answer >>

\* The storm counts one order whatever came of its calls, the baseline its order if
\* there is one.
Counts(t) == Cardinality(CallsOf[t]) > 1 \/ \A r \in CallsOf[t] : At(r, "answered")

\* The calls of a tick have all ended.  Nothing here looks at the date.
TickEnds(t) ==
  /\ t \in ticked \ counted
  /\ \A r \in CallsOf[t] : phase[r] \in { "answered", "failed" }
  /\ counted' = counted \cup { t }
  /\ generatedToday' = generatedToday + (IF Counts(t) THEN 1 ELSE 0)
  /\ late' = IF t \in ofToday THEN late ELSE late \cup { t }
  /\ UNCHANGED << ticked, today, counterDate, emitted, ofToday, vars, poolVars >>

\* ordersToday, for the metrics snapshot.
OrdersToday ==
  /\ counterDate # today
  /\ Count(0)
  /\ UNCHANGED << ticked, counted, today, emitted, ofToday, late, vars, poolVars >>

Midnight ==
  /\ today < MaxDays
  /\ today' = today + 1
  /\ emitted' = 0 /\ ofToday' = {} /\ late' = {}
  /\ UNCHANGED << ticked, counted, counterDate, generatedToday, vars, poolVars >>

-----------------------------------------------------------------------------

Step(r) == ClaimEnds(r) \/ CheckEnds(r) \/ FetchEnds(r)

TrafficNext ==
  \/ \E r \in ApiCalls : ApiCall(r)
  \/ \E r \in Requests : Step(r) \/ CallTimesOut(r)
  \/ \E q \in Readers : Read(q) \/ ReadEnds(q) \/ ReadTimesOut(q)
  \/ \E id \in Pool!Ids : ReapLeak(id)
  \/ \E t \in Ticks, burst \in Bursts : TickWithoutKey(t, burst) \/ TickWithKey(t, burst)
  \/ \E t \in Ticks : TickEnds(t)
  \/ RecyclePool \/ OrdersToday \/ Midnight

\* Journal writes and queries end, the timers of waiters expire and the leak
\* detection runs; nobody has to call, to read or to recycle.
TrafficFairness ==
  /\ \A r \in Requests : WF_trafficVars(Step(r)) /\ WF_trafficVars(CallTimesOut(r))
  /\ \A q \in Readers : WF_trafficVars(ReadEnds(q)) /\ WF_trafficVars(ReadTimesOut(q))
  /\ \A id \in Pool!Ids : WF_trafficVars(ReapLeak(id))

TrafficSpec == TrafficInit /\ [][TrafficNext]_trafficVars /\ TrafficFairness

-----------------------------------------------------------------------------
(* Properties, besides those of OrderIntake, which hold of this traffic.   *)

\* The pool of the system is a DbPool, its promises of progress included.
ImplementsPool == Pool!Spec

\* The queries of createOrder give their connections back, however they interleave
\* and whatever a recycle does meanwhile: each of them has rows, since an order is
\* saved before its check and before anyone can find its key.  Only reads leak.
CallsGiveBack ==
  [][ \A r \in Requests :
        r \in DOMAIN running \ DOMAIN running' =>
          \/ \E i \in DOMAIN free' : free'[i] = running[r]
          \/ \E q \in DOMAIN running' : running'[q] = running[r] ]_trafficVars

\* "Orders emitted since UTC midnight" is off by no more than the ticks that midnight
\* or the end of the call has come between, whichever of the tick, the end of its
\* calls and the snapshot comes first after midnight: too high by those that began
\* before midnight and ended after it, too low by those of today that have not ended
\* or whose order was rejected.
CounterErrsByTicks ==
  counterDate = today =>
    /\ generatedToday <= emitted + Cardinality(late)
    /\ emitted <= generatedToday + Cardinality({ t \in ofToday : t \in counted => ~Counts(t) })
=============================================================================
