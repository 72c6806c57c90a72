------------------------- MODULE OrderTraffic_proofs -------------------------
(***************************************************************************)
(* Proofs about OrderIntake, for any requests, customers and keys, and     *)
(* about OrderTraffic, for any traffic: its pool takes only steps of       *)
(* DbPool, so that what is proved of DbPool holds of it; what is proved of *)
(* the intake holds of it under the traffic; its calls give their          *)
(* connections back; the generator's counter of the day errs only by the   *)
(* ticks that midnight meets; and the orders that nobody runs are those    *)
(* whose own call has failed.                                              *)
(***************************************************************************)
EXTENDS OrderTraffic, Sequences, FiniteSetTheorems, TLAPS

-----------------------------------------------------------------------------
(* The intake.                                                             *)

\* A request that found its key taken asks for an order that is saved under
\* that key, and never waits to save one.
FetchingFits ==
  \A r \in Requests :
    fetching[r] # None =>
      /\ phase[r] \in { "fetching", "answered", "failed" }
      /\ fetching[r] \in saved /\ KeyOf[fetching[r]] = KeyOf[r]
      /\ r \notin saved
      /\ answer[r] \in { None, fetching[r] }

\* Only a request that is past its claim has saved an order, and one that waits
\* for its journal or its check has a key; nobody is answered early.
PhasesFit ==
  \A r \in Requests :
    /\ phase[r] \in { "journaling", "fetching", "reconciling" } => KeyOf[r] # NoKey
    /\ phase[r] \in { "new", "journaling" } => r \notin saved /\ fetching[r] = None
    /\ phase[r] = "fetching" => fetching[r] # None
    /\ phase[r] = "reconciling" => r \in saved
    /\ phase[r] # "answered" => answer[r] = None

\* A key once claimed keeps an order that is in the repository and has the key.
KeysPointToOrders ==
  \A k \in Keys : keyToOrderId[k] # None =>
    keyToOrderId[k] \in saved /\ KeyOf[keyToOrderId[k]] = k

IInv ==
  TypeOK /\ DuplicatesReported /\ KeysPointToOrders /\ FetchingFits /\ PhasesFit

USE KeysAssumption, NoKeyAssumption

LEMMA InitInvariant == Init => IInv
BY DEF Init, IInv, TypeOK, DuplicatesReported, KeysPointToOrders, FetchingFits,
       PhasesFit, Phase, None

LEMMA NextInvariant == IInv /\ [Next]_vars => IInv'
<1> SUFFICES ASSUME IInv, [Next]_vars PROVE IInv'
  OBVIOUS
<1> USE DEF IInv, TypeOK, DuplicatesReported, KeysPointToOrders, FetchingFits,
            PhasesFit, Phase, None, SameKey
<1>1. ASSUME NEW r \in Requests, CreateWithoutKey(r) PROVE IInv'
  BY <1>1 DEF CreateWithoutKey, At, Goto, Respond
<1>2. ASSUME NEW r \in Requests, ClaimKey(r) PROVE IInv'
  BY <1>2 DEF ClaimKey, At, Goto
<1>3. ASSUME NEW r \in Requests, KeyTaken(r) PROVE IInv'
  <2> DEFINE k == KeyOf[r]
             o == keyToOrderId[k]
  <2>1. k \in Keys /\ o # None /\ o \in saved /\ KeyOf[o] = k /\ o \in Requests
    BY <1>3 DEF KeyTaken
  <2>2. /\ phase[r] = "new" /\ r \notin saved /\ answer[r] = None
        /\ phase' = [phase EXCEPT ![r] = "fetching"]
        /\ fetching' = [fetching EXCEPT ![r] = o]
        /\ UNCHANGED << keyToOrderId, saved, submitted, reported, answer >>
    BY <1>3 DEF KeyTaken, At, Goto
  <2>3. FetchingFits' /\ PhasesFit' /\ TypeOK'
    BY <2>1, <2>2
  <2> QED
    BY <2>2, <2>3
<1>4. ASSUME NEW r \in Requests, ClaimPersisted(r) PROVE IInv'
  BY <1>4 DEF ClaimPersisted, At, Goto
<1>5. ASSUME NEW r \in Requests, Fetched(r) PROVE IInv'
  BY <1>5 DEF Fetched, At, Goto, Respond
<1>6. ASSUME NEW r \in Requests, Reconciled(r) PROVE IInv'
  BY <1>6 DEF Reconciled, Siblings, At, Goto, Respond
<1>7. ASSUME NEW r \in Requests, QueryFails(r) PROVE IInv'
  BY <1>7 DEF QueryFails, At, Goto
<1>8. CASE UNCHANGED vars
  BY <1>8 DEF vars
<1> QED
  BY <1>1, <1>2, <1>3, <1>4, <1>5, <1>6, <1>7, <1>8 DEF Next, Proceed

\* The inductive invariant holds in every state of every behaviour.
THEOREM Invariant == Spec => []IInv
BY InitInvariant, NextInvariant, PTL DEF Spec

\* The variables of the intake have their types.
THEOREM TypesCorrect == Spec => []TypeOK
<1>1. IInv => TypeOK
  BY DEF IInv
<1> QED
  BY <1>1, Invariant, PTL

\* Two orders of one customer and key are never both processed unreported.
THEOREM DuplicatesCorrect == Spec => []DuplicatesReported
<1>1. IInv => DuplicatesReported
  BY DEF IInv
<1> QED
  BY <1>1, Invariant, PTL

\* A retry that finds its key taken is answered with that key's order and adds
\* none of its own.
THEOREM RetriesCorrect == Spec => []RetriesCreateNothing
<1>1. IInv => RetriesCreateNothing
  BY DEF IInv, RetriesCreateNothing, FetchingFits
<1> QED
  BY <1>1, Invariant, PTL

-----------------------------------------------------------------------------
(* The pool.                                                               *)

Clients == Requests \cup Readers

LEMMA ClientSteps ==
  ASSUME NEW q \in Clients,
         \/ Query(q) \/ Pool!ExpireWaiter(q)
         \/ \E rows : QueryEnds(q, rows)
  PROVE  Pool!Next
BY DEF Query, QueryEnds, Clients, Pool!Next

\* A step of the system is for the pool one of its own.
LEMMA NextPool == [TrafficNext]_trafficVars => [Pool!Next]_poolVars
<1> SUFFICES ASSUME [TrafficNext]_trafficVars PROVE [Pool!Next]_poolVars
  OBVIOUS
<1>1. CASE UNCHANGED trafficVars
  BY <1>1 DEF trafficVars
<1>2. ASSUME NEW r \in ApiCalls, ApiCall(r) PROVE [Pool!Next]_poolVars
  BY <1>2, ClientSteps DEF ApiCall, ApiCalls, Clients
<1>3. ASSUME NEW r \in Requests, Step(r) \/ CallTimesOut(r) PROVE Pool!Next
  BY <1>3, ClientSteps DEF Step, ClaimEnds, CheckEnds, FetchEnds, CallTimesOut, Clients
<1>4. ASSUME NEW q \in Readers, Read(q) \/ ReadEnds(q) \/ ReadTimesOut(q) PROVE Pool!Next
  BY <1>4, ClientSteps DEF Read, ReadEnds, ReadTimesOut, Clients
<1>5. ASSUME NEW id \in Pool!Ids, ReapLeak(id) PROVE Pool!Next
  BY <1>5 DEF ReapLeak, Pool!Next
<1>6. ASSUME NEW t \in Ticks, NEW burst \in Bursts, TickWithoutKey(t, burst) \/ TickWithKey(t, burst)
      PROVE  UNCHANGED poolVars
  BY <1>6 DEF TickWithoutKey, TickWithKey, Begin
<1>7. ASSUME NEW t \in Ticks, TickEnds(t) PROVE UNCHANGED poolVars
  BY <1>7 DEF TickEnds
<1>8. CASE RecyclePool
  BY <1>8 DEF RecyclePool, Pool!Next
<1>9. CASE OrdersToday \/ Midnight
  BY <1>9 DEF OrdersToday, Midnight
<1> QED
  BY <1>1, <1>2, <1>3, <1>4, <1>5, <1>6, <1>7, <1>8, <1>9 DEF TrafficNext

-----------------------------------------------------------------------------
(* What is proved of DbPool, for the pool of the system.                   *)

PoolProofs == INSTANCE DbPool_proofs WITH Queries <- Requests \cup Readers

\* The two instances are of one module.
LEMMA SameInit == Pool!Init => PoolProofs!Init
BY DEF Pool!Init, PoolProofs!Init, Pool!FreshPool, PoolProofs!FreshPool, Pool!Ids, PoolProofs!Ids

LEMMA SameNext ==
  ASSUME [Pool!Next]_poolVars
  PROVE  [PoolProofs!Next]_(PoolProofs!vars)
<1> USE DEF Pool!Put, PoolProofs!Put, Pool!Delete, PoolProofs!Delete
<1>1. CASE UNCHANGED poolVars
  BY <1>1 DEF poolVars, PoolProofs!vars
<1>2. ASSUME NEW q \in Clients, Pool!Acquire(q) PROVE PoolProofs!Acquire(q)
  BY <1>2 DEF Pool!Acquire, PoolProofs!Acquire, Pool!Idle, PoolProofs!Idle,
              Pool!Contains, PoolProofs!Contains, Pool!Last, PoolProofs!Last,
              Pool!Front, PoolProofs!Front
<1>3. ASSUME NEW q \in Clients, Pool!Wait(q) PROVE PoolProofs!Wait(q)
  BY <1>3 DEF Pool!Wait, PoolProofs!Wait, Pool!Idle, PoolProofs!Idle,
              Pool!Contains, PoolProofs!Contains
<1>4. ASSUME NEW q \in Clients, Pool!ExpireWaiter(q) PROVE PoolProofs!ExpireWaiter(q)
  BY <1>4 DEF Pool!ExpireWaiter, PoolProofs!ExpireWaiter, Pool!RemoveAt, PoolProofs!RemoveAt
<1>5. ASSUME NEW q \in Clients, Pool!Release(q) PROVE PoolProofs!Release(q)
  BY <1>5 DEF Pool!Release, PoolProofs!Release
<1>6. ASSUME NEW q \in Clients, Pool!Leak(q) PROVE PoolProofs!Leak(q)
  BY <1>6 DEF Pool!Leak, PoolProofs!Leak
<1>7. ASSUME NEW id \in Pool!Ids, Pool!Reap(id) PROVE id \in PoolProofs!Ids /\ PoolProofs!Reap(id)
  BY <1>7 DEF Pool!Reap, PoolProofs!Reap, Pool!Leaked, PoolProofs!Leaked, Pool!Ids, PoolProofs!Ids
<1>8. ASSUME Pool!Recycle PROVE PoolProofs!Recycle
  BY <1>8 DEF Pool!Recycle, PoolProofs!Recycle, Pool!FreshPool, PoolProofs!FreshPool,
              Pool!Ids, PoolProofs!Ids
<1> HIDE DEF Pool!Put, PoolProofs!Put, Pool!Delete, PoolProofs!Delete
<1>9. CASE \E q \in Clients : \/ Pool!Acquire(q) \/ Pool!Wait(q) \/ Pool!ExpireWaiter(q)
                              \/ Pool!Release(q) \/ Pool!Leak(q)
  BY <1>2, <1>3, <1>4, <1>5, <1>6, <1>9 DEF PoolProofs!Next, Clients
<1>10. CASE \E id \in Pool!Ids : Pool!Reap(id)
  BY <1>7, <1>10 DEF PoolProofs!Next
<1>11. CASE Pool!Recycle
  BY <1>8, <1>11 DEF PoolProofs!Next
<1> QED
  BY <1>1, <1>9, <1>10, <1>11 DEF Pool!Next, Clients

LEMMA PoolAssumed == PoolProofs!PoolAssumption
BY TrafficAssumption DEF PoolProofs!PoolAssumption

LEMMA InitPool == TrafficInit => PoolProofs!IInv
BY PoolAssumed, SameInit, PoolProofs!InitInvariant DEF TrafficInit

LEMMA StepPool == PoolProofs!IInv /\ [TrafficNext]_trafficVars => PoolProofs!IInv'
BY PoolAssumed, NextPool, SameNext, PoolProofs!NextInvariant

\* Whatever createOrder, the readers, the reaper and an operator do to the pool, no
\* connection is in two hands and nobody waits beside a free one.
THEOREM HoldersCorrect == TrafficSpec => [](Pool!OneHolder /\ Pool!NoNeedlessWait)
<1>1. PoolProofs!IInv => Pool!OneHolder /\ Pool!NoNeedlessWait
  BY DEF PoolProofs!IInv, PoolProofs!OneHolder, Pool!OneHolder, PoolProofs!NoNeedlessWait,
         Pool!NoNeedlessWait, Pool!Contains, PoolProofs!Contains
<1> QED
  BY <1>1, InitPool, StepPool, PTL DEF TrafficSpec

-----------------------------------------------------------------------------
(* The intake under the traffic.                                           *)

Waiting == { waiters[i] : i \in DOMAIN waiters }

\* A call that waits for a connection has begun and has not ended: the recycle
\* that rejects it fails a call that is there to fail.
WaitingFits == \A r \in Requests \cap Waiting : phase[r] \in { "fetching", "reconciling" }

\* The calls of a tick that has not begun have not been made.
TicksFit == \A t \in Ticks \ ticked : \A r \in CallsOf[t] : phase[r] = "new"

TrafficInv == IInv /\ PoolProofs!IInv /\ WaitingFits /\ TicksFit

\* What a step is for the intake: one of its own, or one of many calls at once.
LEMMA NextIntake ==
  ASSUME [TrafficNext]_trafficVars
  PROVE  \/ [Next]_vars
         \/ \E t \in Ticks, burst \in Bursts : TickWithKey(t, burst)
         \/ RecyclePool
<1>1. CASE UNCHANGED trafficVars
  BY <1>1 DEF trafficVars
<1>2. ASSUME NEW r \in ApiCalls, ApiCall(r) PROVE Next
  BY <1>2 DEF ApiCall, ApiCalls, Next
<1>3. ASSUME NEW r \in Requests, Step(r) \/ CallTimesOut(r) PROVE Next
  BY <1>3 DEF Step, ClaimEnds, CheckEnds, FetchEnds, CallTimesOut, Next, Proceed
<1>4. ASSUME NEW q \in Readers, Read(q) \/ ReadEnds(q) \/ ReadTimesOut(q) PROVE UNCHANGED vars
  BY <1>4 DEF Read, ReadEnds, ReadTimesOut
<1>5. ASSUME NEW id \in Pool!Ids, ReapLeak(id) PROVE UNCHANGED vars
  BY <1>5 DEF ReapLeak
<1>6. ASSUME NEW t \in Ticks, NEW burst \in Bursts, TickWithoutKey(t, burst) PROVE Next
  <2>1. PICK r \in CallsOf[t] : CreateWithoutKey(r)
    BY <1>6 DEF TickWithoutKey
  <2> QED
    BY <2>1, TrafficAssumption DEF Next
<1>7. ASSUME NEW t \in Ticks, TickEnds(t) PROVE UNCHANGED vars
  BY <1>7 DEF TickEnds
<1>8. CASE OrdersToday \/ Midnight
  BY <1>8 DEF OrdersToday, Midnight
<1> QED
  BY <1>1, <1>2, <1>3, <1>4, <1>5, <1>6, <1>7, <1>8 DEF TrafficNext

LEMMA TrafficKeepsIntake ==
  ASSUME IInv, WaitingFits, TicksFit, [TrafficNext]_trafficVars
  PROVE  IInv'
<1> USE DEF IInv, TypeOK, DuplicatesReported, KeysPointToOrders, FetchingFits,
            PhasesFit, Phase, None, SameKey
<1>1. ASSUME NEW t \in Ticks, NEW burst \in Bursts, TickWithKey(t, burst) PROVE IInv'
  <2>1. /\ phase' = [r \in Requests |-> IF r \in CallsOf[t] THEN "journaling" ELSE phase[r]]
        /\ UNCHANGED << keyToOrderId, saved, submitted, reported, fetching, answer >>
    BY <1>1 DEF TickWithKey
  <2>2. \A r \in CallsOf[t] : KeyOf[r] # NoKey /\ phase[r] = "new" /\ r \in Requests
    BY <1>1, TrafficAssumption DEF TickWithKey, Begin, TicksFit
  <2> QED
    BY <2>1, <2>2
<1>2. CASE RecyclePool
  <2>1. /\ phase' = [r \in Requests |-> IF r \in Waiting THEN "failed" ELSE phase[r]]
        /\ UNCHANGED << keyToOrderId, saved, submitted, reported, fetching, answer >>
    BY <1>2 DEF RecyclePool, Waiting
  <2>2. \A r \in Requests \cap Waiting : phase[r] \in { "fetching", "reconciling" }
    BY DEF WaitingFits
  <2> HIDE DEF Waiting
  <2> QED
    BY <2>1, <2>2
<1> QED
  BY <1>1, <1>2, NextIntake, NextInvariant

\* What the steps of the pool do to the set of those who wait.
LEMMA WaitingChange ==
  ASSUME PoolProofs!IInv
  PROVE  /\ \A q \in Clients : Query(q) => Waiting' \subseteq Waiting \cup { q }
         /\ \A q \in Clients : Pool!Release(q) \/ Pool!ExpireWaiter(q) => Waiting' \subseteq Waiting \ { q }
         /\ \A q \in Clients : Pool!Leak(q) => Waiting' \subseteq Waiting \ { q }
         /\ \A id \in Pool!Ids : Pool!Reap(id) => Waiting' \subseteq Waiting
         /\ Pool!Recycle => Waiting' = {}
<1>1. /\ waiters \in Seq(Clients)
      /\ \A i \in DOMAIN waiters : waiters[i] \notin DOMAIN running
      /\ \A i, j \in DOMAIN waiters : waiters[i] = waiters[j] => i = j
  BY DEF PoolProofs!IInv, PoolProofs!TypeOK, PoolProofs!WaitersFit, Clients
<1>2. Len(waiters) \in Nat /\ DOMAIN waiters = 1 .. Len(waiters)
  BY <1>1
<1>3. ASSUME waiters # << >>, waiters' = Tail(waiters) PROVE Waiting' \subseteq Waiting
  <2>1. /\ DOMAIN waiters' = 1 .. Len(waiters) - 1
        /\ \A i \in 1 .. Len(waiters) - 1 : waiters'[i] = waiters[i + 1]
    BY <1>1, <1>3
  <2> QED
    BY <1>2, <2>1 DEF Waiting
<1>4. ASSUME NEW q \in Clients, Query(q) PROVE Waiting' \subseteq Waiting \cup { q }
  <2>1. CASE waiters' = waiters
    BY <2>1 DEF Waiting
  <2>2. CASE waiters' = Append(waiters, q)
    <3>1. /\ DOMAIN waiters' = 1 .. Len(waiters) + 1
          /\ waiters'[Len(waiters) + 1] = q
          /\ \A i \in 1 .. Len(waiters) : waiters'[i] = waiters[i]
      BY <1>1, <2>2
    <3> QED
      BY <1>2, <3>1 DEF Waiting
  <2> QED
    BY <1>4, <2>1, <2>2 DEF Query, Pool!Acquire, Pool!Wait
<1>5. ASSUME NEW q \in Clients, Pool!Release(q) PROVE Waiting' \subseteq Waiting \ { q }
  <2>1. q \in DOMAIN running
    BY <1>5 DEF Pool!Release
  <2>2. q \notin Waiting
    BY <1>1, <2>1 DEF Waiting
  <2>3. waiters' = waiters \/ (waiters # << >> /\ waiters' = Tail(waiters))
    BY <1>5 DEF Pool!Release
  <2>4. waiters' = waiters => Waiting' = Waiting
    BY DEF Waiting
  <2> QED
    BY <1>3, <2>2, <2>3, <2>4
<1>6. ASSUME NEW q \in Clients, Pool!ExpireWaiter(q) PROVE Waiting' \subseteq Waiting \ { q }
  <2>1. PICK i \in DOMAIN waiters : waiters[i] = q /\ waiters' = Pool!RemoveAt(waiters, i)
    BY <1>6 DEF Pool!ExpireWaiter
  <2>2. waiters' = PoolProofs!RemoveAt(waiters, i)
    BY <2>1 DEF Pool!RemoveAt, PoolProofs!RemoveAt
  <2>3. /\ DOMAIN waiters' = 1 .. Len(waiters) - 1
        /\ \A j \in 1 .. Len(waiters) - 1 : waiters'[j] = waiters[IF j < i THEN j ELSE j + 1]
    BY <1>1, <2>2, PoolAssumed, PoolProofs!RemoveAtFacts
  <2>4. i \in 1 .. Len(waiters) /\ i \in Nat
    BY <1>2
  <2>5. ASSUME NEW j \in DOMAIN waiters' PROVE waiters'[j] \in Waiting \ { q }
    <3> DEFINE k == IF j < i THEN j ELSE j + 1
    <3>1. k \in DOMAIN waiters /\ k # i
      BY <1>2, <2>3, <2>4
    <3>2. waiters'[j] = waiters[k]
      BY <2>3
    <3> HIDE DEF k
    <3> QED
      BY <1>1, <2>1, <3>1, <3>2 DEF Waiting
  <2> QED
    BY <2>5 DEF Waiting
<1>7. ASSUME NEW q \in Clients, Pool!Leak(q) PROVE Waiting' \subseteq Waiting \ { q }
  BY <1>1, <1>7 DEF Pool!Leak, Waiting
<1>8. ASSUME NEW id \in Pool!Ids, Pool!Reap(id) PROVE Waiting' \subseteq Waiting
  <2>1. waiters' = waiters => Waiting' = Waiting
    BY DEF Waiting
  <2> QED
    BY <1>3, <1>8, <2>1 DEF Pool!Reap
<1>9. ASSUME Pool!Recycle PROVE Waiting' = {}
  BY <1>9 DEF Pool!Recycle, Waiting
<1> QED
  BY <1>4, <1>5, <1>6, <1>7, <1>8, <1>9

\* A step of one call that is, or gets, between its queries and its end.
LEMMA OneCallMoves ==
  ASSUME TypeOK, WaitingFits, TicksFit, NEW r \in Requests, NEW p,
         phase' = [phase EXCEPT ![r] = p], ticked' = ticked,
         phase[r] # "new" \/ r \in ApiCalls,
         \/ Waiting' \subseteq Waiting \ { r }
         \/ Waiting' \subseteq Waiting \cup { r } /\ p \in { "fetching", "reconciling" }
  PROVE  WaitingFits' /\ TicksFit'
<1>1. \A s \in Requests : phase'[s] = IF s = r THEN p ELSE phase[s]
  BY DEF TypeOK
<1>2. WaitingFits'
  BY <1>1 DEF WaitingFits
<1>3. \A t \in Ticks \ ticked : r \notin CallsOf[t]
  BY DEF TicksFit, ApiCalls
<1>4. TicksFit'
  BY <1>1, <1>3, TrafficAssumption DEF TicksFit
<1> QED
  BY <1>2, <1>4

\* A step of the readers, the reaper or the generator's clock.
LEMMA NoCallMoves ==
  ASSUME WaitingFits, TicksFit, UNCHANGED << phase, ticked >>,
         \E q \in Readers : Waiting' \subseteq Waiting \cup { q }
  PROVE  WaitingFits' /\ TicksFit'
BY TrafficAssumption DEF WaitingFits, TicksFit

LEMMA TrafficKeepsWaits ==
  ASSUME IInv, PoolProofs!IInv, WaitingFits, TicksFit, [TrafficNext]_trafficVars
  PROVE  WaitingFits' /\ TicksFit'
<1> USE WaitingChange
<1>0. TypeOK
  BY DEF IInv
<1>1. ASSUME UNCHANGED << phase, ticked >>, Waiting' \subseteq Waiting
      PROVE  WaitingFits' /\ TicksFit'
  BY <1>1 DEF WaitingFits, TicksFit
<1>2. ASSUME UNCHANGED poolVars PROVE Waiting' = Waiting
  BY <1>2 DEF poolVars, Waiting
<1>3. CASE UNCHANGED trafficVars
  BY <1>1, <1>2, <1>3 DEF trafficVars, vars, counterVars
<1>4. ASSUME NEW r \in ApiCalls, ApiCall(r) PROVE WaitingFits' /\ TicksFit'
  <2>1. r \in Requests /\ r \in Clients
    BY DEF ApiCalls, Clients
  <2>2. ticked' = ticked
    BY <1>4 DEF ApiCall, counterVars
  <2>3. CASE ClaimKey(r) /\ UNCHANGED poolVars
    <3>1. phase[r] = "new" /\ phase' = [phase EXCEPT ![r] = "journaling"]
      BY <2>3 DEF ClaimKey, At, Goto
    <3>2. Waiting' \subseteq Waiting \ { r }
      BY <1>2, <2>1, <2>3, <3>1 DEF WaitingFits
    <3> QED
      BY <1>0, <2>1, <2>2, <3>1, <3>2, OneCallMoves
  <2>4. CASE KeyTaken(r) /\ Query(r)
    <3>1. phase' = [phase EXCEPT ![r] = "fetching"]
      BY <2>4 DEF KeyTaken, Goto
    <3>2. Waiting' \subseteq Waiting \cup { r }
      BY <2>1, <2>4
    <3> QED
      BY <1>0, <2>1, <2>2, <3>1, <3>2, OneCallMoves
  <2> QED
    BY <1>4, <2>3, <2>4 DEF ApiCall
<1>5. ASSUME NEW r \in Requests, ClaimEnds(r) PROVE WaitingFits' /\ TicksFit'
  <2>1. phase[r] = "journaling" /\ phase' = [phase EXCEPT ![r] = "reconciling"] /\ ticked' = ticked
    BY <1>5 DEF ClaimEnds, ClaimPersisted, At, Goto, counterVars
  <2>2. Waiting' \subseteq Waiting \cup { r }
    BY <1>5 DEF ClaimEnds, Clients
  <2> QED
    BY <1>0, <2>1, <2>2, OneCallMoves
<1>6. ASSUME NEW r \in Requests, CheckEnds(r) \/ FetchEnds(r) \/ CallTimesOut(r)
      PROVE  WaitingFits' /\ TicksFit'
  <2>1. /\ phase[r] \in { "fetching", "reconciling" } /\ ticked' = ticked
        /\ \E p \in { "answered", "failed", "reconciling" } : phase' = [phase EXCEPT ![r] = p]
    BY <1>6 DEF CheckEnds, FetchEnds, CallTimesOut, Reconciled, Fetched, QueryFails, At, Goto,
                Respond, counterVars
  <2>2. Waiting' \subseteq Waiting \ { r }
    BY <1>6 DEF CheckEnds, FetchEnds, QueryEnds, CallTimesOut, Clients
  <2> QED
    BY <1>0, <2>1, <2>2, OneCallMoves
<1>7. ASSUME NEW q \in Readers, Read(q) \/ ReadEnds(q) \/ ReadTimesOut(q)
      PROVE  WaitingFits' /\ TicksFit'
  <2>1. UNCHANGED << phase, ticked >>
    BY <1>7 DEF Read, ReadEnds, ReadTimesOut, vars, counterVars
  <2>2. Waiting' \subseteq Waiting \cup { q }
    BY <1>7 DEF Read, ReadEnds, QueryEnds, ReadTimesOut, Clients
  <2> QED
    BY <2>1, <2>2, NoCallMoves
<1>8. ASSUME NEW id \in Pool!Ids, ReapLeak(id) PROVE WaitingFits' /\ TicksFit'
  BY <1>1, <1>8 DEF ReapLeak, vars, counterVars
<1>9. ASSUME NEW t \in Ticks, NEW burst \in Bursts, TickWithoutKey(t, burst) \/ TickWithKey(t, burst)
      PROVE  WaitingFits' /\ TicksFit'
  <2>1. Waiting' = Waiting /\ ticked' = ticked \cup { t } /\ t \notin ticked
    BY <1>2, <1>9 DEF TickWithoutKey, TickWithKey, Begin
  <2>2. \A s \in Requests \ CallsOf[t] : phase'[s] = phase[s]
    BY <1>0, <1>9 DEF TickWithoutKey, TickWithKey, CreateWithoutKey, Respond, Goto, TypeOK
  <2>3. \A s \in CallsOf[t] : phase[s] = "new"
    BY <2>1 DEF TicksFit
  <2>4. WaitingFits'
    BY <2>1, <2>2, <2>3 DEF WaitingFits
  <2>5. \A u \in Ticks \ ticked' : CallsOf[u] \cap CallsOf[t] = {} /\ CallsOf[u] \subseteq Requests
    BY <2>1, TrafficAssumption
  <2>6. TicksFit'
    BY <2>1, <2>2, <2>5 DEF TicksFit
  <2> QED
    BY <2>4, <2>6
<1>10. ASSUME NEW t \in Ticks, TickEnds(t) PROVE WaitingFits' /\ TicksFit'
  BY <1>1, <1>2, <1>10 DEF TickEnds, vars
<1>11. CASE RecyclePool
  <2>1. ticked' = ticked /\ Waiting' = {}
    BY <1>11 DEF RecyclePool, counterVars
  <2>2. phase' = [r \in Requests |-> IF r \in Waiting THEN "failed" ELSE phase[r]]
    BY <1>11 DEF RecyclePool, Waiting
  <2>3. \A t \in Ticks \ ticked : \A r \in CallsOf[t] : r \in Requests /\ r \notin Waiting
    BY TrafficAssumption DEF TicksFit, WaitingFits
  <2> HIDE DEF Waiting
  <2> QED
    BY <2>1, <2>2, <2>3 DEF WaitingFits, TicksFit
<1>12. CASE OrdersToday \/ Midnight
  BY <1>1, <1>2, <1>12 DEF OrdersToday, Midnight, vars
<1> QED
  BY <1>3, <1>4, <1>5, <1>6, <1>7, <1>8, <1>9, <1>10, <1>11, <1>12 DEF TrafficNext, Step

LEMMA TrafficInvariant == TrafficSpec => []TrafficInv
<1>1. TrafficInit => TrafficInv
  <2>1. TrafficInit => IInv /\ PoolProofs!IInv
    BY InitInvariant, InitPool DEF TrafficInit
  <2>2. ASSUME TrafficInit PROVE WaitingFits /\ TicksFit
    <3>1. waiters = << >> /\ phase = [r \in Requests |-> "new"]
      BY <2>2 DEF TrafficInit, Pool!Init, Init
    <3> QED
      BY <3>1, TrafficAssumption DEF WaitingFits, Waiting, TicksFit
  <2> QED
    BY <2>1, <2>2 DEF TrafficInv
<1>2. TrafficInv /\ [TrafficNext]_trafficVars => TrafficInv'
  BY StepPool, TrafficKeepsIntake, TrafficKeepsWaits DEF TrafficInv
<1> QED
  BY <1>1, <1>2, PTL DEF TrafficSpec

\* The variables of the intake keep their types under the traffic.
THEOREM TypesUnderTraffic == TrafficSpec => []TypeOK
<1>1. TrafficInv => TypeOK
  BY DEF TrafficInv, IInv
<1> QED
  BY <1>1, TrafficInvariant, PTL

\* Storms, full pools, timeouts and recycles included, two orders of one customer and
\* key never both reach the pipeline unreported.
THEOREM DuplicatesUnderTraffic == TrafficSpec => []DuplicatesReported
<1>1. TrafficInv => DuplicatesReported
  BY DEF TrafficInv, IInv
<1> QED
  BY <1>1, TrafficInvariant, PTL

\* Nor does a retry that finds its key taken ever add an order of its own, or get
\* another key's order.
THEOREM RetriesUnderTraffic == TrafficSpec => []RetriesCreateNothing
<1>1. TrafficInv => RetriesCreateNothing
  BY DEF TrafficInv, IInv, RetriesCreateNothing, FetchingFits
<1> QED
  BY <1>1, TrafficInvariant, PTL

\* The order that a call asks for is in the repository when the answer comes: the
\* call never takes the branch after a miss, of which FetchEnds models no more than
\* the first step.
THEOREM FetchesFind ==
  TrafficSpec => [](\A r \in Requests : At(r, "fetching") => fetching[r] \in saved)
<1>1. TrafficInv => \A r \in Requests : At(r, "fetching") => fetching[r] \in saved
  BY DEF TrafficInv, IInv, FetchingFits, PhasesFit, At
<1> QED
  BY <1>1, TrafficInvariant, PTL

LEMMA ReleaseGivesBack ==
  ASSUME PoolProofs!IInv, NEW q, Pool!Release(q)
  PROVE  \/ \E i \in DOMAIN free' : free'[i] = running[q]
         \/ \E p \in DOMAIN running' : running'[p] = running[q]
<1>1. CASE waiters # << >>
  <2>1. running' = Pool!Put(Pool!Delete(running, q), Head(waiters), running[q])
    BY <1>1 DEF Pool!Release
  <2> QED
    BY <2>1 DEF Pool!Put
<1>2. CASE waiters = << >>
  <2>1. free \in Seq(PoolProofs!Connection) /\ running[q] \in PoolProofs!Connection
    BY PoolAssumed, PoolProofs!Types DEF PoolProofs!IInv, Pool!Release
  <2>2. free' = Append(free, running[q])
    BY <1>2 DEF Pool!Release
  <2>3. Len(free) + 1 \in DOMAIN free' /\ free'[Len(free) + 1] = running[q]
    BY <2>1, <2>2
  <2> QED
    BY <2>3
<1> QED
  BY <1>1, <1>2

\* The check of an order and the look-up of a taken key always have rows, so each
\* gives its connection back.  It takes the invariant of the intake to see it.
THEOREM CallsCorrect == TrafficSpec => CallsGiveBack
<1> DEFINE GivenBack(r) ==
             r \in DOMAIN running \ DOMAIN running' =>
               \/ \E i \in DOMAIN free' : free'[i] = running[r]
               \/ \E q \in DOMAIN running' : running'[q] = running[r]
<1>1. ASSUME TrafficInv, [TrafficNext]_trafficVars, NEW r \in Requests,
             r \in DOMAIN running, r \notin DOMAIN running'
      PROVE  Pool!Release(r)
  <2>1. ASSUME UNCHANGED poolVars PROVE FALSE
    BY <1>1, <2>1 DEF poolVars
  <2>2. ASSUME NEW q \in Clients, Query(q) \/ Pool!ExpireWaiter(q) PROVE FALSE
    BY <1>1, <2>2 DEF Query, Pool!Acquire, Pool!Wait, Pool!ExpireWaiter, Pool!Put
  <2>3. ASSUME NEW q \in Clients, NEW rows, QueryEnds(q, rows)
        PROVE  q = r /\ (rows # {} => Pool!Release(r))
    BY <1>1, <2>3 DEF QueryEnds, Pool!Leak, Pool!Release, Pool!Put, Pool!Delete
  <2>4. CASE UNCHANGED trafficVars
    BY <2>1, <2>4 DEF trafficVars
  <2>5. ASSUME NEW s \in ApiCalls, ApiCall(s) PROVE FALSE
    BY <2>1, <2>2, <2>5 DEF ApiCall, ApiCalls, Clients
  <2>6. ASSUME NEW s \in Requests, ClaimEnds(s) \/ CallTimesOut(s) PROVE FALSE
    BY <2>2, <2>6 DEF ClaimEnds, CallTimesOut, Clients
  <2>7. ASSUME NEW s \in Requests, CheckEnds(s) PROVE Pool!Release(r)
    <3>1. s \in saved
      BY <1>1, <2>7 DEF CheckEnds, Reconciled, At, TrafficInv, IInv, PhasesFit
    <3> QED
      BY <2>3, <2>7, <3>1 DEF CheckEnds, Clients
  <2>8. ASSUME NEW s \in Requests, FetchEnds(s) PROVE Pool!Release(r)
    <3>1. fetching[s] \in saved
      BY <1>1, <2>8 DEF FetchEnds, Fetched, At, TrafficInv, IInv, PhasesFit, FetchingFits
    <3> QED
      BY <2>3, <2>8, <3>1 DEF FetchEnds, Clients
  <2>9. ASSUME NEW q \in Readers, Read(q) \/ ReadEnds(q) \/ ReadTimesOut(q) PROVE FALSE
    BY <2>2, <2>3, <2>9, TrafficAssumption DEF Read, ReadEnds, ReadTimesOut, Clients
  <2>10. ASSUME NEW id \in Pool!Ids, ReapLeak(id) PROVE FALSE
    BY <1>1, <2>10 DEF ReapLeak, Pool!Reap, Pool!Put
  <2>11. ASSUME NEW t \in Ticks, NEW burst \in Bursts, TickWithoutKey(t, burst) \/ TickWithKey(t, burst)
         PROVE  FALSE
    BY <2>1, <2>11 DEF TickWithoutKey, TickWithKey, Begin
  <2>12. ASSUME NEW t \in Ticks, TickEnds(t) PROVE FALSE
    BY <2>1, <2>12 DEF TickEnds
  <2>13. CASE RecyclePool
    BY <1>1, <2>13 DEF RecyclePool, Pool!Recycle
  <2>14. CASE OrdersToday \/ Midnight
    BY <2>1, <2>14 DEF OrdersToday, Midnight
  <2> QED
    BY <1>1, <2>4, <2>5, <2>6, <2>7, <2>8, <2>9, <2>10, <2>11, <2>12, <2>13, <2>14
    DEF TrafficNext, Step
<1>2. TrafficInv /\ [TrafficNext]_trafficVars => [\A r \in Requests : GivenBack(r)]_trafficVars
  <2> SUFFICES ASSUME TrafficInv, [TrafficNext]_trafficVars, NEW r \in Requests,
                      r \in DOMAIN running \ DOMAIN running'
               PROVE  GivenBack(r)
    OBVIOUS
  <2>1. Pool!Release(r)
    BY <1>1
  <2> QED
    BY <2>1, ReleaseGivesBack DEF TrafficInv
<1> QED
  BY <1>2, TrafficInvariant, PTL DEF TrafficSpec, CallsGiveBack

-----------------------------------------------------------------------------
(* The counter.                                                            *)

\* The ticks of today whose order the counter does not have.
Missing == { t \in ofToday : t \in counted => ~Counts(t) }

\* Until somebody looks at the date of a new day, nothing has happened on it.  A
\* tick whose calls are out has its order to come: what the counter may still grow
\* by is counted in the first bound.
CounterFits ==
  /\ today \in Nat /\ counterDate \in Nat /\ generatedToday \in Nat /\ emitted \in Nat
  /\ counterDate <= today
  /\ counterDate # today => emitted = 0 /\ ofToday = {}
  /\ counterDate = today =>
       /\ generatedToday + Cardinality(ofToday \ counted) <= emitted + Cardinality(late)
       /\ emitted <= generatedToday + Cardinality(Missing)

\* The calls of a tick that has been counted have ended.
HistoryFits ==
  /\ IsFiniteSet(ticked) /\ ticked \subseteq Ticks
  /\ counted \subseteq ticked /\ ofToday \subseteq ticked /\ late \subseteq counted
  /\ \A t \in counted : \A r \in CallsOf[t] : phase[r] \in { "answered", "failed" }

LEMMA FiniteFacts ==
  ASSUME NEW U, IsFiniteSet(U)
  PROVE  /\ \A S \in SUBSET U : IsFiniteSet(S) /\ Cardinality(S) \in Nat
         /\ \A S, T \in SUBSET U : S \subseteq T => Cardinality(S) <= Cardinality(T)
         /\ \A S \in SUBSET U : \A t :
              t \notin S => Cardinality(S \cup { t }) = Cardinality(S) + 1
BY FS_Subset, FS_CardinalityType, FS_AddElement

\* Calls that have ended stay as they ended.
LEMMA EndsAreFinal ==
  ASSUME TrafficInv, [TrafficNext]_trafficVars, NEW r \in Requests,
         phase[r] \in { "answered", "failed" }
  PROVE  phase'[r] = phase[r]
<1>1. TypeOK /\ WaitingFits /\ TicksFit
  BY DEF TrafficInv, IInv
<1>2. CASE [Next]_vars
  BY <1>1, <1>2 DEF Next, Proceed, vars, CreateWithoutKey, ClaimKey, KeyTaken, ClaimPersisted,
                    Fetched, Reconciled, QueryFails, Respond, Goto, At, TypeOK
<1>3. ASSUME NEW t \in Ticks, NEW burst \in Bursts, TickWithKey(t, burst) PROVE phase'[r] = phase[r]
  BY <1>1, <1>3 DEF TickWithKey, Begin, TicksFit
<1>4. CASE RecyclePool
  <2>1. r \notin Waiting
    BY <1>1 DEF WaitingFits
  <2> QED
    BY <1>4, <2>1 DEF RecyclePool, Waiting
<1> QED
  BY <1>2, <1>3, <1>4, NextIntake

LEMMA CountsKept ==
  ASSUME TrafficInv, HistoryFits, [TrafficNext]_trafficVars, NEW t \in counted
  PROVE  /\ Counts(t)' <=> Counts(t)
         /\ \A r \in CallsOf[t] : phase'[r] \in { "answered", "failed" }
<1>1. \A r \in CallsOf[t] : r \in Requests /\ phase[r] \in { "answered", "failed" }
  BY TrafficAssumption DEF HistoryFits
<1>2. \A r \in CallsOf[t] : phase'[r] = phase[r]
  BY <1>1, EndsAreFinal
<1> QED
  BY <1>1, <1>2 DEF Counts, At

\* What a step does to the counter and to its history.
CounterStep ==
  \/ UNCHANGED counterVars
  \/ \E t \in Ticks, burst \in Bursts : TickWithoutKey(t, burst) \/ TickWithKey(t, burst)
  \/ \E t \in Ticks : TickEnds(t)
  \/ OrdersToday \/ Midnight

LEMMA NextCounterStep == [TrafficNext]_trafficVars => CounterStep
BY DEF TrafficNext, trafficVars, CounterStep, ApiCall, Step, ClaimEnds, CheckEnds, FetchEnds,
       CallTimesOut, Read, ReadEnds, ReadTimesOut, ReapLeak, RecyclePool

LEMMA NextHistory ==
  ASSUME TrafficInv, HistoryFits, [TrafficNext]_trafficVars
  PROVE  HistoryFits'
<1>1. \A t \in counted : \A r \in CallsOf[t] : phase'[r] \in { "answered", "failed" }
  BY CountsKept
<1>2. CASE UNCHANGED counterVars
  BY <1>1, <1>2 DEF HistoryFits, counterVars
<1>3. ASSUME NEW t \in Ticks, NEW burst \in Bursts, Begin(t, burst) PROVE IsFiniteSet(ticked')
  BY <1>3, FS_AddElement DEF Begin, HistoryFits
<1>4. ASSUME NEW t \in Ticks, NEW burst \in Bursts, TickWithoutKey(t, burst) PROVE HistoryFits'
  <2>1. PICK r \in CallsOf[t] : KeyOf[r] = NoKey /\ CreateWithoutKey(r)
    BY <1>4 DEF TickWithoutKey
  <2>2. CallsOf[t] = { r } /\ r \in Requests /\ phase'[r] = "answered"
    BY <2>1, TrafficAssumption DEF CreateWithoutKey, Respond, Goto, TrafficInv, IInv, TypeOK
  <2> QED
    BY <1>1, <1>3, <1>4, <2>2 DEF TickWithoutKey, Begin, HistoryFits
<1>5. ASSUME NEW t \in Ticks, NEW burst \in Bursts, TickWithKey(t, burst) PROVE HistoryFits'
  BY <1>1, <1>3, <1>5 DEF TickWithKey, Begin, HistoryFits
<1>6. ASSUME NEW t \in Ticks, TickEnds(t) PROVE HistoryFits'
  BY <1>1, <1>6 DEF TickEnds, vars, HistoryFits
<1>7. CASE OrdersToday \/ Midnight
  BY <1>1, <1>7 DEF OrdersToday, Midnight, HistoryFits
<1> QED
  BY <1>2, <1>4, <1>5, <1>6, <1>7, NextCounterStep DEF CounterStep

\* What a look at the date leaves of the two bounds.
LEMMA RolledFits ==
  ASSUME HistoryFits, CounterFits
  PROVE  /\ Rolled \in Nat
         /\ Rolled + Cardinality(ofToday \ counted) <= emitted + Cardinality(late)
         /\ emitted <= Rolled + Cardinality(Missing)
<1>1. Cardinality(late) \in Nat /\ Cardinality(Missing) \in Nat
  BY FiniteFacts DEF HistoryFits, Missing
<1>2. ofToday = {} => Cardinality(ofToday \ counted) = 0
  BY FS_EmptySet
<1> QED
  BY <1>1, <1>2 DEF CounterFits, Rolled

LEMMA NextCounter ==
  ASSUME TrafficInv, HistoryFits, CounterFits, [TrafficNext]_trafficVars
  PROVE  CounterFits'
<1> DEFINE Open == ofToday \ counted
<1>0. IsFiniteSet(ticked)
  BY DEF HistoryFits
<1>1. /\ Open \subseteq ticked /\ Missing \subseteq ticked /\ late \subseteq ticked
      /\ Cardinality(Open) \in Nat /\ Cardinality(Missing) \in Nat /\ Cardinality(late) \in Nat
  BY FiniteFacts DEF HistoryFits, Missing
<1>2. /\ Missing' \subseteq ticked'
      /\ \A S \in SUBSET ticked' : Cardinality(S) \in Nat
      /\ \A S, T \in SUBSET ticked' : S \subseteq T => Cardinality(S) <= Cardinality(T)
  <2>1. HistoryFits'
    BY NextHistory
  <2> QED
    BY <2>1, FiniteFacts DEF HistoryFits, Missing
<1>3. \A t \in counted : Counts(t)' <=> Counts(t)
  BY CountsKept
<1>4. CASE UNCHANGED counterVars
  <2>1. Missing' = Missing
    BY <1>3, <1>4 DEF Missing, counterVars
  <2> QED
    BY <1>4, <2>1 DEF CounterFits, counterVars
<1>5. ASSUME NEW t \in Ticks, NEW burst \in Bursts, TickWithoutKey(t, burst) PROVE CounterFits'
  <2>1. /\ t \notin ticked /\ ofToday' = ofToday \cup { t } /\ counted' = counted \cup { t }
        /\ ticked' = ticked \cup { t }
        /\ emitted' = emitted + burst + 1 /\ generatedToday' = Rolled + (burst + 1)
        /\ today' = today /\ counterDate' = today /\ late' = late
    BY <1>5 DEF TickWithoutKey, Begin, Count
  <2>2. Open' = Open
    BY <2>1 DEF HistoryFits
  <2>3. Missing \subseteq Missing'
    BY <1>3, <2>1 DEF Missing, HistoryFits
  <2>4. Cardinality(Missing) <= Cardinality(Missing') /\ Cardinality(Missing') \in Nat
    BY <1>1, <1>2, <2>1, <2>3
  <2>5. burst \in Nat
    BY TrafficAssumption
  <2>6. Cardinality(Open') = Cardinality(Open)
    BY <2>2
  <2> HIDE DEF Open
  <2> QED
    BY <1>1, <2>1, <2>4, <2>5, <2>6, RolledFits DEF CounterFits, Open
<1>6. ASSUME NEW t \in Ticks, NEW burst \in Bursts, TickWithKey(t, burst) PROVE CounterFits'
  <2>1. /\ t \notin ticked /\ ofToday' = ofToday \cup { t } /\ counted' = counted
        /\ ticked' = ticked \cup { t }
        /\ emitted' = emitted + burst + 1 /\ generatedToday' = Rolled + burst
        /\ today' = today /\ counterDate' = today /\ late' = late
    BY <1>6 DEF TickWithKey, Begin, Count
  <2>2. Open' = Open \cup { t } /\ t \notin Open
    BY <2>1 DEF HistoryFits
  <2>3. Missing \cup { t } \subseteq Missing' /\ t \notin Missing
    BY <1>3, <2>1 DEF Missing, HistoryFits
  <2>4. /\ Cardinality(Open') = Cardinality(Open) + 1
        /\ Cardinality(Missing \cup { t }) = Cardinality(Missing) + 1
    BY <1>0, <1>1, <2>2, <2>3, FiniteFacts
  <2>5. Cardinality(Missing) + 1 <= Cardinality(Missing') /\ Cardinality(Missing') \in Nat
    BY <1>1, <1>2, <2>1, <2>3, <2>4
  <2>6. burst \in Nat
    BY TrafficAssumption
  <2> HIDE DEF Open
  <2> QED
    BY <1>1, <2>1, <2>4, <2>5, <2>6, RolledFits DEF CounterFits, Open
<1>7. ASSUME NEW t \in Ticks, TickEnds(t) PROVE CounterFits'
  <2>1. /\ t \in ticked /\ t \notin counted /\ counted' = counted \cup { t }
        /\ generatedToday' = generatedToday + (IF Counts(t) THEN 1 ELSE 0)
        /\ late' = IF t \in ofToday THEN late ELSE late \cup { t }
        /\ UNCHANGED << ticked, today, counterDate, emitted, ofToday, phase >>
    BY <1>7 DEF TickEnds, vars
  <2>2. Counts(t)' <=> Counts(t)
    BY <2>1 DEF Counts, At
  <2>3. Cardinality(Open') + (IF Counts(t) THEN 1 ELSE 0) + Cardinality(late)
          <= Cardinality(Open) + Cardinality(late')
    <3>1. CASE t \in ofToday
      <4>1. Open = Open' \cup { t } /\ t \notin Open' /\ Open' \subseteq ticked
        BY <1>1, <2>1, <3>1
      <4>2. Cardinality(Open) = Cardinality(Open') + 1 /\ Cardinality(Open') \in Nat
        BY <1>0, <4>1, FiniteFacts
      <4> HIDE DEF Open
      <4> QED
        BY <1>1, <2>1, <3>1, <4>2
    <3>2. CASE t \notin ofToday
      <4>1. Open' = Open
        BY <2>1, <3>2
      <4>2. t \notin late
        BY <2>1 DEF HistoryFits
      <4>3. Cardinality(late') = Cardinality(late) + 1
        BY <1>0, <1>1, <2>1, <3>2, <4>2, FiniteFacts
      <4> HIDE DEF Open
      <4> QED
        BY <1>1, <4>1, <4>3
    <3> QED
      BY <3>1, <3>2
  <2>4. /\ Cardinality(Missing) <= Cardinality(Missing') + (IF Counts(t) THEN 1 ELSE 0)
        /\ Cardinality(Missing') \in Nat
    <3>1. Missing' \subseteq ticked
      BY <1>2, <2>1
    <3>2. CASE ~Counts(t)
      <4>1. Missing \subseteq Missing'
        BY <1>3, <2>1, <2>2, <3>2 DEF Missing
      <4> QED
        BY <1>0, <1>1, <3>1, <3>2, <4>1, FiniteFacts
    <3>3. CASE Counts(t)
      <4>1. Missing \subseteq Missing' \cup { t } /\ t \notin Missing'
        BY <1>3, <2>1, <2>2, <3>3 DEF Missing
      <4>2. Cardinality(Missing' \cup { t }) = Cardinality(Missing') + 1
        BY <1>0, <3>1, <4>1, FiniteFacts
      <4> QED
        BY <1>0, <1>1, <2>1, <3>1, <3>3, <4>1, <4>2, FiniteFacts
    <3> QED
      BY <3>2, <3>3
  <2>5. Cardinality(Open') \in Nat /\ Cardinality(late') \in Nat
    BY <1>0, <1>1, <2>1, FiniteFacts
  <2> HIDE DEF Open
  <2>6. CASE counterDate = today
    BY <1>1, <2>1, <2>3, <2>4, <2>5, <2>6 DEF CounterFits, Open
  <2>7. CASE counterDate # today
    BY <2>1, <2>7 DEF CounterFits
  <2> QED
    BY <2>6, <2>7
<1>8. CASE OrdersToday
  <2>1. Missing' = Missing
    BY <1>3, <1>8 DEF OrdersToday, Missing
  <2> QED
    BY <1>8, <2>1, RolledFits DEF OrdersToday, Count, CounterFits
<1>9. CASE Midnight
  BY <1>9 DEF Midnight, CounterFits
<1> QED
  BY <1>4, <1>5, <1>6, <1>7, <1>8, <1>9, NextCounterStep DEF CounterStep

\* Whatever passes midnight, the counter of the day is wrong by no more than the
\* ticks of the day before that ended on it and those of it that have not ended or
\* whose order was rejected.
THEOREM CounterCorrect == TrafficSpec => []CounterErrsByTicks
<1>1. TrafficInit => HistoryFits /\ CounterFits
  <2> SUFFICES ASSUME TrafficInit PROVE HistoryFits /\ CounterFits
    OBVIOUS
  <2>1. IsFiniteSet({}) /\ Cardinality({}) = 0
    BY FS_EmptySet
  <2>2. ofToday \ counted = {} /\ late = {} /\ Missing = {}
    BY DEF TrafficInit, Missing
  <2> QED
    BY <2>1, <2>2 DEF TrafficInit, HistoryFits, CounterFits
<1>2. TrafficInv /\ HistoryFits /\ CounterFits /\ [TrafficNext]_trafficVars
        => HistoryFits' /\ CounterFits'
  BY NextHistory, NextCounter
<1>3. HistoryFits /\ CounterFits => CounterErrsByTicks
  <2> SUFFICES ASSUME HistoryFits, CounterFits, counterDate = today
               PROVE  generatedToday <= emitted + Cardinality(late)
    BY DEF CounterErrsByTicks, CounterFits, Missing
  <2>1. Cardinality(ofToday \ counted) \in Nat /\ Cardinality(late) \in Nat
    BY FiniteFacts DEF HistoryFits
  <2> QED
    BY <2>1 DEF CounterFits
<1> QED
  BY <1>1, <1>2, <1>3, TrafficInvariant, PTL DEF TrafficSpec

-----------------------------------------------------------------------------
(* The orders that nobody runs.                                            *)

\* A saved order is in the pipeline, or its own call is in its check, or has failed
\* there; callers are answered with saved orders.
SavedRunOrFailed ==
  /\ \A o \in saved : o \in submitted \/ phase[o] \in { "reconciling", "failed" }
  /\ \A r \in Requests : answer[r] # None => answer[r] \in saved

LEMMA IntakeKeepsSaved ==
  ASSUME IInv, SavedRunOrFailed, [Next]_vars
  PROVE  SavedRunOrFailed'
<1> USE DEF IInv, TypeOK, FetchingFits, PhasesFit, Phase, None, SavedRunOrFailed, At, Goto
<1>1. ASSUME NEW r \in Requests, CreateWithoutKey(r) \/ ClaimKey(r) PROVE SavedRunOrFailed'
  BY <1>1 DEF CreateWithoutKey, ClaimKey, Respond
<1>2. ASSUME NEW r \in Requests, KeyTaken(r) PROVE SavedRunOrFailed'
  <2>1. /\ r \notin saved /\ phase' = [phase EXCEPT ![r] = "fetching"]
        /\ UNCHANGED << saved, submitted, answer >>
    BY <1>2 DEF KeyTaken
  <2> QED
    BY <2>1
<1>3. ASSUME NEW r \in Requests, ClaimPersisted(r) \/ Reconciled(r) PROVE SavedRunOrFailed'
  BY <1>3 DEF ClaimPersisted, Reconciled, Respond
<1>4. ASSUME NEW r \in Requests, Fetched(r) \/ QueryFails(r) PROVE SavedRunOrFailed'
  BY <1>4 DEF Fetched, QueryFails, Respond
<1>5. CASE UNCHANGED vars
  BY <1>5 DEF vars
<1> QED
  BY <1>1, <1>2, <1>3, <1>4, <1>5 DEF Next, Proceed

LEMMA TrafficKeepsSaved ==
  ASSUME TrafficInv, SavedRunOrFailed, [TrafficNext]_trafficVars
  PROVE  SavedRunOrFailed'
<1> USE DEF TrafficInv, IInv, TypeOK, FetchingFits, PhasesFit, None, SavedRunOrFailed
<1>1. ASSUME NEW t \in Ticks, NEW burst \in Bursts, TickWithKey(t, burst) PROVE SavedRunOrFailed'
  <2>1. /\ phase' = [r \in Requests |-> IF r \in CallsOf[t] THEN "journaling" ELSE phase[r]]
        /\ UNCHANGED << saved, submitted, answer >>
    BY <1>1 DEF TickWithKey
  <2>2. \A r \in CallsOf[t] : phase[r] = "new"
    BY <1>1 DEF TickWithKey, Begin, TicksFit
  <2> QED
    BY <2>1, <2>2
<1>2. CASE RecyclePool
  <2>1. /\ phase' = [r \in Requests |-> IF r \in Waiting THEN "failed" ELSE phase[r]]
        /\ UNCHANGED << saved, submitted, answer >>
    BY <1>2 DEF RecyclePool, Waiting
  <2> QED
    BY <2>1
<1> QED
  BY <1>1, <1>2, NextIntake, IntakeKeepsSaved

\* An order that callers are answered with and that is neither in the pipeline nor on
\* its way there is one whose own call failed in its check: nothing else leaves an
\* accepted order behind, neither the races of the claims nor the traffic.
THEOREM OrphansAreOfFailures ==
  TrafficSpec => [](\A r \in Requests : answer[r] # None =>
                      \/ answer[r] \in submitted
                      \/ phase[answer[r]] \in { "reconciling", "failed" })
<1>1. TrafficInit => SavedRunOrFailed
  BY DEF TrafficInit, Init, SavedRunOrFailed
<1>2. TrafficInv /\ SavedRunOrFailed /\ [TrafficNext]_trafficVars => SavedRunOrFailed'
  BY TrafficKeepsSaved
<1>3. SavedRunOrFailed => \A r \in Requests : answer[r] # None =>
                            \/ answer[r] \in submitted
                            \/ phase[answer[r]] \in { "reconciling", "failed" }
  BY DEF SavedRunOrFailed
<1> QED
  BY <1>1, <1>2, <1>3, TrafficInvariant, PTL DEF TrafficSpec
=============================================================================
