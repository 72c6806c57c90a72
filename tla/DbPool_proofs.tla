---------------------------- MODULE DbPool_proofs ----------------------------
(***************************************************************************)
(* Proofs about DbPool, for any number of queries, any size of the pool    *)
(* and any number of recycles.                                             *)
(***************************************************************************)
EXTENDS DbPool, FiniteSetTheorems, TLAPS

-----------------------------------------------------------------------------
(* The operations on the stack of free connections and the queue of        *)
(* waiters, element by element.                                            *)

LEMMA FrontFacts ==
  ASSUME NEW S, NEW s \in Seq(S), s # << >>
  PROVE  /\ Len(s) \in Nat /\ Len(s) >= 1
         /\ Last(s) = s[Len(s)] /\ Last(s) \in S
         /\ Front(s) \in Seq(S)
         /\ DOMAIN Front(s) = 1 .. Len(s) - 1
         /\ Len(Front(s)) = Len(s) - 1
         /\ \A i \in 1 .. Len(s) - 1 : Front(s)[i] = s[i]
<1>1. Len(s) \in Nat /\ Len(s) >= 1
  OBVIOUS
<1>2. s[Len(s)] \in S
  BY <1>1
<1>3. PICK n \in Nat : n = Len(s) - 1 /\ n <= Len(s)
  BY <1>1
<1>4. /\ SubSeq(s, 1, n) \in Seq(S)
      /\ Len(SubSeq(s, 1, n)) = n
      /\ \A i \in 1 .. n : SubSeq(s, 1, n)[i] = s[i]
  BY <1>1, <1>3
<1> QED
  BY <1>1, <1>2, <1>3, <1>4 DEF Last, Front

LEMMA TailFacts ==
  ASSUME NEW S, NEW s \in Seq(S), s # << >>
  PROVE  /\ Len(s) \in Nat /\ Len(s) >= 1
         /\ Head(s) = s[1] /\ Head(s) \in S
         /\ Tail(s) \in Seq(S)
         /\ DOMAIN Tail(s) = 1 .. Len(s) - 1
         /\ \A i \in 1 .. Len(s) - 1 : Tail(s)[i] = s[i + 1]
OBVIOUS

LEMMA AppendFacts ==
  ASSUME NEW S, NEW s \in Seq(S), NEW e \in S
  PROVE  /\ Len(s) \in Nat
         /\ Append(s, e) \in Seq(S)
         /\ DOMAIN Append(s, e) = 1 .. Len(s) + 1
         /\ Len(Append(s, e)) = Len(s) + 1
         /\ Append(s, e)[Len(s) + 1] = e
         /\ \A i \in 1 .. Len(s) : Append(s, e)[i] = s[i]
         /\ Append(s, e) # << >>
OBVIOUS

LEMMA RemoveAtFacts ==
  ASSUME NEW S, NEW s \in Seq(S), NEW k \in DOMAIN s
  PROVE  /\ Len(s) \in Nat /\ k \in 1 .. Len(s)
         /\ RemoveAt(s, k) \in Seq(S)
         /\ DOMAIN RemoveAt(s, k) = 1 .. Len(s) - 1
         /\ \A i \in 1 .. Len(s) - 1 : RemoveAt(s, k)[i] = s[IF i < k THEN i ELSE i + 1]
<1> DEFINE a == SubSeq(s, 1, k - 1)
           b == SubSeq(s, k + 1, Len(s))
<1>1. Len(s) \in Nat /\ k \in 1 .. Len(s)
  OBVIOUS
<1>2. a \in Seq(S) /\ Len(a) = k - 1 /\ \A i \in 1 .. k - 1 : a[i] = s[i]
  BY <1>1
<1>3. b \in Seq(S) /\ Len(b) = Len(s) - k /\ \A i \in 1 .. Len(s) - k : b[i] = s[i + k]
  BY <1>1
<1>4. RemoveAt(s, k) = a \o b
  BY DEF RemoveAt
<1> HIDE DEF a, b
<1>5. a \o b \in Seq(S) /\ Len(a \o b) = Len(s) - 1
  BY <1>1, <1>2, <1>3
<1>6. ASSUME NEW i \in 1 .. Len(s) - 1 PROVE (a \o b)[i] = s[IF i < k THEN i ELSE i + 1]
  <2>1. CASE i < k
    BY <1>1, <1>2, <1>3, <2>1
  <2>2. CASE ~(i < k)
    <3>1. (a \o b)[i] = b[i - Len(a)]
      BY <1>1, <1>2, <1>3, <2>2
    <3> QED
      BY <1>1, <1>2, <1>3, <2>2, <3>1
  <2> QED
    BY <2>1, <2>2
<1> QED
  BY <1>1, <1>4, <1>5, <1>6

LEMMA FreshFacts ==
  ASSUME NEW g \in 0 .. MaxRecycles
  PROVE  /\ FreshPool(g) \in Seq(Connection)
         /\ Len(FreshPool(g)) = POOL_SIZE
         /\ DOMAIN FreshPool(g) = Ids
         /\ \A i \in Ids : FreshPool(g)[i] = [id |-> i, generation |-> g]
BY PoolAssumption DEF FreshPool, Ids, Connection

-----------------------------------------------------------------------------
(* The invariant.                                                          *)

\* No connection is newer than the pool, and none is free and checked out.
ConnectionsFit ==
  /\ \A i \in DOMAIN free : free[i].generation <= generation
  /\ \A q \in DOMAIN running : running[q].generation <= generation
  /\ \A id \in DOMAIN checkedOut :
       /\ checkedOut[id].id = id
       /\ checkedOut[id].generation <= generation
       /\ \A i \in DOMAIN free : free[i] # checkedOut[id]

\* A query waits once, and not while it runs.
WaitersFit ==
  /\ \A i \in DOMAIN waiters : waiters[i] \notin DOMAIN running
  /\ \A i, j \in DOMAIN waiters : waiters[i] = waiters[j] => i = j

IInv == TypeOK /\ OneHolder /\ NoNeedlessWait /\ ConnectionsFit /\ WaitersFit

\* The types, as the provers use them.
LEMMA Types ==
  ASSUME TypeOK
  PROVE  /\ free \in Seq(Connection) /\ Len(free) \in Nat /\ DOMAIN free = 1 .. Len(free)
         /\ \A i \in DOMAIN free : free[i] \in Connection
         /\ waiters \in Seq(Queries) /\ Len(waiters) \in Nat /\ DOMAIN waiters = 1 .. Len(waiters)
         /\ \A id \in DOMAIN checkedOut : id \in Ids /\ checkedOut[id] \in Connection
         /\ \A q \in DOMAIN running : q \in Queries /\ running[q] \in Connection
BY DEF TypeOK, Range

LEMMA InitInvariant == Init => IInv
<1> SUFFICES ASSUME Init PROVE IInv
  OBVIOUS
<1>1. /\ free = FreshPool(0) /\ waiters = << >> /\ checkedOut = << >> /\ running = << >>
      /\ inUse = 0 /\ generation = 0
  BY DEF Init
<1>2. 0 \in 0 .. MaxRecycles
  BY PoolAssumption
<1>3. /\ free \in Seq(Connection) /\ DOMAIN free = Ids
      /\ \A i \in Ids : free[i] = [id |-> i, generation |-> 0]
  BY <1>1, <1>2, FreshFacts
<1>4. DOMAIN checkedOut = {} /\ DOMAIN running = {} /\ DOMAIN waiters = {}
  BY <1>1
<1>5. TypeOK
  BY <1>1, <1>2, <1>3, <1>4 DEF TypeOK, Range
<1>6. OneHolder
  BY <1>3, <1>4 DEF OneHolder
<1>7. NoNeedlessWait
  BY <1>1 DEF NoNeedlessWait
<1>8. ConnectionsFit
  <2>1. \A i \in DOMAIN free : free[i].generation = 0
    BY <1>3
  <2> QED
    BY <1>1, <1>4, <2>1 DEF ConnectionsFit
<1>9. WaitersFit
  BY <1>4 DEF WaitersFit
<1> QED
  BY <1>5, <1>6, <1>7, <1>8, <1>9 DEF IInv

-----------------------------------------------------------------------------
(* One lemma per action.                                                   *)

LEMMA AcquireInvariant == ASSUME IInv, NEW q \in Queries, Acquire(q) PROVE IInv'
<1> DEFINE conn == Last(free)
           n == Len(free)
<1>1. /\ TypeOK /\ OneHolder /\ NoNeedlessWait /\ ConnectionsFit /\ WaitersFit
      /\ free # << >> /\ q \notin DOMAIN running
      /\ free' = Front(free) /\ inUse' = inUse + 1
      /\ checkedOut' = Put(checkedOut, conn.id, conn) /\ running' = Put(running, q, conn)
      /\ waiters' = waiters /\ generation' = generation
  BY DEF IInv, Acquire, Idle
<1>2. /\ n \in Nat /\ n >= 1 /\ DOMAIN free = 1 .. n
      /\ conn = free[n] /\ conn \in Connection /\ conn.id \in Ids /\ conn.generation <= generation
      /\ free' \in Seq(Connection) /\ DOMAIN free' = 1 .. n - 1
      /\ \A i \in 1 .. n - 1 : free'[i] = free[i]
  <2>1. /\ free \in Seq(Connection) /\ DOMAIN free = 1 .. n
    BY <1>1, Types
  <2>2. /\ n \in Nat /\ n >= 1 /\ conn = free[n] /\ conn \in Connection
        /\ free' \in Seq(Connection) /\ DOMAIN free' = 1 .. n - 1
        /\ \A i \in 1 .. n - 1 : free'[i] = free[i]
    BY <1>1, <2>1, FrontFacts
  <2>3. conn.id \in Ids
    BY <2>2 DEF Connection
  <2>4. conn.generation <= generation
    BY <1>1, <2>1, <2>2 DEF ConnectionsFit
  <2> QED
    BY <2>1, <2>2, <2>3, <2>4
<1> HIDE DEF conn, n
<1>3. /\ DOMAIN checkedOut' = DOMAIN checkedOut \cup { conn.id }
      /\ checkedOut'[conn.id] = conn
      /\ \A id \in DOMAIN checkedOut \ { conn.id } : checkedOut'[id] = checkedOut[id]
  BY <1>1 DEF Put
<1>4. /\ DOMAIN running' = DOMAIN running \cup { q }
      /\ running'[q] = conn
      /\ \A p \in DOMAIN running \ { q } : running'[p] = running[p]
  BY <1>1 DEF Put
<1>5. \A i \in 1 .. n - 1 : free'[i] # conn
  BY <1>1, <1>2 DEF OneHolder
<1>6. TypeOK'
  BY <1>1, <1>2, <1>3, <1>4, Types DEF TypeOK, Range
<1>7. waiters = << >>
  BY <1>1 DEF NoNeedlessWait
<1>8. OneHolder'
  BY <1>1, <1>2, <1>4, <1>5, Types DEF OneHolder, Contains
<1>9. ConnectionsFit'
  BY <1>1, <1>2, <1>3, <1>4, <1>5 DEF ConnectionsFit
<1> QED
  BY <1>1, <1>6, <1>7, <1>8, <1>9 DEF IInv, NoNeedlessWait, WaitersFit

LEMMA WaitInvariant == ASSUME IInv, NEW q \in Queries, Wait(q) PROVE IInv'
<1>1. /\ TypeOK /\ OneHolder /\ ConnectionsFit /\ WaitersFit
      /\ free = << >> /\ q \notin DOMAIN running /\ ~Contains(waiters, q)
      /\ waiters' = Append(waiters, q)
      /\ UNCHANGED << free, checkedOut, inUse, running, generation >>
  BY DEF IInv, Wait, Idle
<1>2. /\ Len(waiters) \in Nat /\ DOMAIN waiters = 1 .. Len(waiters)
      /\ waiters' \in Seq(Queries) /\ DOMAIN waiters' = 1 .. Len(waiters) + 1
      /\ waiters'[Len(waiters) + 1] = q
      /\ \A i \in 1 .. Len(waiters) : waiters'[i] = waiters[i]
  BY <1>1, Types, AppendFacts
<1>3. \A i \in 1 .. Len(waiters) : waiters[i] # q
  BY <1>1 DEF Contains
<1>4. WaitersFit'
  <2>1. \A i \in DOMAIN waiters' : i \in 1 .. Len(waiters) \/ i = Len(waiters) + 1
    BY <1>2
  <2>2. running' = running
    BY <1>1
  <2>3. \A i \in DOMAIN waiters' : waiters'[i] \notin DOMAIN running'
    BY <1>1, <1>2, <2>1, <2>2 DEF WaitersFit
  <2>4. \A i, j \in DOMAIN waiters' : waiters'[i] = waiters'[j] => i = j
    BY <1>1, <1>2, <1>3, <2>1 DEF WaitersFit
  <2> QED
    BY <2>3, <2>4 DEF WaitersFit
<1> QED
  BY <1>1, <1>2, <1>4 DEF IInv, TypeOK, OneHolder, NoNeedlessWait, ConnectionsFit

LEMMA ExpireInvariant == ASSUME IInv, NEW q \in Queries, ExpireWaiter(q) PROVE IInv'
<1>1. /\ TypeOK /\ OneHolder /\ NoNeedlessWait /\ ConnectionsFit /\ WaitersFit
      /\ UNCHANGED << free, checkedOut, inUse, running, generation >>
  BY DEF IInv, ExpireWaiter
<1>2. PICK k \in DOMAIN waiters : waiters' = RemoveAt(waiters, k)
  BY DEF ExpireWaiter
<1>3. /\ Len(waiters) \in Nat /\ DOMAIN waiters = 1 .. Len(waiters) /\ k \in 1 .. Len(waiters)
      /\ waiters' \in Seq(Queries) /\ DOMAIN waiters' = 1 .. Len(waiters) - 1
      /\ \A i \in 1 .. Len(waiters) - 1 : waiters'[i] = waiters[IF i < k THEN i ELSE i + 1]
  BY <1>1, <1>2, Types, RemoveAtFacts
<1>4. WaitersFit'
  <2> DEFINE at(i) == IF i < k THEN i ELSE i + 1
  <2>1. \A i \in DOMAIN waiters' : at(i) \in DOMAIN waiters /\ waiters'[i] = waiters[at(i)]
    BY <1>3
  <2>2. \A i, j \in DOMAIN waiters' : at(i) = at(j) => i = j
    BY <1>3
  <2> HIDE DEF at
  <2>3. \A i \in DOMAIN waiters' : waiters'[i] \notin DOMAIN running'
    BY <1>1, <2>1 DEF WaitersFit
  <2>4. \A i, j \in DOMAIN waiters' : waiters'[i] = waiters'[j] => i = j
    BY <1>1, <2>1, <2>2 DEF WaitersFit
  <2> QED
    BY <2>3, <2>4 DEF WaitersFit
<1>5. NoNeedlessWait'
  BY <1>1, <1>3 DEF NoNeedlessWait
<1> QED
  BY <1>1, <1>3, <1>4, <1>5 DEF IInv, TypeOK, OneHolder, ConnectionsFit

LEMMA LeakInvariant == ASSUME IInv, NEW q \in Queries, Leak(q) PROVE IInv'
<1>1. /\ TypeOK /\ OneHolder /\ NoNeedlessWait /\ ConnectionsFit /\ WaitersFit
      /\ running' = Delete(running, q)
      /\ UNCHANGED << free, waiters, checkedOut, inUse, generation >>
  BY DEF IInv, Leak
<1>2. /\ DOMAIN running' = DOMAIN running \ { q }
      /\ \A p \in DOMAIN running' : running'[p] = running[p]
  BY <1>1 DEF Delete
<1>3. TypeOK'
  BY <1>1, <1>2, Types DEF TypeOK, Range
<1> QED
  BY <1>1, <1>2, <1>3 DEF IInv, OneHolder, NoNeedlessWait, ConnectionsFit, WaitersFit

LEMMA RecycleInvariant == ASSUME IInv, Recycle PROVE IInv'
<1>1. /\ TypeOK /\ OneHolder /\ ConnectionsFit
      /\ generation < MaxRecycles /\ generation' = generation + 1
      /\ waiters' = << >> /\ checkedOut' = << >> /\ free' = FreshPool(generation + 1)
      /\ inUse' = 0 /\ running' = running
  BY DEF IInv, Recycle
<1>2. generation \in Nat /\ generation + 1 \in 0 .. MaxRecycles
  BY <1>1, PoolAssumption DEF TypeOK
<1>3. /\ free' \in Seq(Connection) /\ DOMAIN free' = Ids /\ Len(free') = POOL_SIZE
      /\ \A i \in Ids : free'[i] = [id |-> i, generation |-> generation + 1]
  BY <1>1, <1>2, FreshFacts
<1>4. \A i \in Ids : free'[i].generation = generation + 1 /\ free'[i].id = i
  BY <1>3
<1>5. DOMAIN checkedOut' = {} /\ DOMAIN waiters' = {} /\ waiters' \in Seq(Queries)
  BY <1>1
<1>6. \A q \in DOMAIN running : running[q].generation \in Nat /\ running[q].generation <= generation
  BY <1>1, Types DEF ConnectionsFit, Connection
<1>7. TypeOK'
  BY <1>1, <1>2, <1>3, <1>5 DEF TypeOK, Range
<1>8. OneHolder'
  <2>1. Len(free') \in Nat /\ 1 .. Len(free') = Ids
    BY <1>3, PoolAssumption DEF Ids
  <2>2. \A q \in DOMAIN running : ~Contains(free', running[q])
    BY <1>2, <1>4, <1>6, <2>1 DEF Contains
  <2>3. \A i, j \in DOMAIN free' : free'[i] = free'[j] => i = j
    BY <1>3, <1>4
  <2> QED
    BY <1>1, <2>2, <2>3 DEF OneHolder
<1>9. ConnectionsFit' /\ WaitersFit'
  BY <1>1, <1>2, <1>3, <1>4, <1>5, <1>6 DEF ConnectionsFit, WaitersFit
<1> QED
  BY <1>1, <1>7, <1>8, <1>9 DEF IInv, NoNeedlessWait

\* The two ways a connection goes back: to the first waiter, or on the stack.  A
\* connection that is in no entry but those of its id goes to the stack.
LEMMA HandOver ==
  ASSUME IInv, NEW conn \in Connection, NEW r, waiters # << >>,
         \A q \in DOMAIN r : q \in DOMAIN running /\ r[q] = running[q] /\ running[q] # conn,
         \A i \in DOMAIN free : free[i] # conn, conn.generation <= generation,
         waiters' = Tail(waiters),
         \A id \in DOMAIN checkedOut' :
            \/ id = conn.id /\ checkedOut'[id] = conn
            \/ id \in DOMAIN checkedOut /\ checkedOut'[id] = checkedOut[id],
         running' = Put(r, Head(waiters), conn),
         UNCHANGED << free, inUse, generation >>
  PROVE  IInv'
<1> DEFINE w == Head(waiters)
           n == Len(waiters)
<1>1. TypeOK /\ OneHolder /\ NoNeedlessWait /\ ConnectionsFit /\ WaitersFit
  BY DEF IInv
<1>2. /\ n \in Nat /\ n >= 1 /\ DOMAIN waiters = 1 .. n /\ w = waiters[1] /\ w \in Queries
      /\ waiters' \in Seq(Queries) /\ DOMAIN waiters' = 1 .. n - 1
      /\ \A i \in 1 .. n - 1 : waiters'[i] = waiters[i + 1]
  BY <1>1, Types, TailFacts
<1>3. w \notin DOMAIN running
  BY <1>1, <1>2 DEF WaitersFit
<1> HIDE DEF w, n
<1>4. /\ DOMAIN running' = DOMAIN r \cup { w } /\ running'[w] = conn
      /\ \A q \in DOMAIN r \ { w } : running'[q] = r[q]
  BY DEF Put, w
<1>5. \A q \in DOMAIN running' :
        \/ q = w /\ running'[q] = conn
        \/ /\ q # w /\ q \in DOMAIN running
           /\ running'[q] = running[q] /\ running[q] # conn
  BY <1>3, <1>4
<1>6. free = << >>
  BY <1>1 DEF NoNeedlessWait
<1>7. conn.id \in Ids
  BY DEF Connection
<1>8. TypeOK'
  <2>1. \A id \in DOMAIN checkedOut' : id \in Ids /\ checkedOut'[id] \in Connection
    BY <1>1, <1>7, Types
  <2>2. \A q \in DOMAIN running' : q \in Queries /\ running'[q] \in Connection
    BY <1>1, <1>2, <1>5, Types
  <2> QED
    BY <1>1, <1>2, <2>1, <2>2 DEF TypeOK, Range
<1>9. OneHolder'
  <2>1. \A p, q \in DOMAIN running' : running'[p] = running'[q] => p = q
    BY <1>1, <1>5 DEF OneHolder
  <2>2. DOMAIN free' = {} /\ Len(free') = 0
    BY <1>6
  <2> QED
    BY <2>1, <2>2 DEF OneHolder, Contains
<1>10. ConnectionsFit'
  <2>1. DOMAIN free' = {}
    BY <1>6
  <2>2. \A q \in DOMAIN running' : running'[q].generation <= generation'
    BY <1>1, <1>5 DEF ConnectionsFit
  <2>3. \A id \in DOMAIN checkedOut' : /\ checkedOut'[id].id = id
                                       /\ checkedOut'[id].generation <= generation'
    BY <1>1 DEF ConnectionsFit
  <2> QED
    BY <2>1, <2>2, <2>3 DEF ConnectionsFit
<1>11. WaitersFit'
  <2>1. \A i \in DOMAIN waiters' : i + 1 \in DOMAIN waiters /\ i + 1 # 1
                                   /\ waiters'[i] = waiters[i + 1]
    BY <1>2
  <2>2. \A i \in DOMAIN waiters' : waiters'[i] # w
    BY <1>1, <1>2, <2>1 DEF WaitersFit
  <2>3. \A i \in DOMAIN waiters' : waiters'[i] \notin DOMAIN running'
    BY <1>1, <1>5, <2>1, <2>2 DEF WaitersFit
  <2>4. \A i, j \in DOMAIN waiters' : waiters'[i] = waiters'[j] => i = j
    BY <1>1, <1>2, <2>1 DEF WaitersFit
  <2> QED
    BY <2>3, <2>4 DEF WaitersFit
<1> QED
  BY <1>1, <1>6, <1>8, <1>9, <1>10, <1>11 DEF IInv, NoNeedlessWait

LEMMA PutBack ==
  ASSUME IInv, NEW conn \in Connection, waiters = << >>,
         \A q \in DOMAIN running' :
            q \in DOMAIN running /\ running'[q] = running[q] /\ running[q] # conn,
         \A i \in DOMAIN free : free[i] # conn, conn.generation <= generation,
         free' = Append(free, conn),
         checkedOut' = Delete(checkedOut, conn.id),
         inUse' = inUse - 1,
         UNCHANGED << waiters, generation >>
  PROVE  IInv'
<1> DEFINE n == Len(free)
<1>1. TypeOK /\ OneHolder /\ ConnectionsFit
  BY DEF IInv
<1>2. /\ n \in Nat /\ DOMAIN free = 1 .. n
      /\ free' \in Seq(Connection) /\ DOMAIN free' = 1 .. n + 1 /\ Len(free') = n + 1
      /\ free'[n + 1] = conn
      /\ \A i \in 1 .. n : free'[i] = free[i]
  BY <1>1, Types, AppendFacts
<1> HIDE DEF n
<1>3. \A i \in DOMAIN free' :
        \/ i = n + 1 /\ free'[i] = conn
        \/ i \in DOMAIN free /\ free'[i] = free[i] /\ free[i] # conn
  BY <1>2
<1>4. \A id \in DOMAIN checkedOut' :
        id \in DOMAIN checkedOut /\ checkedOut'[id] = checkedOut[id] /\ id # conn.id
  BY DEF Delete
<1>5. DOMAIN waiters' = {}
  OBVIOUS
<1>6. TypeOK'
  <2>1. \A id \in DOMAIN checkedOut' : id \in Ids /\ checkedOut'[id] \in Connection
    BY <1>1, <1>4, Types
  <2>2. \A q \in DOMAIN running' : q \in Queries /\ running'[q] \in Connection
    BY <1>1, Types
  <2>3. waiters' \in Seq(Queries) /\ inUse' \in Int /\ generation' \in 0 .. MaxRecycles
    BY <1>1 DEF TypeOK
  <2> QED
    BY <1>2, <2>1, <2>2, <2>3 DEF TypeOK, Range
<1>7. OneHolder'
  <2>1. \A p, q \in DOMAIN running' : running'[p] = running'[q] => p = q
    BY <1>1 DEF OneHolder
  <2>2. \A i, j \in DOMAIN free' : free'[i] = free'[j] => i = j
    BY <1>1, <1>3 DEF OneHolder
  <2>3. \A q \in DOMAIN running', i \in DOMAIN free : free[i] # running[q]
    BY <1>1, <1>2 DEF OneHolder, Contains
  <2>4. \A q \in DOMAIN running', i \in DOMAIN free' : free'[i] # running'[q]
    BY <1>3, <2>3
  <2> QED
    BY <1>2, <2>1, <2>2, <2>4 DEF OneHolder, Contains
<1>8. ConnectionsFit'
  <2>1. \A i \in DOMAIN free' : free'[i].generation <= generation'
    BY <1>1, <1>3 DEF ConnectionsFit
  <2>2. \A q \in DOMAIN running' : running'[q].generation <= generation'
    BY <1>1 DEF ConnectionsFit
  <2>3. \A id \in DOMAIN checkedOut' :
          /\ checkedOut'[id].id = id
          /\ checkedOut'[id].generation <= generation'
          /\ \A i \in DOMAIN free' : free'[i] # checkedOut'[id]
    BY <1>1, <1>3, <1>4 DEF ConnectionsFit
  <2> QED
    BY <2>1, <2>2, <2>3 DEF ConnectionsFit
<1> QED
  BY <1>5, <1>6, <1>7, <1>8 DEF IInv, NoNeedlessWait, WaitersFit

LEMMA ReleaseInvariant == ASSUME IInv, NEW q \in Queries, Release(q) PROVE IInv'
<1> DEFINE conn == running[q]
<1>1. TypeOK /\ OneHolder /\ ConnectionsFit /\ q \in DOMAIN running /\ generation' = generation
  BY DEF IInv, Release
<1>2. conn \in Connection /\ conn.generation <= generation
  BY <1>1, Types DEF ConnectionsFit
<1>3. \A i \in DOMAIN free : free[i] # conn
  BY <1>1, Types DEF OneHolder, Contains
<1>4. \A p \in DOMAIN running \ { q } : running[p] # conn
  BY <1>1 DEF OneHolder
<1>5. CASE waiters # << >>
  <2> DEFINE r == Delete(running, q)
  <2>1. /\ waiters' = Tail(waiters) /\ checkedOut' = Put(checkedOut, conn.id, conn)
        /\ running' = Put(r, Head(waiters), conn)
        /\ UNCHANGED << free, inUse, generation >>
    BY <1>1, <1>5 DEF Release
  <2>2. \A p \in DOMAIN r : p \in DOMAIN running /\ r[p] = running[p] /\ running[p] # conn
    BY <1>4 DEF Delete
  <2>3. \A id \in DOMAIN checkedOut' :
          \/ id = conn.id /\ checkedOut'[id] = conn
          \/ id \in DOMAIN checkedOut /\ checkedOut'[id] = checkedOut[id]
    BY <2>1 DEF Put
  <2> HIDE DEF conn, r
  <2> QED
    BY <1>2, <1>3, <1>5, <2>1, <2>2, <2>3, HandOver
<1>6. CASE waiters = << >>
  <2>1. /\ checkedOut' = Delete(checkedOut, conn.id) /\ inUse' = inUse - 1
        /\ free' = Append(free, conn) /\ running' = Delete(running, q)
        /\ UNCHANGED << waiters, generation >>
    BY <1>1, <1>6 DEF Release
  <2>2. \A p \in DOMAIN running' :
          p \in DOMAIN running /\ running'[p] = running[p] /\ running[p] # conn
    BY <1>4, <2>1 DEF Delete
  <2> HIDE DEF conn
  <2> QED
    BY <1>2, <1>3, <1>6, <2>1, <2>2, PutBack
<1> QED
  BY <1>5, <1>6

LEMMA ReapInvariant == ASSUME IInv, NEW id \in Ids, Reap(id) PROVE IInv'
<1> DEFINE conn == checkedOut[id]
<1>1. /\ TypeOK /\ ConnectionsFit /\ id \in DOMAIN checkedOut /\ generation' = generation
      /\ \A q \in DOMAIN running : running[q] # conn
  BY DEF IInv, Reap, Leaked
<1>2. /\ conn \in Connection /\ conn.id = id /\ conn.generation <= generation
      /\ \A i \in DOMAIN free : free[i] # conn
  BY <1>1, Types DEF ConnectionsFit
<1>3. CASE waiters # << >>
  <2>1. /\ waiters' = Tail(waiters) /\ running' = Put(running, Head(waiters), conn)
        /\ UNCHANGED << free, checkedOut, inUse, generation >>
    BY <1>3 DEF Reap
  <2>2. \A q \in DOMAIN running : running[q] = running[q] /\ running[q] # conn
    BY <1>1
  <2>3. \A i \in DOMAIN checkedOut' :
          \/ i = conn.id /\ checkedOut'[i] = conn
          \/ i \in DOMAIN checkedOut /\ checkedOut'[i] = checkedOut[i]
    BY <2>1
  <2> HIDE DEF conn
  <2> QED
    BY <1>2, <1>3, <2>1, <2>2, <2>3, HandOver
<1>4. CASE waiters = << >>
  <2>1. /\ checkedOut' = Delete(checkedOut, conn.id) /\ inUse' = inUse - 1
        /\ free' = Append(free, conn)
        /\ UNCHANGED << waiters, running, generation >>
    BY <1>2, <1>4 DEF Reap
  <2>2. \A q \in DOMAIN running' :
          q \in DOMAIN running /\ running'[q] = running[q] /\ running[q] # conn
    BY <1>1, <2>1
  <2> HIDE DEF conn
  <2> QED
    BY <1>2, <1>4, <2>1, <2>2, PutBack
<1> QED
  BY <1>3, <1>4

LEMMA NextInvariant == IInv /\ [Next]_vars => IInv'
<1> SUFFICES ASSUME IInv, [Next]_vars PROVE IInv'
  OBVIOUS
<1>1. CASE UNCHANGED vars
  BY <1>1 DEF vars, IInv, TypeOK, OneHolder, NoNeedlessWait, ConnectionsFit, WaitersFit
<1> QED
  BY <1>1, AcquireInvariant, WaitInvariant, ExpireInvariant, ReleaseInvariant,
     LeakInvariant, ReapInvariant, RecycleInvariant DEF Next

\* No run of the pool leaves the invariant.
THEOREM Invariant == Spec => []IInv
BY InitInvariant, NextInvariant, PTL DEF Spec

\* The pool's variables have their types.
THEOREM TypesCorrect == Spec => []TypeOK
<1>1. IInv => TypeOK
  BY DEF IInv
<1> QED
  BY <1>1, Invariant, PTL

\* A connection is never in two hands, through hand-overs, reaps and recycles, whose
\* connections have the ids of those that are still in use.
THEOREM HoldersCorrect == Spec => []OneHolder
<1>1. IInv => OneHolder
  BY DEF IInv
<1> QED
  BY <1>1, Invariant, PTL

\* Nobody waits while a connection is free.
THEOREM WaitersCorrect == Spec => []NoNeedlessWait
<1>1. IInv => NoNeedlessWait
  BY DEF IInv
<1> QED
  BY <1>1, Invariant, PTL

-----------------------------------------------------------------------------
(* The books, until the first recycle: all connections are of generation 0 *)
(* then, so that one is known by its id.                                   *)

\* A query that runs has the entry of its connection.
EntriesFit ==
  \A q \in DOMAIN running : /\ running[q].id \in DOMAIN checkedOut
                            /\ checkedOut[running[q].id] = running[q]

Books == BooksBalance /\ (generation = 0 => EntriesFit)

FreeIds == { free[i].id : i \in DOMAIN free }

LEMMA EntriesFinite ==
  ASSUME TypeOK
  PROVE  /\ IsFiniteSet(DOMAIN checkedOut) /\ Cardinality(DOMAIN checkedOut) \in Nat
         /\ \A id : id \notin DOMAIN checkedOut =>
              Cardinality(DOMAIN checkedOut \cup { id }) = Cardinality(DOMAIN checkedOut) + 1
         /\ \A id \in DOMAIN checkedOut :
              Cardinality(DOMAIN checkedOut \ { id }) = Cardinality(DOMAIN checkedOut) - 1
<1>1. IsFiniteSet(Ids)
  BY PoolAssumption, FS_Interval DEF Ids
<1>2. IsFiniteSet(DOMAIN checkedOut)
  BY <1>1, FS_Subset DEF TypeOK
<1> QED
  BY <1>2, FS_CardinalityType, FS_AddElement, FS_RemoveElement

\* Free connections of generation 0 have different ids.
LEMMA FreeIdsDiffer ==
  ASSUME IInv, generation = 0
  PROVE  \A i, j \in DOMAIN free : free[i].id = free[j].id => i = j
<1>1. TypeOK /\ OneHolder /\ ConnectionsFit
  BY DEF IInv
<1>2. \A i \in DOMAIN free : free[i] \in Connection /\ free[i].generation = 0
  <2>1. \A i \in DOMAIN free : free[i] \in Connection /\ free[i].generation <= 0
    BY <1>1, Types DEF ConnectionsFit
  <2> QED
    BY <2>1 DEF Connection
<1>3. \A i \in DOMAIN free : free[i] = [id |-> free[i].id, generation |-> 0]
  BY <1>2 DEF Connection
<1> QED
  BY <1>1, <1>3 DEF OneHolder

LEMMA InitBooks == Init => Books
<1> SUFFICES ASSUME Init PROVE Books
  OBVIOUS
<1>1. /\ free = FreshPool(0) /\ checkedOut = << >> /\ running = << >>
      /\ inUse = 0 /\ generation = 0
  BY DEF Init
<1>2. 0 \in 0 .. MaxRecycles
  BY PoolAssumption
<1>3. /\ Len(free) = POOL_SIZE /\ DOMAIN free = Ids
      /\ \A i \in Ids : free[i] = [id |-> i, generation |-> 0]
  BY <1>1, <1>2, FreshFacts
<1>4. DOMAIN checkedOut = {} /\ DOMAIN running = {}
  BY <1>1
<1>5. { free[i].id : i \in DOMAIN free } = Ids
  <2>1. ASSUME NEW i \in Ids PROVE free[i].id = i
    <3>1. free[i] = [id |-> i, generation |-> 0]
      BY <1>3
    <3> QED
      BY <3>1
  <2> QED
    BY <1>3, <2>1
<1>6. Cardinality(DOMAIN checkedOut) = 0
  BY <1>4, FS_EmptySet
<1> QED
  BY <1>1, <1>3, <1>4, <1>5, <1>6, PoolAssumption DEF Books, BooksBalance, EntriesFit

LEMMA AcquireBooks ==
  ASSUME IInv, Books, NEW q \in Queries, Acquire(q), generation = 0
  PROVE  Books'
<1> DEFINE conn == Last(free)
           n == Len(free)
<1>1. /\ TypeOK /\ free # << >>
      /\ free' = Front(free) /\ inUse' = inUse + 1
      /\ checkedOut' = Put(checkedOut, conn.id, conn) /\ running' = Put(running, q, conn)
      /\ generation' = 0
  BY DEF IInv, Acquire
<1>2. /\ n \in Nat /\ n >= 1 /\ DOMAIN free = 1 .. n /\ conn = free[n] /\ conn \in Connection
      /\ DOMAIN free' = 1 .. n - 1 /\ Len(free') = n - 1
      /\ \A i \in 1 .. n - 1 : free'[i] = free[i]
  <2>1. free \in Seq(Connection) /\ DOMAIN free = 1 .. n
    BY <1>1, Types
  <2> QED
    BY <1>1, <2>1, FrontFacts
<1> HIDE DEF conn, n
<1>3. /\ FreeIds \cup DOMAIN checkedOut = Ids /\ FreeIds \cap DOMAIN checkedOut = {}
      /\ inUse = Cardinality(DOMAIN checkedOut) /\ n + inUse = POOL_SIZE /\ EntriesFit
  BY DEF Books, BooksBalance, FreeIds, n
<1>4. FreeIds' = { free[i].id : i \in 1 .. n - 1 }
  BY <1>2 DEF FreeIds
<1>5. FreeIds = FreeIds' \cup { conn.id } /\ conn.id \notin FreeIds'
  <2>1. n \in DOMAIN free /\ \A i \in DOMAIN free : i \in 1 .. n - 1 \/ i = n
    BY <1>2
  <2>2. \A i \in 1 .. n - 1 : i \in DOMAIN free /\ i # n
    BY <1>2
  <2>3. FreeIds = FreeIds' \cup { conn.id }
    BY <1>2, <1>4, <2>1, <2>2 DEF FreeIds
  <2>4. conn.id \notin FreeIds'
    BY <1>2, <1>4, <2>1, <2>2, FreeIdsDiffer
  <2> QED
    BY <2>3, <2>4
<1>6. conn.id \notin DOMAIN checkedOut
  BY <1>3, <1>5
<1>7. DOMAIN checkedOut' = DOMAIN checkedOut \cup { conn.id }
  BY <1>1 DEF Put
<1>8. inUse' = Cardinality(DOMAIN checkedOut') /\ Len(free') + inUse' = POOL_SIZE
  BY <1>1, <1>2, <1>3, <1>6, <1>7, EntriesFinite
<1>9. FreeIds' \cup DOMAIN checkedOut' = Ids /\ FreeIds' \cap DOMAIN checkedOut' = {}
  BY <1>3, <1>5, <1>7
<1>10. EntriesFit'
  BY <1>1, <1>3, <1>6 DEF EntriesFit, Put
<1> QED
  BY <1>8, <1>9, <1>10 DEF Books, BooksBalance, FreeIds

\* What moves no connection and gives no query another one.
LEMMA BooksKept ==
  ASSUME IInv, Books, generation = 0,
         UNCHANGED << free, inUse, generation >>,
         DOMAIN checkedOut' = DOMAIN checkedOut,
         \A id \in DOMAIN checkedOut : checkedOut'[id] = checkedOut[id],
         \A q \in DOMAIN running' : \E id \in DOMAIN checkedOut : running'[q] = checkedOut[id]
  PROVE  Books'
<1>1. \A id \in DOMAIN checkedOut : checkedOut[id].id = id
  BY DEF IInv, ConnectionsFit
<1>2. EntriesFit'
  BY <1>1 DEF EntriesFit
<1>3. DOMAIN free' = DOMAIN free /\ \A i \in DOMAIN free : free'[i] = free[i]
  OBVIOUS
<1> QED
  BY <1>2, <1>3 DEF Books, BooksBalance

\* What puts a checked-out connection on the stack.
LEMMA BooksPutBack ==
  ASSUME IInv, Books, generation = 0, NEW id \in DOMAIN checkedOut,
         free' = Append(free, checkedOut[id]),
         checkedOut' = Delete(checkedOut, id),
         inUse' = inUse - 1, generation' = generation,
         \A q \in DOMAIN running' :
            q \in DOMAIN running /\ running'[q] = running[q] /\ running[q] # checkedOut[id]
  PROVE  Books'
<1> DEFINE conn == checkedOut[id]
           n == Len(free)
<1>1. TypeOK /\ conn \in Connection /\ conn.id = id
  BY Types DEF IInv, ConnectionsFit
<1>2. /\ n \in Nat /\ DOMAIN free = 1 .. n
      /\ DOMAIN free' = 1 .. n + 1 /\ Len(free') = n + 1
      /\ free'[n + 1] = conn
      /\ \A i \in 1 .. n : free'[i] = free[i]
  <2>1. free \in Seq(Connection) /\ DOMAIN free = 1 .. n
    BY <1>1, Types
  <2> QED
    BY <1>1, <2>1, AppendFacts
<1> HIDE DEF conn, n
<1>3. /\ FreeIds \cup DOMAIN checkedOut = Ids /\ FreeIds \cap DOMAIN checkedOut = {}
      /\ inUse = Cardinality(DOMAIN checkedOut) /\ n + inUse = POOL_SIZE /\ EntriesFit
  BY DEF Books, BooksBalance, FreeIds, n
<1>4. FreeIds' = FreeIds \cup { id }
  <2>1. n + 1 \in DOMAIN free' /\ \A i \in DOMAIN free' : i \in 1 .. n \/ i = n + 1
    BY <1>2
  <2>2. \A i \in 1 .. n : i \in DOMAIN free' /\ i \in DOMAIN free
    BY <1>2
  <2>3. FreeIds' = { free'[i].id : i \in DOMAIN free' }
    BY DEF FreeIds
  <2> QED
    BY <1>1, <1>2, <2>1, <2>2, <2>3 DEF FreeIds
<1>5. DOMAIN checkedOut' = DOMAIN checkedOut \ { id }
  BY DEF Delete
<1>6. inUse' = Cardinality(DOMAIN checkedOut') /\ Len(free') + inUse' = POOL_SIZE
  BY <1>1, <1>2, <1>3, <1>5, EntriesFinite
<1>7. FreeIds' \cup DOMAIN checkedOut' = Ids /\ FreeIds' \cap DOMAIN checkedOut' = {}
  BY <1>3, <1>4, <1>5
<1>8. EntriesFit'
  <2>1. \A q \in DOMAIN running' : /\ running'[q].id \in DOMAIN checkedOut
                                   /\ running'[q].id # id
                                   /\ checkedOut[running'[q].id] = running'[q]
    BY <1>3 DEF EntriesFit
  <2> QED
    BY <2>1 DEF EntriesFit, Delete
<1> QED
  BY <1>6, <1>7, <1>8 DEF Books, BooksBalance, FreeIds

LEMMA ReleaseBooks ==
  ASSUME IInv, Books, NEW q \in Queries, Release(q), generation = 0
  PROVE  Books'
<1> DEFINE conn == running[q]
<1>1. /\ q \in DOMAIN running /\ generation' = generation
      /\ conn.id \in DOMAIN checkedOut /\ checkedOut[conn.id] = conn
      /\ \A p \in DOMAIN running : /\ running[p].id \in DOMAIN checkedOut
                                   /\ checkedOut[running[p].id] = running[p]
  BY DEF Release, Books, EntriesFit
<1>2. CASE waiters # << >>
  <2>1. /\ checkedOut' = Put(checkedOut, conn.id, conn)
        /\ running' = Put(Delete(running, q), Head(waiters), conn)
        /\ UNCHANGED << free, inUse, generation >>
    BY <1>1, <1>2 DEF Release
  <2>2. /\ DOMAIN checkedOut' = DOMAIN checkedOut
        /\ \A id \in DOMAIN checkedOut : checkedOut'[id] = checkedOut[id]
    BY <1>1, <2>1 DEF Put
  <2>3. \A p \in DOMAIN running' :
          running'[p] = conn \/ (p \in DOMAIN running /\ running'[p] = running[p])
    BY <2>1 DEF Put, Delete
  <2> HIDE DEF conn
  <2> QED
    BY <1>1, <2>1, <2>2, <2>3, BooksKept
<1>3. CASE waiters = << >>
  <2>1. /\ checkedOut' = Delete(checkedOut, conn.id) /\ inUse' = inUse - 1
        /\ free' = Append(free, conn) /\ running' = Delete(running, q)
    BY <1>1, <1>3 DEF Release
  <2>2. \A p \in DOMAIN running \ { q } : running[p] # conn
    BY <1>1 DEF IInv, OneHolder
  <2>3. \A p \in DOMAIN running' :
          p \in DOMAIN running /\ running'[p] = running[p] /\ running[p] # conn
    BY <2>1, <2>2 DEF Delete
  <2> HIDE DEF conn
  <2> QED
    BY <1>1, <2>1, <2>3, BooksPutBack
<1> QED
  BY <1>2, <1>3

LEMMA ReapBooks ==
  ASSUME IInv, Books, NEW id \in Ids, Reap(id), generation = 0
  PROVE  Books'
<1> DEFINE conn == checkedOut[id]
<1>1. /\ id \in DOMAIN checkedOut /\ generation' = generation
      /\ \A q \in DOMAIN running : running[q] # conn
      /\ \A p \in DOMAIN running : /\ running[p].id \in DOMAIN checkedOut
                                   /\ checkedOut[running[p].id] = running[p]
  BY DEF Reap, Leaked, Books, EntriesFit
<1>2. CASE waiters # << >>
  <2>1. /\ running' = Put(running, Head(waiters), conn)
        /\ UNCHANGED << free, checkedOut, inUse, generation >>
    BY <1>1, <1>2 DEF Reap
  <2>2. \A p \in DOMAIN running' :
          running'[p] = conn \/ (p \in DOMAIN running /\ running'[p] = running[p])
    BY <2>1 DEF Put
  <2> QED
    BY <1>1, <2>1, <2>2, BooksKept
<1>3. CASE waiters = << >>
  <2>1. /\ checkedOut' = Delete(checkedOut, id) /\ inUse' = inUse - 1
        /\ free' = Append(free, conn) /\ running' = running
    BY <1>1, <1>3 DEF Reap
  <2> QED
    BY <1>1, <2>1, BooksPutBack
<1> QED
  BY <1>2, <1>3

LEMMA NextBooks == IInv /\ Books /\ [Next]_vars => Books'
<1> SUFFICES ASSUME IInv, Books, [Next]_vars PROVE Books'
  OBVIOUS
<1>1. generation \in Nat
  BY DEF IInv, TypeOK
<1>2. CASE generation = 0
  <2>1. \A q \in DOMAIN running : /\ running[q].id \in DOMAIN checkedOut
                                  /\ checkedOut[running[q].id] = running[q]
    BY <1>2 DEF Books, EntriesFit
  <2>2. ASSUME NEW q \in Queries, Wait(q) \/ ExpireWaiter(q) \/ Leak(q) PROVE Books'
    <3>1. UNCHANGED << free, checkedOut, inUse, generation >>
      BY <2>2 DEF Wait, ExpireWaiter, Leak
    <3>2. CASE running' = running
      BY <1>2, <2>1, <3>1, <3>2, BooksKept
    <3>3. CASE running' = Delete(running, q)
      <4>1. \A p \in DOMAIN running' : p \in DOMAIN running /\ running'[p] = running[p]
        BY <3>3 DEF Delete
      <4> QED
        BY <1>2, <2>1, <3>1, <4>1, BooksKept
    <3> QED
      BY <2>2, <3>2, <3>3 DEF Wait, ExpireWaiter, Leak
  <2>3. CASE Recycle
    BY <1>2, <2>3 DEF Recycle, Books, BooksBalance
  <2>4. CASE UNCHANGED vars
    BY <1>2, <2>1, <2>4, BooksKept DEF vars
  <2> QED
    BY <1>2, <2>2, <2>3, <2>4, AcquireBooks, ReleaseBooks, ReapBooks DEF Next
<1>3. CASE generation # 0
  <2>1. generation' = generation \/ generation' = generation + 1
    BY DEF Next, vars, Acquire, Wait, ExpireWaiter, Release, Leak, Reap, Recycle
  <2> QED
    BY <1>1, <1>3, <2>1 DEF Books, BooksBalance
<1> QED
  BY <1>2, <1>3

\* Until the first recycle every connection is free or checked out and the counter
\* of those in use is right, whatever leaks and is reaped.
THEOREM BooksCorrect == Spec => []BooksBalance
<1>1. Spec => []Books
  BY InitBooks, NextBooks, Invariant, PTL DEF Spec
<1>2. Books => BooksBalance
  BY DEF Books
<1> QED
  BY <1>1, <1>2, PTL

\* So it takes a recycle to change the size of the pool or to make inUse negative:
\* what MCDbPoolSize finds has no other cause.
THEOREM SizeCorrect == Spec => [](generation = 0 => FixedSize)
<1>1. TypeOK /\ BooksBalance => (generation = 0 => FixedSize)
  BY EntriesFinite, PoolAssumption DEF TypeOK, BooksBalance, FixedSize
<1> QED
  BY <1>1, TypesCorrect, BooksCorrect, PTL

-----------------------------------------------------------------------------
(* Places.                                                                 *)

Free(id) == \E i \in DOMAIN free : free[i].id = id

\* A place that has no free connection has an entry, however many connections of
\* its id the recycles have left behind.
EveryPlaceKnown == \A id \in Ids : id \in DOMAIN checkedOut \/ Free(id)

LEMMA PlaceGivenBack ==
  ASSUME TypeOK, EveryPlaceKnown, NEW conn \in Connection, free' = Append(free, conn),
         checkedOut' = Delete(checkedOut, conn.id)
  PROVE  EveryPlaceKnown'
<1>1. /\ Len(free) \in Nat /\ DOMAIN free = 1 .. Len(free)
      /\ DOMAIN free' = 1 .. Len(free) + 1
      /\ free'[Len(free) + 1] = conn
      /\ \A i \in 1 .. Len(free) : free'[i] = free[i]
  BY Types, AppendFacts
<1>2. Free(conn.id)'
  BY <1>1 DEF Free
<1>3. \A id \in Ids : Free(id) => Free(id)'
  BY <1>1 DEF Free
<1>4. \A id \in DOMAIN checkedOut : id \in DOMAIN checkedOut' \/ id = conn.id
  BY DEF Delete
<1> QED
  BY <1>2, <1>3, <1>4 DEF EveryPlaceKnown

LEMMA NextPlaces == IInv /\ EveryPlaceKnown /\ [Next]_vars => EveryPlaceKnown'
<1> SUFFICES ASSUME IInv, EveryPlaceKnown, [Next]_vars PROVE EveryPlaceKnown'
  OBVIOUS
<1>1. TypeOK
  BY DEF IInv
<1>2. ASSUME free' = free, DOMAIN checkedOut \subseteq DOMAIN checkedOut' PROVE EveryPlaceKnown'
  BY <1>2 DEF EveryPlaceKnown, Free
<1>3. ASSUME NEW q \in Queries, Acquire(q) PROVE EveryPlaceKnown'
  <2> DEFINE conn == Last(free)
  <2>1. free # << >> /\ free' = Front(free) /\ checkedOut' = Put(checkedOut, conn.id, conn)
    BY <1>3 DEF Acquire
  <2>2. /\ Len(free) \in Nat /\ DOMAIN free = 1 .. Len(free) /\ conn = free[Len(free)]
        /\ DOMAIN free' = 1 .. Len(free) - 1
        /\ \A i \in 1 .. Len(free) - 1 : free'[i] = free[i]
    BY <1>1, <2>1, Types, FrontFacts
  <2> HIDE DEF conn
  <2>3. DOMAIN checkedOut' = DOMAIN checkedOut \cup { conn.id }
    BY <2>1 DEF Put
  <2>4. \A id \in Ids : Free(id) => Free(id)' \/ id = conn.id
    BY <2>2 DEF Free
  <2> QED
    BY <2>3, <2>4 DEF EveryPlaceKnown
<1>4. ASSUME NEW q \in Queries, Wait(q) \/ ExpireWaiter(q) \/ Leak(q) PROVE EveryPlaceKnown'
  BY <1>2, <1>4 DEF Wait, ExpireWaiter, Leak
<1>5. ASSUME NEW q \in Queries, Release(q) PROVE EveryPlaceKnown'
  <2>1. running[q] \in Connection
    BY <1>1, <1>5, Types DEF Release
  <2> QED
    BY <1>1, <1>2, <1>5, <2>1, PlaceGivenBack DEF Release, Put
<1>6. ASSUME NEW id \in Ids, Reap(id) PROVE EveryPlaceKnown'
  <2>1. checkedOut[id] \in Connection /\ checkedOut[id].id = id
    BY <1>6, Types DEF IInv, ConnectionsFit, Reap, Leaked
  <2> QED
    BY <1>1, <1>2, <1>6, <2>1, PlaceGivenBack DEF Reap
<1>7. CASE Recycle
  <2>1. free' = FreshPool(generation + 1) /\ generation + 1 \in 0 .. MaxRecycles
    BY <1>1, <1>7, PoolAssumption DEF Recycle, TypeOK
  <2>2. DOMAIN free' = Ids /\ \A i \in Ids : free'[i] = [id |-> i, generation |-> generation + 1]
    BY <2>1, FreshFacts
  <2>3. \A i \in Ids : free'[i].id = i
    BY <2>2
  <2> QED
    BY <2>2, <2>3 DEF EveryPlaceKnown, Free
<1>8. CASE UNCHANGED vars
  BY <1>2, <1>8 DEF vars
<1> QED
  BY <1>3, <1>4, <1>5, <1>6, <1>7, <1>8 DEF Next

\* Every place of the pool has a free connection, or one in use, or one that the
\* leak detection finds: the step that PlacesComeBack asks of the reaper is one
\* that it can take, whatever was recycled while queries ran.
THEOREM PlacesCorrect ==
  Spec => [](\A id \in Ids : \/ \E i \in DOMAIN free : free[i].id = id
                             \/ \E q \in DOMAIN running : running[q].id = id
                             \/ Leaked(id))
<1> DEFINE Kept == \A id \in Ids : \/ \E i \in DOMAIN free : free[i].id = id
                                   \/ \E q \in DOMAIN running : running[q].id = id
                                   \/ Leaked(id)
<1>1. Init => EveryPlaceKnown
  <2> SUFFICES ASSUME Init PROVE EveryPlaceKnown
    OBVIOUS
  <2>1. free = FreshPool(0) /\ 0 \in 0 .. MaxRecycles
    BY PoolAssumption DEF Init
  <2>2. DOMAIN free = Ids /\ \A i \in Ids : free[i] = [id |-> i, generation |-> 0]
    BY <2>1, FreshFacts
  <2>3. \A i \in Ids : free[i].id = i
    BY <2>2
  <2> QED
    BY <2>2, <2>3 DEF EveryPlaceKnown, Free
<1>2. IInv /\ EveryPlaceKnown => Kept
  <2> SUFFICES ASSUME IInv, NEW id \in DOMAIN checkedOut, ~Leaked(id)
               PROVE  \E q \in DOMAIN running : running[q].id = id
    BY DEF EveryPlaceKnown, Free
  <2>1. PICK q \in DOMAIN running : running[q] = checkedOut[id]
    BY DEF Leaked
  <2> QED
    BY <2>1 DEF IInv, ConnectionsFit
<1>3. Spec => []EveryPlaceKnown
  BY <1>1, NextPlaces, Invariant, PTL DEF Spec
<1> QED
  BY <1>2, <1>3, Invariant, PTL
=============================================================================
