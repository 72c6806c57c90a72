------------------------------- MODULE DbPool -------------------------------
(***************************************************************************)
(* DbPool: the fixed set of connections that every order query goes        *)
(* through.                                                                *)
(*                                                                         *)
(* A connection object is a record of its id and of the generation of the  *)
(* pool it was made for: recycle() makes new objects with the old ids,     *)
(* while queries still hold the old ones.  A query is runQuery(): it       *)
(* acquires a connection or waits for one, uses it across an await, and    *)
(* releases it, unless its result is empty.                                *)
(***************************************************************************)
EXTENDS Integers, Sequences, FiniteSets, SequencesExt

CONSTANTS
  Queries,          \* queries that may run at the same time
  POOL_SIZE,
  MaxRecycles       \* bound on the operator's recycles

ASSUME PoolAssumption == POOL_SIZE \in Nat \ {0} /\ MaxRecycles \in Nat

VARIABLES
  free,             \* stack of connections
  waiters,          \* queue of queries
  checkedOut,       \* connection by id, for the ids that have an entry
  inUse,
  running,          \* connection by query, for the queries that have one
  generation        \* recycles so far

vars == << free, waiters, checkedOut, inUse, running, generation >>

Ids == 1 .. POOL_SIZE
Connection == [id : Ids, generation : 0 .. MaxRecycles]

\* Mutant: the ids start at 0.
FreshPoolFromZero(g) == [i \in Ids |-> [id |-> i - 1, generation |-> g]]

\* makeConnection, for each place of the pool.
FreshPool(g) == [i \in Ids |-> [id |-> i, generation |-> g]]

Init ==
  /\ free = FreshPool(0)
  /\ waiters = << >>
  /\ checkedOut = << >>
  /\ inUse = 0
  /\ running = << >>
  /\ generation = 0

\* Map.set and Map.delete
Put(f, k, v) == [x \in DOMAIN f \cup { k } |-> IF x = k THEN v ELSE f[x]]
Delete(f, k) == [x \in DOMAIN f \ { k } |-> f[x]]

Idle(q) == q \notin DOMAIN running /\ ~Contains(waiters, q)

-----------------------------------------------------------------------------

\* Mutant: inUse is not incremented.
AcquireUncounted(q) ==
  /\ Idle(q)
  /\ free # << >>
  /\ LET conn == Last(free)
     IN  /\ free' = Front(free)
         /\ checkedOut' = Put(checkedOut, conn.id, conn)
         /\ running' = Put(running, q, conn)
  /\ UNCHANGED << waiters, inUse, generation >>

\* acquire with a free connection: free.pop().
Acquire(q) ==
  /\ Idle(q)
  /\ free # << >>
  /\ LET conn == Last(free)
     IN  /\ free' = Front(free)
         /\ inUse' = inUse + 1
         /\ checkedOut' = Put(checkedOut, conn.id, conn)
         /\ running' = Put(running, q, conn)
  /\ UNCHANGED << waiters, generation >>

\* acquire without one.
Wait(q) ==
  /\ Idle(q)
  /\ free = << >>
  /\ waiters' = Append(waiters, q)
  /\ UNCHANGED << free, checkedOut, inUse, running, generation >>

\* expireWaiter, after ACQUIRE_TIMEOUT_MS: the query fails.
ExpireWaiter(q) ==
  /\ \E i \in DOMAIN waiters : waiters[i] = q /\ waiters' = RemoveAt(waiters, i)
  /\ UNCHANGED << free, checkedOut, inUse, running, generation >>

\* Mutant: released connections go on the stack, whoever waits.
ReleaseForgetsWaiters(q) ==
  /\ q \in DOMAIN running
  /\ checkedOut' = Delete(checkedOut, running[q].id)
  /\ inUse' = inUse - 1
  /\ free' = Append(free, running[q])
  /\ running' = Delete(running, q)
  /\ UNCHANGED << waiters, generation >>

\* runQuery ends with rows and releases its connection: returnToPool.
Release(q) ==
  /\ q \in DOMAIN running
  /\ LET conn == running[q]
     IN  IF waiters # << >>
         THEN /\ waiters' = Tail(waiters)
              /\ checkedOut' = Put(checkedOut, conn.id, conn)
              /\ running' = Put(Delete(running, q), Head(waiters), conn)
              /\ UNCHANGED << free, inUse >>
         ELSE /\ checkedOut' = Delete(checkedOut, conn.id)
              /\ inUse' = inUse - 1
              /\ free' = Append(free, conn)
              /\ running' = Delete(running, q)
              /\ UNCHANGED waiters
  /\ UNCHANGED generation

\* runQuery ends without rows and keeps its connection.
Leak(q) ==
  /\ q \in DOMAIN running
  /\ running' = Delete(running, q)
  /\ UNCHANGED << free, waiters, checkedOut, inUse, generation >>

\* Mutant: every entry is taken for a leak.
LeakedOrBusy(id) == id \in DOMAIN checkedOut

\* No running query holds the connection of the entry.  Queries last
\* milliseconds, so these are the entries that get to be 60 s old.
Leaked(id) ==
  /\ id \in DOMAIN checkedOut
  /\ \A q \in DOMAIN running : running[q] # checkedOut[id]

\* Mutant: leaks are only looked for while somebody waits.
ReapForWaiters(id) ==
  /\ Leaked(id)
  /\ waiters # << >>
  /\ waiters' = Tail(waiters)
  /\ running' = Put(running, Head(waiters), checkedOut[id])
  /\ UNCHANGED << free, checkedOut, inUse, generation >>

\* reapLeakedConnections, one entry of its loop: the connection goes on the
\* stack, and from there to the first waiter, if there is one.
Reap(id) ==
  /\ Leaked(id)
  /\ LET conn == checkedOut[id]
     IN  IF waiters # << >>
         THEN /\ waiters' = Tail(waiters)
              /\ running' = Put(running, Head(waiters), conn)
              /\ UNCHANGED << free, checkedOut, inUse >>
         ELSE /\ checkedOut' = Delete(checkedOut, id)
              /\ inUse' = inUse - 1
              /\ free' = Append(free, conn)
              /\ UNCHANGED << waiters, running >>
  /\ UNCHANGED generation

\* The operator's recycle: waiters are rejected, queries that run keep the
\* connections they have.
Recycle ==
  /\ generation < MaxRecycles
  /\ generation' = generation + 1
  /\ waiters' = << >>
  /\ free' = FreshPool(generation + 1)
  /\ checkedOut' = << >>
  /\ inUse' = 0
  /\ UNCHANGED running

Next ==
  \/ \E q \in Queries : Acquire(q) \/ Wait(q) \/ ExpireWaiter(q) \/ Release(q) \/ Leak(q)
  \/ \E id \in Ids : Reap(id)
  \/ Recycle

\* Timers of waiters expire, and the leak detection of every 30 s gets to an
\* entry that stays leaked.  Nobody has to query or to recycle, and that queries
\* end is not relied on.
Fairness ==
  /\ \A q \in Queries : WF_vars(ExpireWaiter(q))
  /\ \A id \in Ids : WF_vars(Reap(id))

Spec == Init /\ [][Next]_vars /\ Fairness

-----------------------------------------------------------------------------
(* Properties.                                                             *)

\* The pool's variables have their types.
TypeOK ==
  /\ free \in Seq(Connection)
  /\ waiters \in Seq(Queries)
  /\ DOMAIN checkedOut \subseteq Ids /\ Range(checkedOut) \subseteq Connection
  /\ inUse \in Int
  /\ DOMAIN running \subseteq Queries /\ Range(running) \subseteq Connection
  /\ generation \in 0 .. MaxRecycles

\* A connection is never in two hands: two queries never run on the same one,
\* and none runs on a free one.  Hand-overs, reaps and recycles included.
OneHolder ==
  /\ \A p, q \in DOMAIN running : running[p] = running[q] => p = q
  /\ \A q \in DOMAIN running : ~Contains(free, running[q])
  /\ \A i, j \in DOMAIN free : free[i] = free[j] => i = j

\* Nobody waits while a connection is free: no release, reap or recycle leaves
\* a waiter behind.
NoNeedlessWait == waiters # << >> => free = << >>

\* As long as nobody recycles, the pool keeps its size and its books: every id
\* is free or checked out, never both, and inUse counts the entries; leaks and
\* reaps only move connections between the two sides.
BooksBalance ==
  generation = 0 =>
    /\ { free[i].id : i \in DOMAIN free } \cup DOMAIN checkedOut = Ids
    /\ { free[i].id : i \in DOMAIN free } \cap DOMAIN checkedOut = {}
    /\ inUse = Cardinality(DOMAIN checkedOut)
    /\ Len(free) + inUse = POOL_SIZE

\* No place of the pool is out of use for good: whatever was leaked, recycled and
\* handed back under another generation, a connection of each id is free or in use
\* again and again.  (Not every connection object: one that is leaked while an older
\* one of its id is still in use is forgotten when the older one is released, which
\* deletes the entry of the id; the older one then has the place.)
PlacesComeBack ==
  \A id \in Ids :
    []<>( \/ \E i \in DOMAIN free : free[i].id = id
          \/ \E q \in DOMAIN running : running[q].id = id )

-----------------------------------------------------------------------------
(* What a comment of the code says, and the code does not do.              *)

\* "Fixed-size connection pool": there are never more connections free than
\* the pool has, and never fewer than none in use.
FixedSize == Len(free) <= POOL_SIZE /\ inUse >= 0
=============================================================================
