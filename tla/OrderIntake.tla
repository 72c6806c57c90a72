---------------------------- MODULE OrderIntake ----------------------------
(***************************************************************************)
(* OrdersService.createOrder: what happens to a request between the API    *)
(* and the pipeline, with the idempotency store it claims its key in and   *)
(* the repository it saves its order to.                                   *)
(*                                                                         *)
(* A request stands for one call of createOrder and for the order that the *)
(* call builds.  It awaits the journal write of its claim, the query for   *)
(* the order that holds its key, and the query of the consistency check;   *)
(* the requests of a customer interleave at these awaits.  A query fails   *)
(* when the connection pool rejects it (module DbPool).                    *)
(***************************************************************************)

CONSTANTS
  Requests,
  Keys,
  Customers,
  CustomerOf,       \* the customer of each request
  KeyOf,            \* the key of each request, or NoKey
  NoKey

ASSUME KeysAssumption ==
  /\ NoKey \notin Keys
  /\ KeyOf \in [Requests -> Keys \cup { NoKey }]
  /\ CustomerOf \in [Requests -> Customers]

ASSUME NoKeyAssumption == NoKey \notin Requests

VARIABLES
  phase,            \* what each request waits for
  keyToOrderId,     \* IdempotencyStore: order by key, for the keys in use
  saved,            \* orders in the repository
  submitted,        \* orders handed to the pipeline
  reported,         \* orders for which duplicate_order_detected was logged
  fetching,         \* the order a deduplicated request asks for
  answer            \* the order each request was answered with

vars == << phase, keyToOrderId, saved, submitted, reported, fetching, answer >>

Phase == { "new", "journaling", "fetching", "reconciling", "answered", "failed" }
None == NoKey     \* no order

Init ==
  /\ phase = [r \in Requests |-> "new"]
  /\ keyToOrderId = [k \in Keys |-> None]
  /\ saved = {}
  /\ submitted = {}
  /\ reported = {}
  /\ fetching = [r \in Requests |-> None]
  /\ answer = [r \in Requests |-> None]

At(r, p) == phase[r] = p
Goto(r, p) == phase' = [phase EXCEPT ![r] = p]
Respond(r, o) == Goto(r, "answered") /\ answer' = [answer EXCEPT ![r] = o]

\* Without a key nothing is awaited.
CreateWithoutKey(r) ==
  /\ At(r, "new")
  /\ KeyOf[r] = NoKey
  /\ saved' = saved \cup { r }
  /\ submitted' = submitted \cup { r }
  /\ Respond(r, r)
  /\ UNCHANGED << keyToOrderId, reported, fetching >>

\* claim finds the key unused and awaits persistClaim; the key stays unused.
ClaimKey(r) ==
  /\ At(r, "new")
  /\ KeyOf[r] # NoKey
  /\ keyToOrderId[KeyOf[r]] = None
  /\ Goto(r, "journaling")
  /\ UNCHANGED << keyToOrderId, saved, submitted, reported, fetching, answer >>

\* claim finds the key used: the order that holds it now is queried.
KeyTaken(r) ==
  /\ At(r, "new")
  /\ KeyOf[r] # NoKey
  /\ keyToOrderId[KeyOf[r]] # None
  /\ fetching' = [fetching EXCEPT ![r] = keyToOrderId[KeyOf[r]]]
  /\ Goto(r, "fetching")
  /\ UNCHANGED << keyToOrderId, saved, submitted, reported, answer >>

\* Mutant: the order is not saved.
ClaimPersistedUnsaved(r) ==
  /\ At(r, "journaling")
  /\ keyToOrderId' = [keyToOrderId EXCEPT ![KeyOf[r]] = r]
  /\ Goto(r, "reconciling")
  /\ UNCHANGED << saved, submitted, reported, fetching, answer >>

\* Mutant: a claim that finds its key taken in the meantime waits for the key.
ClaimPersistedWaits(r) ==
  /\ At(r, "journaling")
  /\ keyToOrderId[KeyOf[r]] = None
  /\ keyToOrderId' = [keyToOrderId EXCEPT ![KeyOf[r]] = r]
  /\ saved' = saved \cup { r }
  /\ Goto(r, "reconciling")
  /\ UNCHANGED << submitted, reported, fetching, answer >>

\* The claim is journaled: the key is set, whoever holds it by now, the order
\* saved, and the customer's orders queried.
ClaimPersisted(r) ==
  /\ At(r, "journaling")
  /\ keyToOrderId' = [keyToOrderId EXCEPT ![KeyOf[r]] = r]
  /\ saved' = saved \cup { r }
  /\ Goto(r, "reconciling")
  /\ UNCHANGED << submitted, reported, fetching, answer >>

\* Mutant: an order that is not in the pipeline yet is not returned.
FetchedIfRunning(r) ==
  /\ At(r, "fetching")
  /\ IF fetching[r] \in submitted
     THEN Respond(r, fetching[r]) /\ UNCHANGED saved
     ELSE Goto(r, "reconciling") /\ saved' = saved \cup { r } /\ UNCHANGED answer
  /\ UNCHANGED << keyToOrderId, submitted, reported, fetching >>

\* findById: the order of the key is returned.  If it were not found the request
\* would go on to save an order of its own.
Fetched(r) ==
  /\ At(r, "fetching")
  /\ IF fetching[r] \in saved
     THEN Respond(r, fetching[r]) /\ UNCHANGED saved
     ELSE Goto(r, "reconciling") /\ saved' = saved \cup { r } /\ UNCHANGED answer
  /\ UNCHANGED << keyToOrderId, submitted, reported, fetching >>

\* Mutant: only the order that holds the key is compared with.
SiblingsByKey(r) == { s \in saved \ { r } : s = keyToOrderId[KeyOf[r]] }

\* findByCustomer, without the order itself.
Siblings(r) == { s \in saved \ { r } : CustomerOf[s] = CustomerOf[r] }

\* reconcileIdempotency: a sibling with the same key is logged, and the order
\* goes to the pipeline in any case.
Reconciled(r) ==
  /\ At(r, "reconciling")
  /\ reported' = IF \E s \in Siblings(r) : KeyOf[s] = KeyOf[r]
                 THEN reported \cup { r } ELSE reported
  /\ submitted' = submitted \cup { r }
  /\ Respond(r, r)
  /\ UNCHANGED << keyToOrderId, saved, fetching >>

\* The pool rejects either query; createOrder has no handler and throws.
QueryFails(r) ==
  /\ At(r, "fetching") \/ At(r, "reconciling")
  /\ Goto(r, "failed")
  /\ UNCHANGED << keyToOrderId, saved, submitted, reported, fetching, answer >>

Proceed(r) == ClaimPersisted(r) \/ Fetched(r) \/ Reconciled(r) \/ QueryFails(r)

Next ==
  \E r \in Requests : CreateWithoutKey(r) \/ ClaimKey(r) \/ KeyTaken(r) \/ Proceed(r)

\* Journal writes end and queries are answered or rejected; nobody has to call.
Fairness == \A r \in Requests : WF_vars(Proceed(r))

Spec == Init /\ [][Next]_vars /\ Fairness

-----------------------------------------------------------------------------
(* Properties.                                                             *)

\* The variables have their types.
TypeOK ==
  /\ phase \in [Requests -> Phase]
  /\ keyToOrderId \in [Keys -> Requests \cup { None }]
  /\ saved \subseteq Requests
  /\ submitted \subseteq saved
  /\ reported \subseteq saved
  /\ fetching \in [Requests -> Requests \cup { None }]
  /\ answer \in [Requests -> Requests \cup { None }]

SameKey(r, s) == r # s /\ KeyOf[r] = KeyOf[s] /\ KeyOf[r] # NoKey

\* Two orders of one customer and key do not both reach the pipeline unnoticed:
\* whatever the interleaving, the check of at least one of them is reported.
DuplicatesReported ==
  \A r, s \in submitted :
    SameKey(r, s) /\ CustomerOf[r] = CustomerOf[s] => r \in reported \/ s \in reported

\* A request whose key was taken when it came never adds an order of its own,
\* and is answered only with an order that has its key.
RetriesCreateNothing ==
  \A r \in Requests :
    fetching[r] # None =>
      /\ r \notin saved
      /\ answer[r] # None => answer[r] \in saved /\ KeyOf[answer[r]] = KeyOf[r]

\* Every call of createOrder ends.
EveryCallEnds ==
  \A r \in Requests : phase[r] # "new" ~> phase[r] \in { "answered", "failed" }

-----------------------------------------------------------------------------
(* What comments of the code say, and the code does not do.                *)

\* claim: a key that has been used is not used for a second order.
OneOrderPerKey == \A r, s \in saved : ~SameKey(r, s)

\* The pipeline drives every order: a caller is not answered with an order that
\* is not, and will not be, in the pipeline.
AnsweredOrdersRun ==
  \A r \in Requests :
    answer[r] # None => answer[r] \in submitted \/ phase[answer[r]] = "reconciling"
=============================================================================
