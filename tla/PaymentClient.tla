--------------------------- MODULE PaymentClient ---------------------------
(***************************************************************************)
(* PaymentClient.throughBreaker: the circuit breaker that authorizations   *)
(* and captures share on their way to the payment gateway, and the gateway *)
(* behind it (PaymentGatewaySim.roundTrip).                                *)
(*                                                                         *)
(* Several calls are in flight at once and end in any order; the breaker   *)
(* is read when a call starts and read again, by then changed, when the    *)
(* call ends.  Time passes in ticks of the gateway's timeout: no call is   *)
(* in flight for longer than TIMEOUT_TICKS, an open breaker rejects calls  *)
(* for RESET_TICKS.                                                        *)
(***************************************************************************)
EXTENDS Naturals

CONSTANTS
  Calls,                 \* calls that may be in flight at the same time
  BREAKER_THRESHOLD,
  RESET_TICKS,           \* BREAKER_RESET_MS
  TIMEOUT_TICKS,         \* the gateway's 10 s
  MaxFailures            \* the failures in a row are counted up to here

\* The code only compares the counter with BREAKER_THRESHOLD, so a counter that
\* stops above it behaves as one that does not.
ASSUME BreakerAssumption ==
  /\ BREAKER_THRESHOLD \in Nat \ {0}
  /\ RESET_TICKS \in Nat
  /\ TIMEOUT_TICKS \in Nat
  /\ MaxFailures \in Nat /\ MaxFailures >= BREAKER_THRESHOLD

VARIABLES
  breaker,
  consecutiveFailures,
  sinceOpened,           \* Date.now() - openedAt, up to RESET_TICKS
  inFlight,              \* calls the gateway has not answered
  doomed,                \* those of them that will fail
  age,                   \* how long the gateway has had a call, 0 of the others
  faulty                 \* an outage is active, or the baseline noise is on

vars == << breaker, consecutiveFailures, sinceOpened, inFlight, doomed, age, faulty >>

Init ==
  /\ breaker = "closed"
  /\ consecutiveFailures = 0
  /\ sinceOpened = RESET_TICKS
  /\ inFlight = {}
  /\ doomed = {}
  /\ age = [c \in Calls |-> 0]
  /\ faulty \in BOOLEAN

\* Calls are then refused with CircuitOpenError, which changes nothing here.
Rejecting == breaker = "open" /\ sinceOpened < RESET_TICKS

\* throughBreaker up to its await, for a call that is let through; roundTrip
\* rolls the fate of the call when it starts.
CallGateway(c) ==
  /\ c \notin inFlight
  /\ ~Rejecting
  /\ breaker' = IF breaker = "open" THEN "half-open" ELSE breaker
  /\ inFlight' = inFlight \cup { c }
  /\ \/ doomed' = doomed
     \/ faulty /\ doomed' = doomed \cup { c }
  /\ UNCHANGED << consecutiveFailures, sinceOpened, age, faulty >>

\* Mutant: the fate of a call outlives it.
EndedStillDoomed(c) ==
  /\ inFlight' = inFlight \ { c }
  /\ age' = [age EXCEPT ![c] = 0]
  /\ UNCHANGED << doomed, faulty >>

Ended(c) ==
  /\ inFlight' = inFlight \ { c }
  /\ doomed' = doomed \ { c }
  /\ age' = [age EXCEPT ![c] = 0]
  /\ UNCHANGED faulty

\* Mutant: success does not reset the counter.
SucceedKeepsCount(c) ==
  /\ c \in inFlight \ doomed
  /\ Ended(c)
  /\ breaker' = "closed"
  /\ UNCHANGED << consecutiveFailures, sinceOpened >>

\* Mutant: success resets the counter and leaves the breaker as it is.
SucceedKeepsBreaker(c) ==
  /\ c \in inFlight \ doomed
  /\ Ended(c)
  /\ consecutiveFailures' = 0
  /\ UNCHANGED << breaker, sinceOpened >>

Succeed(c) ==
  /\ c \in inFlight \ doomed
  /\ Ended(c)
  /\ breaker' = "closed"
  /\ consecutiveFailures' = 0
  /\ UNCHANGED sinceOpened

\* A 502 after a moment, or a timeout after TIMEOUT_TICKS.
Fail(c) ==
  /\ c \in inFlight \cap doomed
  /\ Ended(c)
  /\ consecutiveFailures' = IF consecutiveFailures < MaxFailures
                            THEN consecutiveFailures + 1 ELSE consecutiveFailures
  /\ IF \/ breaker = "half-open"
        \/ breaker = "closed" /\ consecutiveFailures' >= BREAKER_THRESHOLD
     THEN breaker' = "open" /\ sinceOpened' = 0
     ELSE UNCHANGED << breaker, sinceOpened >>

\* Time passes while no call is overdue.
Tick ==
  /\ \A c \in inFlight : age[c] < TIMEOUT_TICKS
  /\ age' = [c \in Calls |-> IF c \in inFlight THEN age[c] + 1 ELSE age[c]]
  /\ sinceOpened' = IF sinceOpened < RESET_TICKS THEN sinceOpened + 1 ELSE sinceOpened
  /\ UNCHANGED << breaker, consecutiveFailures, inFlight, doomed, faulty >>

\* The outage scenario is started, and stopped or expires.
ToggleFaults ==
  /\ faulty' = ~faulty
  /\ UNCHANGED << breaker, consecutiveFailures, sinceOpened, inFlight, doomed, age >>

Next ==
  \/ \E c \in Calls : CallGateway(c) \/ Succeed(c) \/ Fail(c)
  \/ Tick \/ ToggleFaults

\* Calls are answered, time passes, and (the storefront does not go away) there
\* is always another call to make.  Faults come and go as they like.
Fairness ==
  /\ WF_vars(Tick)
  /\ \A c \in Calls : WF_vars(CallGateway(c)) /\ WF_vars(Succeed(c) \/ Fail(c))

Spec == Init /\ [][Next]_vars /\ Fairness

-----------------------------------------------------------------------------
(* Properties.                                                             *)

\* The breaker's variables have their types; only calls in flight are doomed.
TypeOK ==
  /\ breaker \in { "closed", "open", "half-open" }
  /\ consecutiveFailures \in 0 .. MaxFailures
  /\ sinceOpened \in 0 .. RESET_TICKS
  /\ inFlight \subseteq Calls
  /\ doomed \subseteq inFlight
  /\ age \in [Calls -> 0 .. TIMEOUT_TICKS]
  /\ faulty \in BOOLEAN

\* The breaker and the counter it is derived from never disagree, whichever
\* late answers arrive in whichever breaker state: it is closed exactly while
\* fewer than BREAKER_THRESHOLD calls in a row have failed.
ClosedIffFewFailures ==
  breaker = "closed" <=> consecutiveFailures < BREAKER_THRESHOLD

\* A half-open breaker awaits an answer that settles it: late answers of calls made
\* before it opened may settle it too, and none leaves it half-open with nobody out.
HalfOpenAwaitsAnswer == breaker = "half-open" => inFlight # {} /\ sinceOpened = RESET_TICKS

\* Once the faults are over for good, the breaker closes and stays closed: no
\* interleaving of probes and late failures keeps it open.
RecoversAfterOutage == <>[]~faulty => <>[](breaker = "closed")
=============================================================================
