--------------------------- MODULE ScenarioEngine ---------------------------
(***************************************************************************)
(* ScenarioEngine: the registry of failure scenarios that the simulated    *)
(* dependencies consult, with the operator tools that act through it       *)
(* (OpsToolsService.rollbackRelease and recycleDbPool).                    *)
(*                                                                         *)
(* Two scenarios have hooks that change other state: bad-deploy-npe the    *)
(* version that is served, db-pool-exhaustion the connection pool, which   *)
(* its onStop recycles.  Time passes in minutes, in which durations are    *)
(* given; a timer that is due fires before more time passes.  setTimeout   *)
(* takes delays of up to 2^31 - 1 ms and fires at once for longer ones.    *)
(***************************************************************************)
EXTENDS Naturals

CONSTANTS
  Names,                \* registered scenarios
  BadDeploy,            \* "bad-deploy-npe"
  PoolExhaustion,       \* "db-pool-exhaustion"
  Durations,            \* durationMinutes an operator asks for
  LongestTimer,         \* minutes setTimeout can wait
  STABLE_VERSION,
  BAD_VERSION,          \* "1.5.0"
  MaxExhaustions,       \* bound on the activations of db-pool-exhaustion
  MaxDirect             \* bound on the operator's recycles without it

ASSUME ScenariosAssumption ==
  /\ BadDeploy \in Names /\ PoolExhaustion \in Names /\ BadDeploy # PoolExhaustion
  /\ Durations \subseteq Nat \ {0}
  /\ LongestTimer \in Nat
  /\ STABLE_VERSION # BAD_VERSION
  /\ MaxExhaustions \in Nat /\ MaxDirect \in Nat

VARIABLES
  active,       \* scenarios with an activation
  duration,     \* what the activation of each was asked for
  elapsed,      \* how long ago it started, up to its duration
  timers,       \* in how many minutes the timers of each fire
  version,      \* runtimeState.version
  recycles,     \* calls of DbPool.recycle so far
  \* History, no variables of the code:
  exhaustions,  \* activations of db-pool-exhaustion so far
  direct        \* recycles of the operator so far that ended none

vars == << active, duration, elapsed, timers, version, recycles, exhaustions, direct >>

Init ==
  /\ active = {}
  /\ duration = [n \in Names |-> 0]
  /\ elapsed = [n \in Names |-> 0]
  /\ timers = [n \in Names |-> {}]
  /\ version = STABLE_VERSION
  /\ recycles = 0 /\ exhaustions = 0 /\ direct = 0

\* onStop of db-pool-exhaustion, if it is active and stopped.
HookOfExhaustion(stopped) ==
  recycles' = IF PoolExhaustion \in stopped \cap active THEN recycles + 1 ELSE recycles

\* onStop of bad-deploy-npe, if it is.
HookOfBadDeploy(stopped) ==
  version' = IF BadDeploy \in stopped \cap active THEN STABLE_VERSION ELSE version

\* stop, for the scenarios in S: the timer that the map has for each is cleared.
StopAllOf(S) ==
  /\ active' = active \ S
  /\ timers' = [n \in Names |-> IF n \in S THEN {} ELSE timers[n]]
  /\ HookOfExhaustion(S)
  /\ HookOfBadDeploy(S)
  /\ UNCHANGED << duration, elapsed, exhaustions, direct >>

Stop(n) == StopAllOf({ n })

StopAll == StopAllOf(active)

\* When the timer of an activation of d minutes fires.
DelayOf(d) == IF d > LongestTimer THEN 0 ELSE d

CountExhaustion(n) ==
  /\ n = PoolExhaustion => exhaustions < MaxExhaustions
  /\ exhaustions' = IF n = PoolExhaustion THEN exhaustions + 1 ELSE exhaustions

\* Mutant: the hook of start runs before the old activation is stopped.
StartHookFirst(n, d) ==
  /\ active' = active \cup { n }
  /\ duration' = [duration EXCEPT ![n] = d]
  /\ elapsed' = [elapsed EXCEPT ![n] = 0]
  /\ timers' = [timers EXCEPT ![n] = { DelayOf(d) }]
  /\ version' = IF n # BadDeploy THEN version
                ELSE IF n \in active THEN STABLE_VERSION ELSE BAD_VERSION
  /\ HookOfExhaustion({ n })
  /\ CountExhaustion(n)
  /\ UNCHANGED direct

\* Mutant: an activation there is is overwritten, and not stopped.
StartWithoutStop(n, d) ==
  /\ active' = active \cup { n }
  /\ duration' = [duration EXCEPT ![n] = d]
  /\ elapsed' = [elapsed EXCEPT ![n] = 0]
  /\ timers' = [timers EXCEPT ![n] = @ \cup { DelayOf(d) }]
  /\ version' = IF n = BadDeploy THEN BAD_VERSION ELSE version
  /\ CountExhaustion(n)
  /\ UNCHANGED << recycles, direct >>

\* start: an activation there is is stopped first, its timer and hooks included.
Start(n, d) ==
  /\ active' = active \cup { n }
  /\ duration' = [duration EXCEPT ![n] = d]
  /\ elapsed' = [elapsed EXCEPT ![n] = 0]
  /\ timers' = [timers EXCEPT ![n] = { DelayOf(d) }]
  /\ version' = IF n = BadDeploy THEN BAD_VERSION ELSE version
  /\ HookOfExhaustion({ n })
  /\ CountExhaustion(n)
  /\ UNCHANGED direct

Due(n) == 0 \in timers[n]

\* Mutant: the timer's callback does nothing.
ExpireIgnored(n) == Due(n) /\ UNCHANGED vars

Expire(n) == Due(n) /\ Stop(n)

Minute ==
  /\ \A n \in Names : ~Due(n)
  /\ elapsed' = [n \in Names |-> IF n \in active /\ elapsed[n] < duration[n]
                                 THEN elapsed[n] + 1 ELSE elapsed[n]]
  /\ timers' = [n \in Names |-> { k - 1 : k \in timers[n] }]
  /\ UNCHANGED << active, duration, version, recycles, exhaustions, direct >>

RollbackRelease ==
  /\ BadDeploy \in active
  /\ Stop(BadDeploy)

\* recycleDbPool: through the hook of the scenario, or directly.
RecycleDbPool ==
  IF PoolExhaustion \in active
  THEN Stop(PoolExhaustion)
  ELSE /\ direct < MaxDirect
       /\ direct' = direct + 1
       /\ recycles' = recycles + 1
       /\ UNCHANGED << active, duration, elapsed, timers, version, exhaustions >>

Next ==
  \/ \E n \in Names : \/ Stop(n) \/ Expire(n)
                      \/ \E d \in Durations : Start(n, d)
  \/ StopAll \/ Minute \/ RollbackRelease \/ RecycleDbPool

\* Time passes and timers fire; operators do as they like.
Fairness == WF_vars(Minute) /\ \A n \in Names : WF_vars(Expire(n))

Spec == Init /\ [][Next]_vars /\ Fairness

-----------------------------------------------------------------------------
(* Properties.                                                             *)

\* The variables have their types.
TypeOK ==
  /\ active \subseteq Names
  /\ duration \in [Names -> Durations \cup { 0 }]
  /\ elapsed \in [Names -> Nat] /\ \A n \in Names : elapsed[n] <= duration[n]
  /\ timers \in [Names -> SUBSET Nat]
  /\ version \in { STABLE_VERSION, BAD_VERSION }
  /\ recycles \in Nat /\ exhaustions \in Nat /\ direct \in Nat

\* The bad release is served exactly while its scenario is active: a restart,
\* an expiry or a rollback in any order does not leave the wrong one behind.
BadReleaseIffActive == version = BAD_VERSION <=> BadDeploy \in active

\* A timer belongs to the activation it was set for and does not outlive it: a
\* scenario that was restarted is not ended by a timer of its predecessor, and runs
\* for the time it announced, if a timer can wait that long.
TimersAreOfTheirActivation ==
  \A n \in Names :
    /\ n \notin active => timers[n] = {}
    /\ n \in active /\ duration[n] <= LongestTimer => timers[n] = { duration[n] - elapsed[n] }

\* Whichever way an exhaustion of the pool ends, stopped, expired, restarted or
\* recycled by the operator, the pool is recycled for it, and once: there have been
\* as many recycles as ended exhaustions and direct calls.
EveryExhaustionRecycles ==
  recycles + (IF PoolExhaustion \in active THEN 1 ELSE 0) = exhaustions + direct

\* Once the operator leaves off starting scenarios, every one of them ends.
ActivationsExpire ==
  \/ \A n \in Names : []<>(n \notin active)
  \/ []<><< \E n \in Names, d \in Durations : Start(n, d) >>_vars
=============================================================================
