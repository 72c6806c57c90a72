------------------------ MODULE ScenarioEngine_proofs ------------------------
(* That every activation has its own timer, the bad release is served       *)
(* exactly while its scenario is active, and every exhaustion of the pool   *)
(* recycles it once, for any scenarios and durations.                       *)
EXTENDS ScenarioEngine, TLAPS

\* What any step leaves behind: types, the release that is served, the timers of
\* the activations and the recycles of those that have ended.
IInv == TypeOK /\ BadReleaseIffActive /\ TimersAreOfTheirActivation /\ EveryExhaustionRecycles

\* Initially nothing is active and the stable release is served.
LEMMA InitIInv == Init => IInv
  BY ScenariosAssumption DEF Init, IInv, TypeOK, BadReleaseIffActive, TimersAreOfTheirActivation,
                             EveryExhaustionRecycles

\* Stopping scenarios, for whatever reason, takes their timers with them, brings the
\* stable release back if the bad one is among them, and recycles an exhausted pool.
LEMMA StopIInv ==
  ASSUME IInv, NEW S \in SUBSET Names, StopAllOf(S)
  PROVE  IInv'
<1> USE ScenariosAssumption DEF IInv, StopAllOf, HookOfExhaustion, HookOfBadDeploy
<1>1. TypeOK' BY DEF TypeOK
<1>2. BadReleaseIffActive' BY DEF TypeOK, BadReleaseIffActive
<1>3. TimersAreOfTheirActivation' BY DEF TypeOK, TimersAreOfTheirActivation
<1>4. EveryExhaustionRecycles' BY DEF TypeOK, EveryExhaustionRecycles
<1> QED BY <1>1, <1>2, <1>3, <1>4

\* Starting a scenario replaces its timer and, for a restart, leaves the bad
\* release in place although the old activation has been stopped, and recycles
\* the pool that the old activation has exhausted.
LEMMA StartIInv ==
  ASSUME IInv, NEW n \in Names, NEW d \in Durations, Start(n, d)
  PROVE  IInv'
<1> USE ScenariosAssumption DEF IInv, Start, DelayOf, HookOfExhaustion, CountExhaustion
<1>1. TypeOK' BY DEF TypeOK
<1>2. BadReleaseIffActive' BY DEF TypeOK, BadReleaseIffActive
<1>3. TimersAreOfTheirActivation' BY DEF TypeOK, TimersAreOfTheirActivation
<1>4. EveryExhaustionRecycles' BY DEF TypeOK, EveryExhaustionRecycles
<1> QED BY <1>1, <1>2, <1>3, <1>4

\* Time takes as much from the timers as it adds to the age of the activations.
LEMMA MinuteIInv ==
  ASSUME IInv, Minute
  PROVE  IInv'
<1>0. \A n \in Names : duration[n] \in Nat
  <2>1. Durations \cup { 0 } \subseteq Nat
    BY ScenariosAssumption
  <2>2. duration \in [Names -> Durations \cup { 0 }]
    BY DEF IInv, TypeOK
  <2> QED BY <2>1, <2>2
<1> USE ScenariosAssumption DEF IInv, Minute, Due
<1>1. TypeOK'
  <2>1. ASSUME NEW n \in Names
        PROVE  elapsed'[n] \in Nat /\ elapsed'[n] <= duration'[n]
    BY <1>0 DEF TypeOK
  <2>2. ASSUME NEW n \in Names, NEW k \in timers[n]
        PROVE  k - 1 \in Nat
    BY DEF TypeOK
  <2>3. timers' \in [Names -> SUBSET Nat]
    BY <2>2
  <2>4. elapsed' \in [Names -> Nat] /\ \A n \in Names : elapsed'[n] <= duration'[n]
    BY <2>1
  <2> QED BY <2>3, <2>4 DEF TypeOK
<1>2. BadReleaseIffActive' BY DEF BadReleaseIffActive
<1>3. TimersAreOfTheirActivation'
  <2>1. ASSUME NEW n \in Names, n \notin active PROVE timers'[n] = {}
    BY <2>1 DEF TypeOK, TimersAreOfTheirActivation
  <2>2. ASSUME NEW n \in Names, n \in active, duration[n] <= LongestTimer
        PROVE  timers'[n] = { duration[n] - elapsed'[n] }
    <3>1. timers[n] = { duration[n] - elapsed[n] } /\ duration[n] - elapsed[n] # 0
      BY <2>2 DEF TimersAreOfTheirActivation
    <3>2. elapsed[n] < duration[n] /\ elapsed[n] \in Nat
      BY <1>0, <3>1 DEF TypeOK
    <3>3. elapsed'[n] = elapsed[n] + 1
      BY <2>2, <3>2
    <3>4. timers'[n] = { (duration[n] - elapsed[n]) - 1 }
      BY <3>1
    <3>5. (duration[n] - elapsed[n]) - 1 = duration[n] - elapsed'[n]
      BY <1>0, <3>2, <3>3
    <3> QED BY <3>4, <3>5
  <2> QED BY <2>1, <2>2 DEF TimersAreOfTheirActivation
<1>4. EveryExhaustionRecycles' BY DEF EveryExhaustionRecycles
<1> QED BY <1>1, <1>2, <1>3, <1>4

\* The invariant is inductive.
LEMMA NextIInv == IInv /\ [Next]_vars => IInv'
<1> SUFFICES ASSUME IInv, [Next]_vars
             PROVE  IInv'
  OBVIOUS
<1>1. ASSUME NEW n \in Names, Stop(n)
      PROVE  IInv'
  BY <1>1, StopIInv DEF Stop
<1>2. ASSUME NEW n \in Names, Expire(n)
      PROVE  IInv'
  BY <1>2, <1>1 DEF Expire
<1>3. ASSUME NEW n \in Names, NEW d \in Durations, Start(n, d)
      PROVE  IInv'
  BY <1>3, StartIInv
<1>4. CASE StopAll
  BY <1>4, StopIInv DEF StopAll, IInv, TypeOK
<1>5. CASE Minute
  BY <1>5, MinuteIInv
<1>6. CASE RollbackRelease
  BY <1>6, <1>1, ScenariosAssumption DEF RollbackRelease
<1>7. CASE RecycleDbPool
  <2>1. CASE PoolExhaustion \in active
    BY <1>7, <2>1, <1>1, ScenariosAssumption DEF RecycleDbPool
  <2>2. CASE PoolExhaustion \notin active
    BY <1>7, <2>2 DEF RecycleDbPool, IInv, TypeOK, BadReleaseIffActive,
                      TimersAreOfTheirActivation, EveryExhaustionRecycles
  <2> QED BY <2>1, <2>2
<1>8. CASE UNCHANGED vars
  BY <1>8 DEF vars, IInv, TypeOK, BadReleaseIffActive, TimersAreOfTheirActivation,
              EveryExhaustionRecycles
<1> QED BY <1>1, <1>2, <1>3, <1>4, <1>5, <1>6, <1>7, <1>8 DEF Next

\* The engine's bookkeeping in every reachable state: the timers are those of
\* the activations, the bad release is served exactly while bad-deploy-npe is
\* active, and no activation is ended by the timer of an earlier one.
THEOREM EngineCorrect == Spec => [](TypeOK /\ BadReleaseIffActive /\ TimersAreOfTheirActivation)
<1>1. IInv => TypeOK /\ BadReleaseIffActive /\ TimersAreOfTheirActivation
  BY DEF IInv
<1> QED BY <1>1, InitIInv, NextIInv, PTL DEF Spec

\* However exhaustions of the pool are started, restarted, stopped and recycled, each
\* one that has ended has recycled the pool, once.
THEOREM RecyclesCorrect == Spec => []EveryExhaustionRecycles
<1>1. IInv => EveryExhaustionRecycles
  BY DEF IInv
<1> QED BY <1>1, InitIInv, NextIInv, PTL DEF Spec
=============================================================================
