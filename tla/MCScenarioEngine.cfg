SPECIFICATION Spec
CONSTANTS
  BadDeploy = BadDeploy
  PoolExhaustion = PoolExhaustion
  Names = { BadDeploy, PoolExhaustion, Outage }
  Durations = { 1, 2, 3 }
  LongestTimer = 2
  STABLE_VERSION = Stable
  BAD_VERSION = Bad
  MaxExhaustions = 3
  MaxDirect = 1
INVARIANTS
  BadReleaseIffActive
  TimersAreOfTheirActivation
  EveryExhaustionRecycles
PROPERTY
  ActivationsExpire
