-------------------------- MODULE MCScenarioEngine --------------------------
(* The two scenarios with hooks and one without; durations that a timer can *)
(* wait (up to 2 minutes, for the 35791 of the code) and one it cannot.     *)
(* Three exhaustions of the pool, so that one is restarted and later ended  *)
(* in another way, and a recycle without one.                               *)
EXTENDS ScenarioEngine
=============================================================================
