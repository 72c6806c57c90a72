------------------------ MODULE MCStuckOrderSweeper ------------------------
(* One order: orders do not meet in the sweeper.  The default threshold is  *)
(* two of the default intervals.                                            *)
EXTENDS StuckOrderSweeper
=============================================================================
