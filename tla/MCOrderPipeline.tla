-------------------------- MODULE MCOrderPipeline --------------------------
(* One order against every answer of the services, with the limits of the  *)
(* code.  Orders share nothing in this module, so one order shows what any  *)
(* number of them does.                                                     *)
EXTENDS OrderPipeline

\* A free order, an order whose tax is an exact half cent ($2.00 * 1.0825 is
\* 2.165), and one whose tax is not.
MCGoodsTotals == { 0, 200, 9999 }

\* FREESHIP's first tier and VIP20's first tier.
MCDiscountRates == { 8, 20 }
=============================================================================
