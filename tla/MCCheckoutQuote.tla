---------------------------- MODULE MCCheckoutQuote ----------------------------
(* A hot and a cold SKU; an order for both, two that each want more than    *)
(* half of the cold stock, and one that has two lines for it.  Quantities   *)
(* are scaled down and keep their order: floors below the orders' demand,   *)
(* the inflated view above it, the restored stock in between.               *)
EXTENDS CheckoutQuote

CONSTANTS hot, cold, o1, o2, o3, o4

MCSeed == [s \in Skus |-> 3]

MCCartOf ==
  [o \in Orders |->
     CASE o = o1 -> << [sku |-> hot, quantity |-> 2], [sku |-> cold, quantity |-> 1] >>
       [] o = o2 -> << [sku |-> cold, quantity |-> 2] >>
       [] o = o3 -> << [sku |-> cold, quantity |-> 2] >>
       [] o = o4 -> << [sku |-> cold, quantity |-> 1], [sku |-> cold, quantity |-> 1] >>]

MCOversellFloors == { 1, 2 }
=============================================================================
