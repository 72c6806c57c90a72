--------------------------- MODULE MCOrderTraffic ---------------------------
(* A tick of the duplicate storm (of two calls), one without a key, a late  *)
(* retry of the storm's client, and a read.  The one connection is leaked,  *)
(* waited for, reclaimed and recycled under all of them.                    *)
EXTENDS OrderTraffic

CONSTANTS r1, r2, r3, r4, q1, t1, t2, k1, alice

MCKeyOf == [r \in Requests |-> IF r = r4 THEN NoKey ELSE k1]
MCCustomerOf == [r \in Requests |-> alice]
MCCallsOf == [t \in Ticks |-> IF t = t1 THEN { r1, r2 } ELSE { r4 }]
=============================================================================
