--------------------------- MODULE MCOrderIntake ---------------------------
(* Three requests of one customer with one key, as duplicate-order-storm    *)
(* sends them, a fourth of another customer who happens to use the same     *)
(* key, and a fifth without a key.                                          *)
EXTENDS OrderIntake

CONSTANTS r1, r2, r3, r4, r5, k1, alice, bob

MCKeyOf == [r \in Requests |-> IF r = r5 THEN NoKey ELSE k1]
MCCustomerOf == [r \in Requests |-> IF r = r4 THEN bob ELSE alice]
=============================================================================
