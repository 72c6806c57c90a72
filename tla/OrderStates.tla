---------------------------- MODULE OrderStates ----------------------------
(***************************************************************************)
(* The order states and the table of legal transitions that the pipeline   *)
(* consults before it changes an order: OrderState and TERMINAL_STATES of  *)
(* src/src/domain/order.entity.ts, TRANSITIONS and canTransition of        *)
(* src/src/domain/order-state.machine.ts.                                  *)
(***************************************************************************)

OrderState ==
  { "RECEIVED", "VALIDATED", "PRICED", "PAYMENT_AUTHORIZED", "FRAUD_CLEARED",
    "ALLOCATED", "FULFILLING", "SHIPPED", "DELIVERED",
    "REJECTED", "PRICING_FAILED", "PAYMENT_DECLINED", "FRAUD_HOLD",
    "BACKORDERED", "CANCELLED", "FAILED" }

TERMINAL_STATES == { "DELIVERED", "REJECTED", "PAYMENT_DECLINED", "CANCELLED" }

\* The edges of the table, grouped by their origin.  A state with no entry has
\* no legal transition (TRANSITIONS[from] ?? []).
TRANSITIONS ==
  ( { "RECEIVED" } \X { "VALIDATED", "REJECTED", "FAILED" } )
  \cup ( { "VALIDATED" } \X { "PRICED", "REJECTED", "FAILED" } )
  \cup ( { "PRICED" } \X { "PAYMENT_AUTHORIZED", "PRICING_FAILED",
                           "PAYMENT_DECLINED", "FAILED" } )
  \cup ( { "PRICING_FAILED" } \X { "PRICED", "REJECTED" } )
  \cup ( { "PAYMENT_AUTHORIZED" } \X { "FRAUD_CLEARED", "FRAUD_HOLD", "FAILED" } )
  \cup ( { "FRAUD_HOLD" } \X { "FRAUD_CLEARED", "CANCELLED" } )
  \cup ( { "FRAUD_CLEARED" } \X { "ALLOCATED", "BACKORDERED", "FAILED" } )
  \cup ( { "BACKORDERED" } \X { "ALLOCATED", "CANCELLED" } )
  \cup ( { "ALLOCATED" } \X { "FULFILLING", "FAILED" } )
  \cup ( { "FULFILLING" } \X { "SHIPPED", "FAILED" } )
  \cup ( { "SHIPPED" } \X { "DELIVERED", "FAILED" } )

\* Mutant: the table has no edge for a released fraud hold.
CanTransitionNoRelease(from, to) ==
  << from, to >> \in TRANSITIONS \ { << "FRAUD_HOLD", "FRAUD_CLEARED" >> }

CanTransition(from, to) == <<from, to>> \in TRANSITIONS

\* Nothing will happen to the order any more: terminal, or dead-lettered.
Settled(s) == s \in TERMINAL_STATES \cup { "FAILED" }
=============================================================================
