--------------------------- MODULE OrderLifecycle ---------------------------
(***************************************************************************)
(* What the order pipeline promises to whoever submits an order, without   *)
(* retries, holds and backorders: a submitted order passes the stages of   *)
(* the lifecycle one at a time and in order, leaves them at most once with *)
(* a verdict that fits the stage, keeps that verdict, and does get one.    *)
(***************************************************************************)
EXTENDS Naturals

CONSTANT Orders

VARIABLE status

NextStage ==
  [ submitted  |-> "accepted",
    accepted   |-> "priced",
    priced     |-> "paid",
    paid       |-> "cleared",
    cleared    |-> "allocated",
    allocated  |-> "fulfilling",
    fulfilling |-> "shipped",
    shipped    |-> "delivered" ]

\* The verdicts other than delivery, by the stage they are given at: a shipped
\* order can only be delivered, an allocated one only goes on.
Verdicts ==
  [ submitted  |-> { "rejected" },
    accepted   |-> { "rejected" },
    priced     |-> { "declined", "failed" },
    paid       |-> { "cancelled" },
    cleared    |-> { "cancelled", "failed" },
    allocated  |-> {},
    fulfilling |-> { "failed" },
    shipped    |-> {} ]

Stage == DOMAIN NextStage
Verdict == { "delivered", "rejected", "declined", "cancelled", "failed" }

Init == status = [o \in Orders |-> "new"]

Submit(o) ==
  /\ status[o] = "new"
  /\ status' = [status EXCEPT ![o] = "submitted"]

Advance(o) ==
  /\ status[o] \in Stage
  /\ status' = [status EXCEPT ![o] = NextStage[status[o]]]

Close(o) ==
  /\ status[o] \in Stage
  /\ \E v \in Verdicts[status[o]] : status' = [status EXCEPT ![o] = v]

Next == \E o \in Orders : Submit(o) \/ Advance(o) \/ Close(o)

Spec ==
  /\ Init /\ [][Next]_status
  /\ \A o \in Orders : WF_status(Advance(o) \/ Close(o))
=============================================================================
