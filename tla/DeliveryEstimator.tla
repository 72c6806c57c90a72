------------------------- MODULE DeliveryEstimator -------------------------
(***************************************************************************)
(* DeliveryEstimator.estimateDelivery: the delivery promise of a shipment  *)
(* that ShippingService.arrangeShipment arranges.                          *)
(*                                                                         *)
(* The service keeps nothing; its inputs are the clock, the time zone of   *)
(* the order's warehouse and the order.  Instants are two to the minute:   *)
(* its start, and anything after it, which is all the comparisons of the   *)
(* code tell apart.  They count from a midnight UTC.                       *)
(***************************************************************************)
EXTENDS Integers

CONSTANTS
  Warehouses,       \* WAREHOUSES
  OffsetsOf,        \* local time minus UTC, winter and summer, by warehouse
  Instants,         \* readings of the clock
  UnitCounts        \* units an order may have

VARIABLE
  shipment          \* the last shipment arranged, or the attempt that failed

vars == << shipment >>

HOUR == 120
DAY == 24 * HOUR
CUTOFF == 17 * HOUR               \* the same in every warehouse

\* An order without a known warehouse ships from the first; buildOrder names the
\* second, which is not known, when the caller names none.
DEFAULT_WAREHOUSE == "US-EAST-1"
UNNAMED_WAREHOUSE == "us-east-1"

WarehouseOf(name) == IF name \in Warehouses THEN name ELSE DEFAULT_WAREHOUSE

TransitDays(domestic, units) ==
  IF ~domestic THEN 4 ELSE IF units = 1 THEN 0 ELSE 2

\* The date of an instant, and the time of day, in a zone.
DayOf(t, offset) == (t + offset) \div DAY
TimeOfDay(t, offset) == (t + offset) % DAY

BeforeCutoff(t, offset) == TimeOfDay(t, offset) < CUTOFF

\* The cutoff of today's date, both taken for UTC, and the transit from there.
Estimate(t, offset, transit) ==
  LET eta == DayOf(t, 0) * DAY + CUTOFF + transit * DAY
  IN  IF BeforeCutoff(t, offset) THEN eta ELSE eta + DAY

\* delivery_estimate_invalid
InThePast(t, offset, transit) == Estimate(t, offset, transit) < t

EstimateDelivery(t, offset, transit) ==
  IF InThePast(t, offset, transit) THEN t + 3 * DAY ELSE Estimate(t, offset, transit)

NoShipment == [carrier |-> FALSE]

Init == shipment = NoShipment

\* arrangeShipment with a carrier, for an order of any warehouse it may name.
ArrangeShipment(name, domestic, units, t, offset) ==
  LET transit == TransitDays(domestic, units)
  IN  /\ offset \in OffsetsOf[WarehouseOf(name)]
      /\ shipment' = [carrier |-> TRUE, at |-> t, offset |-> offset, transit |-> transit,
                      eta |-> EstimateDelivery(t, offset, transit)]

\* arrangeShipment without one: nothing is promised.
NoCarrierAvailable == shipment' = NoShipment

Next ==
  \/ \E name \in Warehouses \cup { UNNAMED_WAREHOUSE }, domestic \in BOOLEAN,
        units \in UnitCounts, t \in Instants : \E offset \in OffsetsOf[WarehouseOf(name)] :
       ArrangeShipment(name, domestic, units, t, offset)
  \/ NoCarrierAvailable

Spec == Init /\ [][Next]_vars

-----------------------------------------------------------------------------
(* Against the rule of the code's comment.                                 *)

\* The day the order leaves: today's, in the warehouse, if it is confirmed
\* before the cutoff there, and the next otherwise.
DispatchDay(t, offset) ==
  IF BeforeCutoff(t, offset) THEN DayOf(t, offset) ELSE DayOf(t, offset) + 1

\* "Delivery promise anchored to the warehouse dispatch cutoff: orders confirmed
\* before the cutoff leave the same day, otherwise the next": the promised date
\* is the day of dispatch and the transit.
PromiseAnchoredToCutoff ==
  shipment.carrier =>
    DayOf(shipment.eta, 0) = DispatchDay(shipment.at, shipment.offset) + shipment.transit
=============================================================================
