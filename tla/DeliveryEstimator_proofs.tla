---------------------- MODULE DeliveryEstimator_proofs ----------------------
(***************************************************************************)
(* How far a promise of the delivery estimator can be from the rule, for   *)
(* every reading of the clock, every offset a time zone has, and every     *)
(* transit.                                                                *)
(***************************************************************************)
EXTENDS DeliveryEstimator, TLAPS

\* Zones are between UTC-12 and UTC+14.
OfAZone(offset) == -12 * HOUR <= offset /\ offset <= 14 * HOUR

LEMMA Units == DAY = 2880 /\ CUTOFF = 2040 /\ HOUR = 120
  BY SMT DEF DAY, HOUR, CUTOFF

LEMMA Division ==
  ASSUME NEW a \in Int
  PROVE  /\ a \div 2880 \in Int /\ a % 2880 \in Nat /\ a % 2880 < 2880
         /\ a = 2880 * (a \div 2880) + (a % 2880)
  BY SMT

LEMMA DayBounds ==
  ASSUME NEW t \in Int, NEW offset \in Int
  PROVE  /\ DayOf(t, offset) \in Int /\ TimeOfDay(t, offset) \in Nat /\ TimeOfDay(t, offset) < 2880
         /\ t + offset = 2880 * DayOf(t, offset) + TimeOfDay(t, offset)
  BY Units, SMT DEF DayOf, TimeOfDay

\* The same at UTC.
LEMMA UtcBounds ==
  ASSUME NEW t \in Int
  PROVE  /\ DayOf(t, 0) \in Int /\ TimeOfDay(t, 0) \in Nat /\ TimeOfDay(t, 0) < 2880
         /\ t = 2880 * DayOf(t, 0) + TimeOfDay(t, 0)
  BY DayBounds

LEMMA QuotientUnique ==
  ASSUME NEW d \in Int, NEW k \in Int, NEW r \in Nat, r < 2880, NEW s \in Nat, s < 2880,
         2880 * d + s = 2880 * k + r
  PROVE  d = k
  BY SMT

\* An instant of a day falls on that day.
LEMMA DayUnique ==
  ASSUME NEW k \in Int, NEW r \in Nat, r < 2880
  PROVE  DayOf(2880 * k + r, 0) = k
  <1>. DEFINE t == 2880 * k + r  d == DayOf(t, 0)  s == TimeOfDay(t, 0)
  <1>1. t \in Int
    OBVIOUS
  <1>2. d \in Int /\ s \in Nat /\ s < 2880 /\ t = 2880 * d + s
    BY <1>1, UtcBounds
  <1>3. 2880 * d + s = 2880 * k + r
    BY <1>2
  <1>. HIDE DEF d, s
  <1>4. d = k
    BY <1>2, <1>3, QuotientUnique
  <1>. QED  BY <1>4 DEF d

LEMMA Apart ==
  ASSUME NEW d \in Int, NEW l \in Int, NEW s \in Nat, s < 2880, NEW r \in Nat, r < 2880,
         NEW offset \in Int, -1440 <= offset, offset <= 1680, 2880 * d + s + offset = 2880 * l + r
  PROVE  d - l \in -1 .. 1 /\ (r < 2040 /\ s > 2040 => d - l # 1)
  BY SMT

\* The date of a zone is at most one away from the date at UTC.
LEMMA DatesApart ==
  ASSUME NEW t \in Int, NEW offset \in Int, OfAZone(offset)
  PROVE  /\ DayOf(t, 0) - DayOf(t, offset) \in -1 .. 1
         /\ TimeOfDay(t, offset) < 2040 /\ TimeOfDay(t, 0) > 2040
              => DayOf(t, 0) - DayOf(t, offset) # 1
  <1>. DEFINE d == DayOf(t, 0)  s == TimeOfDay(t, 0)
              l == DayOf(t, offset)  r == TimeOfDay(t, offset)
  <1>1. offset \in Int /\ -1440 <= offset /\ offset <= 1680
    BY Units DEF OfAZone
  <1>2. d \in Int /\ s \in Nat /\ s < 2880 /\ t = 2880 * d + s
    BY ONLY t \in Int, UtcBounds
  <1>3. l \in Int /\ r \in Nat /\ r < 2880 /\ t + offset = 2880 * l + r
    BY ONLY t \in Int, <1>1, DayBounds
  <1>. HIDE DEF d, s, l, r
  <1>4. 2880 * d + s + offset = 2880 * l + r
    BY <1>2, <1>3
  <1>5. d - l \in -1 .. 1 /\ (r < 2040 /\ s > 2040 => d - l # 1)
    BY <1>1, <1>2, <1>3, <1>4, Apart
  <1>. QED  BY <1>5 DEF d, s, l, r

\* The date the code computes: the cutoff of the UTC date, and the transit.
LEMMA EstimateIs ==
  ASSUME NEW t \in Int, NEW offset \in Int, NEW transit \in Nat
  PROVE  LET late == IF BeforeCutoff(t, offset) THEN 0 ELSE 1
         IN  Estimate(t, offset, transit) = 2880 * (DayOf(t, 0) + transit + late) + 2040
  <1>1. DayOf(t, 0) \in Int
    BY DayBounds
  <1>. QED  BY <1>1, Units DEF Estimate

\* A promise is never in the past: the fallback always leads to the future.
THEOREM PromiseNotInThePast ==
  ASSUME NEW t \in Int, NEW offset \in Int, NEW transit \in Nat
  PROVE  EstimateDelivery(t, offset, transit) >= t
  <1>1. DayOf(t, 0) \in Int
    BY DayBounds
  <1>2. Estimate(t, offset, transit) \in Int
    BY <1>1, EstimateIs
  <1>. QED  BY <1>2, Units DEF EstimateDelivery, InThePast

\* delivery_estimate_invalid is logged of exactly the same-day couriers arranged
\* before the cutoff of the warehouse and after that of UTC.
THEOREM InvalidOnlySameDay ==
  ASSUME NEW t \in Int, NEW offset \in Int, NEW transit \in Nat
  PROVE  InThePast(t, offset, transit) <=>
           transit = 0 /\ BeforeCutoff(t, offset) /\ TimeOfDay(t, 0) > CUTOFF
  <1>1. /\ DayOf(t, 0) \in Int /\ TimeOfDay(t, 0) \in Nat /\ TimeOfDay(t, 0) < 2880
        /\ t + 0 = 2880 * DayOf(t, 0) + TimeOfDay(t, 0)
    BY DayBounds
  <1>2. CASE BeforeCutoff(t, offset)
    <2>1. Estimate(t, offset, transit) = 2880 * (DayOf(t, 0) + transit) + 2040
      BY <1>1, <1>2, EstimateIs
    <2>. QED  BY <1>1, <1>2, <2>1, Units DEF InThePast
  <1>3. CASE ~BeforeCutoff(t, offset)
    <2>1. Estimate(t, offset, transit) = 2880 * (DayOf(t, 0) + transit + 1) + 2040
      BY <1>1, <1>3, EstimateIs
    <2>. QED  BY <1>1, <1>3, <2>1, Units DEF InThePast
  <1>. QED  BY <1>2, <1>3

\* A promise misses the rule of the comment by exactly the days between the date
\* at UTC and the date in the warehouse, one at most; a computed estimate that is
\* in the past misses it by two or three.
THEOREM PromiseOffByADay ==
  ASSUME NEW t \in Int, NEW offset \in Int, OfAZone(offset), NEW transit \in Nat
  PROVE  LET off == DayOf(EstimateDelivery(t, offset, transit), 0)
                      - (DispatchDay(t, offset) + transit)
         IN  IF InThePast(t, offset, transit)
             THEN off \in 2 .. 3
             ELSE off = DayOf(t, 0) - DayOf(t, offset) /\ off \in -1 .. 1
  <1>1. offset \in Int
    BY Units DEF OfAZone
  <1>2. /\ DayOf(t, 0) \in Int /\ TimeOfDay(t, 0) \in Nat /\ TimeOfDay(t, 0) < 2880
        /\ t = 2880 * DayOf(t, 0) + TimeOfDay(t, 0)
    BY ONLY t \in Int, UtcBounds
  <1>3. DayOf(t, offset) \in Int
    BY ONLY t \in Int, <1>1, DayBounds
  <1>4. DayOf(t, 0) - DayOf(t, offset) \in -1 .. 1
    BY DatesApart
  <1>5. CASE InThePast(t, offset, transit)
    <2>1. transit = 0 /\ BeforeCutoff(t, offset) /\ TimeOfDay(t, 0) > 2040
      BY <1>1, <1>5, InvalidOnlySameDay, Units
    <2>2. TimeOfDay(t, offset) < 2040
      BY <2>1, Units DEF BeforeCutoff
    <2>3. DayOf(t, 0) - DayOf(t, offset) # 1
      BY <2>1, <2>2, DatesApart
    <2>4. EstimateDelivery(t, offset, transit) = t + 8640
      BY <1>5, Units DEF EstimateDelivery
    <2>5. t + 8640 = 2880 * (DayOf(t, 0) + 3) + TimeOfDay(t, 0) /\ DayOf(t, 0) + 3 \in Int
      BY <1>2
    <2>6. DayOf(2880 * (DayOf(t, 0) + 3) + TimeOfDay(t, 0), 0) = DayOf(t, 0) + 3
      BY <1>2, <2>5, DayUnique
    <2>7. DayOf(EstimateDelivery(t, offset, transit), 0) = DayOf(t, 0) + 3
      BY <2>4, <2>5, <2>6
    <2>8. DispatchDay(t, offset) = DayOf(t, offset)
      BY <2>1 DEF DispatchDay
    <2>. QED  BY <1>2, <1>3, <1>4, <1>5, <2>1, <2>3, <2>7, <2>8
  <1>6. CASE ~InThePast(t, offset, transit)
    <2>. DEFINE late == IF BeforeCutoff(t, offset) THEN 0 ELSE 1
    <2>1. late \in 0 .. 1
      OBVIOUS
    <2>2. EstimateDelivery(t, offset, transit) = 2880 * (DayOf(t, 0) + transit + late) + 2040
      BY <1>1, <1>6, EstimateIs DEF EstimateDelivery
    <2>3. DispatchDay(t, offset) = DayOf(t, offset) + late
      BY <1>3 DEF DispatchDay
    <2>. HIDE DEF late
    <2>4. DayOf(t, 0) + transit + late \in Int /\ 2040 \in Nat /\ 2040 < 2880
      BY <1>2, <2>1
    <2>5. DayOf(2880 * (DayOf(t, 0) + transit + late) + 2040, 0) = DayOf(t, 0) + transit + late
      BY <2>4, DayUnique
    <2>6. DayOf(EstimateDelivery(t, offset, transit), 0) = DayOf(t, 0) + transit + late
      BY <2>2, <2>5
    <2>. QED  BY <1>2, <1>3, <1>4, <1>6, <2>1, <2>3, <2>6
  <1>. QED  BY <1>5, <1>6
=============================================================================
