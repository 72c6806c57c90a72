------------------------ MODULE MCDeliveryEstimator ------------------------
(* The three warehouses with their winter and summer offsets; every hour of *)
(* two days, on the hour and half a minute before and after it.             *)
EXTENDS DeliveryEstimator

MCWarehouses == { "US-EAST-1", "US-WEST-2", "EU-CENTRAL-1" }

MCOffsetsOf == [w \in MCWarehouses |->
                  CASE w = "US-EAST-1"    -> { -5 * HOUR, -4 * HOUR }
                    [] w = "US-WEST-2"    -> { -8 * HOUR, -7 * HOUR }
                    [] w = "EU-CENTRAL-1" -> { HOUR, 2 * HOUR }]

MCInstants == { h * HOUR + e : h \in 1 .. 48, e \in { -1, 0, 1 } }
=============================================================================
