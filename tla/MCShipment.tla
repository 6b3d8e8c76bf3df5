------------------------------ MODULE MCShipment ------------------------------
(* Small instances of Shipment.                                             *)
EXTENDS Shipment, TLC

CONSTANTS merchant, distributor, r1, r2

Slots == Permutations(Requests)

BothPay == merchant :> 2 @@ distributor :> 1

\* The life of an order at the carrier.
Onward == [s \in ShipmentStatus |->
  CASE s = "ORDER_CREATED"    -> {"PICKED_UP"}
    [] s = "PICKED_UP"        -> {"ARRIVED_AT_HUB", "IN_TRANSIT"}
    [] s = "IN_TRANSIT"       -> {"ARRIVED_AT_HUB"}
    [] s = "ARRIVED_AT_HUB"   -> {"OUT_FOR_DELIVERY"}
    [] s = "OUT_FOR_DELIVERY" -> {"DELIVERED", "DELIVERY_FAILED"}
    [] s = "DELIVERY_FAILED"  -> {"OUT_FOR_DELIVERY", "RTO"}
    [] OTHER                  -> {}]

\* A carrier that scans at the hub and at the door only.
FewScans == [s \in ShipmentStatus |->
  CASE s = "ORDER_CREATED"    -> {"ARRIVED_AT_HUB", "CANCELLED"}
    [] s = "ARRIVED_AT_HUB"   -> {"OUT_FOR_DELIVERY"}
    [] s = "OUT_FOR_DELIVERY" -> {"DELIVERED", "RTO"}
    [] OTHER                  -> {}]

===============================================================================
