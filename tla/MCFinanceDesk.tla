---------------------------- MODULE MCFinanceDesk ----------------------------
(* Small instances of FinanceDesk: a distributor asks the merchant twice for *)
(* the same amount, which the merchant cannot pay twice without other income; *)
(* two refund requests concern one COD shipment; an order takes attempts.    *)
EXTENDS FinanceDesk, TLC

CONSTANTS merchant, distributor, s1, s2, q1, q2, parcel, letter, o1, o2, p1, p2, p3, k1, k2

Asker == [s \in Settled |-> distributor]
Target == [s \in Settled |-> merchant]
Twos == [s \in Settled |-> 2]

\* Both requests name the same purchase order.
CallersReferences == [s \in Settled |-> <<"PO", s1>>]

Funds == merchant :> 1 @@ distributor :> 2

Subject == [q \in Refunds |-> parcel]
RefundAmounts == [q \in Refunds |-> IF q = q1 THEN 1 ELSE 3]

CodAmounts == [c \in CodShipments |-> IF c = parcel THEN 4 ELSE 5]

Belongs == [p \in Attempts |-> IF p = p3 THEN o2 ELSE o1]
Topups == [o \in Orders |-> IF o = o1 THEN 5 ELSE 7]

Interchangeable == Permutations(Slots)

===============================================================================
