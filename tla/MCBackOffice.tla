----------------------------- MODULE MCBackOffice -----------------------------
(* Small instances of BackOffice: one shipment with a distributor and one   *)
(* without are disputed; two changes of one warehouse are asked for, and an *)
(* administrator edits another part of its address; two agents answer a      *)
(* ticket; an address book of three entries, two to a page; an upload of     *)
(* three rows and one export.                                               *)
EXTENDS BackOffice, TLC

CONSTANTS merchant, distributor, heavy, direct, nobody, q1, q2, t1, a1, a2, a3, u1, x1, k1, k2

Funds == merchant :> 2 @@ distributor :> 1

Between == heavy :> distributor @@ direct :> nobody
ExtraCharge == heavy :> 1 @@ direct :> 2

At1 == [street |-> "old", pincode |-> "1"]
At2 == [street |-> "new", pincode |-> "2"]
At3 == [street |-> "old", pincode |-> "3"]
NewAddresses == q1 :> At2 @@ q2 :> At3
AdminAddresses == {At3}

ThreeRows == [u \in Uploads |-> 3]

===============================================================================
