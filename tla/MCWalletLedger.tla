---------------------------- MODULE MCWalletLedger ----------------------------
(* Small instances of WalletLedger.                                         *)
EXTENDS WalletLedger, TLC

CONSTANTS merchant, distributor, former, charge, recharge, refund, topup, remit, stray

MCWallets == {merchant, distributor, former}

\* A shipment is charged to the merchant and the distributor, twice by a
\* duplicated call; the charge is refunded; the merchant tops up; its COD is
\* remitted; a shipment is charged to a distributor whose account has no wallet.
ChargeLegs ==
  <<[wallet |-> merchant, type |-> "CHARGE", amount |-> 2, ref |-> "CHARGE-MERCH"],
    [wallet |-> distributor, type |-> "CHARGE", amount |-> 1, ref |-> "CHARGE-DIST"]>>
RefundLegs ==
  <<[wallet |-> distributor, type |-> "REFUND", amount |-> 1, ref |-> "REFUND-DIST"],
    [wallet |-> merchant, type |-> "REFUND", amount |-> 2, ref |-> "REFUND-MERCH"]>>
TopupLegs ==
  <<[wallet |-> merchant, type |-> "TOPUP", amount |-> 1, ref |-> "TOPUP"]>>
RemitLegs ==
  <<[wallet |-> merchant, type |-> "COD_CREDIT", amount |-> 2, ref |-> "COD"]>>
StrayLegs ==
  <<[wallet |-> merchant, type |-> "CHARGE", amount |-> 1, ref |-> "STRAY-MERCH"],
    [wallet |-> former, type |-> "CHARGE", amount |-> 1, ref |-> "STRAY-DIST"]>>

AllLegs == charge :> ChargeLegs @@ recharge :> ChargeLegs @@ refund :> RefundLegs
             @@ topup :> TopupLegs @@ remit :> RemitLegs @@ stray :> StrayLegs

MCLegs == [r \in Requests |-> AllLegs[r]]
MCReferences == {"CHARGE-MERCH", "CHARGE-DIST", "REFUND-DIST", "REFUND-MERCH",
                 "TOPUP", "COD", "STRAY-MERCH", "STRAY-DIST"}

MCInitialBalance == merchant :> 3 @@ distributor :> 1 @@ former :> 0
PoorMerchant == merchant :> 1 @@ distributor :> 1 @@ former :> 0
NoEscrow == merchant :> 0 @@ distributor :> 0 @@ former :> 0

ASSUME ReferenceNamesOneLeg

===============================================================================
