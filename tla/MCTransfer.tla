------------------------------ MODULE MCTransfer ------------------------------
(* transferToMerchantService (finance/services/wallet.service.js) as an         *)
(* instance of WalletLedger: both legs carry the reference TXFR-<Date.now()>.   *)
EXTENDS WalletLedger, TLC

CONSTANTS merchant, distributor, transfer, topup

MCWallets == {merchant, distributor}

TransferLegs ==
  <<[wallet |-> distributor, type |-> "TRANSFER_DEBIT", amount |-> 1, ref |-> "TXFR"],
    [wallet |-> merchant, type |-> "TRANSFER_CREDIT", amount |-> 1, ref |-> "TXFR"]>>
TopupLegs ==
  <<[wallet |-> distributor, type |-> "TOPUP", amount |-> 1, ref |-> "TOPUP"]>>

MCLegs == transfer :> TransferLegs @@ topup :> TopupLegs
MCReferences == {"TXFR", "TOPUP"}
MCInitialBalance == merchant :> 0 @@ distributor :> 1
NoEscrow == merchant :> 0 @@ distributor :> 0

===============================================================================
