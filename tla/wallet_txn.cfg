SPECIFICATION FairSpec
CONSTANTS
  merchant = merchant
  distributor = distributor
  former = former
  charge = charge
  recharge = recharge
  refund = refund
  topup = topup
  remit = remit
  stray = stray
  Wallets <- MCWallets
  Requests = {charge, recharge, remit}
  Legs <- MCLegs
  References <- MCReferences
  InitialBalance <- PoorMerchant
  InitialEscrow <- NoEscrow
  LiveWallets = {merchant, distributor}
  Transactional = TRUE
  CodAmount = 2
  MaxFailures = 1
  MaxRetries = 1
  MaxDeliveries = 2
INVARIANTS TypeOK LedgerExplainsBalance NoDoublePosting AcknowledgedIsPosted EscrowAccountedFor
PROPERTIES ImplementsLedger EveryRequestEnds
CHECK_DEADLOCK FALSE
