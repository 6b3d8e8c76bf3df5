SPECIFICATION Spec
CONSTANTS
  merchant = merchant
  distributor = distributor
  transfer = transfer
  topup = topup
  Wallets <- MCWallets
  Requests = {transfer, topup}
  Legs <- MCLegs
  References <- MCReferences
  InitialBalance <- MCInitialBalance
  InitialEscrow <- NoEscrow
  LiveWallets <- MCWallets
  Transactional = TRUE
  CodAmount = 1
  MaxFailures = 1
  MaxRetries = 1
  MaxDeliveries = 1
INVARIANTS AcknowledgedIsPosted
CHECK_DEADLOCK FALSE
