SPECIFICATION Spec
CONSTANTS
  merchant = merchant
  distributor = distributor
  former = former
  charge = charge
  recharge = recharge
  refund = refund
  topup = topup
  remit = remit
  stray = stray
  Wallets <- MCWallets
  Requests = {charge, recharge, stray}
  Legs <- MCLegs
  References <- MCReferences
  InitialBalance <- MCInitialBalance
  InitialEscrow <- NoEscrow
  LiveWallets = {merchant, distributor}
  Transactional = FALSE
  CodAmount = 2
  MaxFailures = 0
  MaxRetries = 1
  MaxDeliveries = 1
INVARIANTS NeverOverdrawn BooksBalanceAtRest
CHECK_DEADLOCK FALSE
