SPECIFICATION Spec
CONSTANTS
  merchant = merchant
  distributor = distributor
  r1 = r1
  r2 = r2
  Requests = {r1, r2}
  Entries = {"delete", "status", "webhook", "poll", "edit"}
  Parties = {merchant, distributor}
  Cost <- BothPay
  RtoCharge = 1
  Kinds = {"COD"}
  CarrierFlow <- FewScans
  CarrierMayRefuse = TRUE
  WalletLookups = {"found", "castError"}
  MayFail = TRUE
INVARIANTS TypeOK MoneyMovesOnce HistoryExplainsStatus
SYMMETRY Slots
CHECK_DEADLOCK FALSE
