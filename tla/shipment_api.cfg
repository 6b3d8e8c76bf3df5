SPECIFICATION FairSpec
CONSTANTS
  merchant = merchant
  distributor = distributor
  r1 = r1
  r2 = r2
  Requests = {r1, r2}
  Entries = {"delete", "status"}
  Parties = {merchant, distributor}
  Cost <- BothPay
  RtoCharge = 1
  Kinds = {"prepaid", "COD", "return"}
  CarrierFlow <- Onward
  CarrierMayRefuse = TRUE
  WalletLookups = {"found", "castError"}
  MayFail = TRUE
INVARIANTS EndedIsPaid AnswersAreTrue
PROPERTIES ForwardFromWhatWasRead BookingSettles
CHECK_DEADLOCK FALSE
