SPECIFICATION Spec
CONSTANTS
  merchant = merchant
  distributor = distributor
  s1 = s1
  s2 = s2
  q1 = q1
  q2 = q2
  parcel = parcel
  letter = letter
  o1 = o1
  o2 = o2
  p1 = p1
  p2 = p2
  p3 = p3
  k1 = k1
  k2 = k2
  Users = {merchant, distributor}
  Merchant = merchant
  Opening <- Funds
  Slots = {k1, k2}
  MayAbort = TRUE
  Settled = {s1, s2}
  From <- Asker
  To <- Target
  SettledAmount <- Twos
  SettledReference <- CallersReferences
  Shipments = {parcel}
  Refunds = {q1, q2}
  RefundOf <- Subject
  RefundAmount <- RefundAmounts
  CodShipments = {parcel}
  CodAmount <- CodAmounts
  Orders = {o1}
  Attempts = {p1}
  OrderOf <- Belongs
  TopupAmount <- Topups
  MaySpoil = FALSE
  Refundable = {}
INVARIANTS TypeOK BalanceExplained DocumentsArePaid
PROPERTIES PaidAfterSettlement
SYMMETRY Interchangeable
CHECK_DEADLOCK FALSE
