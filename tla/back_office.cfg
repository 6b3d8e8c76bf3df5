SPECIFICATION FairSpec
CONSTANTS
  merchant = merchant
  distributor = distributor
  heavy = heavy
  direct = direct
  nobody = nobody
  q1 = q1
  q2 = q2
  t1 = t1
  a1 = a1
  a2 = a2
  a3 = a3
  u1 = u1
  x1 = x1
  k1 = k1
  k2 = k2
  Desks = {"disputes", "warehouses", "tickets", "addresses", "jobs"}
  Slots = {k1, k2}
  MayAbort = TRUE
  Users = {merchant, distributor}
  Merchant = merchant
  Opening <- Funds
  Weighed = {heavy, direct}
  DistributorOf <- Between
  NoDistributor = nobody
  Extra <- ExtraCharge
  Changes = {q1, q2}
  Wanted <- NewAddresses
  FirstAddress <- At1
  AdminWants <- AdminAddresses
  Tickets = {t1}
  AgentCount = 2
  MaxReplies = 2
  Saved = {a1, a2, a3}
  PageSize = 2
  Moments = 4
  Uploads = {u1}
  Rows <- ThreeRows
  Exports = {x1}
  WritesFail = TRUE
INVARIANTS TypeOK DisputeMoneyExplained ApprovedWasApplied JobsTellTheTruth PagesShowTheBook
PROPERTIES DecidedUnlessStale JobsEnd
CHECK_DEADLOCK FALSE
