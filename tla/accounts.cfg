SPECIFICATION FairSpec
CONSTANTS
  admin = admin
  distributor = distributor
  merchant = merchant
  k1 = k1
  k2 = k2
  Slots = {k1, k2}
  MayAbort = TRUE
  Accounts = {merchant}
  Staff = {admin, distributor}
  Role <- Roles
  Inviter <- Inviters
  Bounds <- BothBounds
INVARIANTS TypeOK SingleUseUnlessOverlapping MerchantsAreWhole
PROPERTIES ShutOut
CHECK_DEADLOCK FALSE
