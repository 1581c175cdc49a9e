CONSTANTS
  Domain = {"foo", "bar"}
  Version = {1, 2, 3, 4, 5, 6, 7}
  Client = {"user"}
  Fragile = {"certbot", "save", "key", "chain", "audit", "revoke", "list"}
  MaxRequests = 2
  MaxFaults = 1
SPECIFICATION FairSpec
INVARIANT SitesFollowRows
PROPERTY RenewedInTime
CHECK_DEADLOCK FALSE
