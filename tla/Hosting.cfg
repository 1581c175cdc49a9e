\* Mail of one domain, the files of one account, one database with one
\* user, two plain file names and one the whitelist refuses, two zones with
\* a good record and one that named refuses.
CONSTANTS
  Box = {"ann", "ben"}
  Alias = {"info"}
  MaxBoxes = 2
  Mailer = {1, 2}
  MaxMailings = 3
  MaxMailFaults = 1
  Key = {"k1", "k2"}
  Cron = {"job"}
  Caller = {1, 2}
  Refusals = {{}, {"crontab"}}
  MaxCalls = 3
  MaxCallFaults = 1
  Schema = {"shop"}
  DbUser = {"ann"}
  Privileges = {{"read"}, {"read", "write"}}
  Password = {1, 2}
  Client = {1, 2}
  MaxQueries = 4
  MaxQueryFaults = 1
  Name = {"index", "style", "my page"}
  Plain = {"index", "style"}
  User = {1, 2}
  MaxFileCalls = 3
  MaxFileFaults = 1
  Zone = {"shop.org", "blog.org"}
  Record = {"mail", "loop"}
  Broken = {"loop"}
  Requester = {1, 2}
  Fragile = {"insert", "defaults", "write", "check", "config", "reload", "unlink", "reloadAll"}
  MaxZoneRequests = 3
  MaxZoneFaults = 1
SPECIFICATION MCSpec
VIEW Moving
INVARIANTS HostingTypeOK MapsFollowRows AcceptedCanBeRead  DatabasesMatch  
CHECK_DEADLOCK FALSE
