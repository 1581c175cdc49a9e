CONSTANTS
  App = {"shop", "api", "blog"}
  Node = {"shop", "api"}
  Port = {3305, 3306, 3307}
  Reserved = {3306}
  Foreign = {{}, {3307}}
  Client = {1, 2}
  Job = {1, 2}
  Attempts = 3
  MaxRequests = 3
  MaxFaults = 1
  MaxCrashes = 1
SPECIFICATION FairSpec
  
PROPERTIES RemovedStays DeployEnds
CHECK_DEADLOCK FALSE
