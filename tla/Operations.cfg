\* One rule, evaluated by two timers; an event, and two users who set up how they
\* are told; two administrators with three addresses and three ports; two visitors
\* of one account; two mutations of what a page shows; three runs of the scripts.
CONSTANTS
  Rule = {"cpu"}
  Duration = 1
  Cooldown = 2
  Evaluator = {1, 2}
  MaxClock = 4
  MaxAlerts = 2
  MaxEdits = 1
  MaxAlertFaults = 1
  Member = {1, 2}
  Channel = {"email", "sms", "webhook"}
  MaxEvents = 1
  MaxVisitsToSettings = 2
  MaxNoticeFaults = 1
  SSHPort = "8130"
  Port = {"22", "8130", "2222"}
  Ip = {"10.0.0.1", "10.0.0.10", "fe80::1"}
  Short = {"10.0.0.1"}
  NotIPv4 = {"fe80::1"}
  Admin = {1, 2}
  MaxOrders = 2
  MaxOrderFaults = 1
  Visitor = {1, 2}
  Limit = 2
  LockTime = 1
  MaxHour = 3
  MaxVisits = 4
  MaxVisitFaults = 1
  MaxMutations = 2
  MaxAtOnce = 2
  MaxLooks = 2
  SshPort = {"8130", "2222"}
  Package = {"nodejs", "php"}
  MaxPasswords = 6
  MaxRuns = 3
  MaxScriptFaults = 2
SPECIFICATION MCSpec
VIEW Moving
INVARIANTS OperationsTypeOK  EveryoneIsTold   LockoutHolds ResetEndsSessions  SSHStaysReachable 
CHECK_DEADLOCK FALSE
