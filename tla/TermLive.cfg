CONSTANTS
  c1 = c1
  c2 = c2
  ann = ann
  ben = ben
  NoSession = NoSession
  Socket = {c1, c2}
  PanelUser = {ann, ben}
  UserOf <- SameUser
  MaxSessions = 2
  Noisy = {2}
  Patient = {c1}
  MaxFaults = 1
  MaxCrashes = 1
SPECIFICATION FairSpec
INVARIANTS SessionsAccountedFor Reachable
PROPERTY OrphanEnds
CHECK_DEADLOCK FALSE
