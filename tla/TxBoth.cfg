CONSTANTS
  t1 = t1
  t2 = t2
  vhost = vhost
  pool = pool
  Tx = {t1}
  File = {vhost, pool}
  Content = {c1, c2}
  Absent = Absent
  Unseen = Unseen
  FilesOf <- MCFilesBoth
  MaxEffects = 2
  MaxCrashes = 1
SPECIFICATION FairSpec
INVARIANTS TypeOK RollbackExact LostIsRecoverable
PROPERTY EveryOperationEnds
CHECK_DEADLOCK FALSE
