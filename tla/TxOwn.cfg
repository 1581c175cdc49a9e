CONSTANTS
  t1 = t1
  t2 = t2
  vhost = vhost
  pool = pool
  Tx = {t1, t2}
  File = {vhost, pool}
  Content = {c1, c2}
  Absent = Absent
  Unseen = Unseen
  FilesOf <- MCFilesOwn
  MaxEffects = 1
  MaxCrashes = 1
SPECIFICATION Spec
INVARIANT ReturnedIsKept
PROPERTY IsAtomic
CHECK_DEADLOCK FALSE
