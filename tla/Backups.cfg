CONSTANTS
  Backup = {"weekly", "files"}
  Full = {"weekly"}
  Base <- StorageDirectory
  Job = {1, 2}
  Attempts = 3
  Fragile = {"add", "pack", "upload", "save", "clean", "failed", "tidy"}
  MaxRequests = 3
  MaxFaults = 2
  MaxCrashes = 1
SPECIFICATION FairSpec
INVARIANTS CompletedHasArchive TempClean RemovedStays
PROPERTY BackupEnds
CHECK_DEADLOCK FALSE
