---------------------------- MODULE MCBackupJobs ----------------------------
(* A full backup and one of files only; the queue holds up to two jobs.    *)
EXTENDS BackupJobs

StorageDirectory == <<"backups">>
=============================================================================
