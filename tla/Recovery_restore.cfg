\* One restore beside the collector, a command and backup runs.
SPECIFICATION Spec
CONSTANTS
  Process = {"service", "command", "backup", "restore"}
  Inode = {1, 2, 3}
  None = None
  MaxTx = 2
  Name = {1, 2}
  BackupCount = 1
INVARIANTS TypeOK NoSilentLoss NoForeignWal CompletedIsChosen RecoveredIsOriginal BackupReportIsTrue OverlapHasOneCause
PROPERTIES CollectorComesBack
CHECK_DEADLOCK FALSE
