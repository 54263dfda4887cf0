\* The collector ends while another process holds the lock.
SPECIFICATION Spec
CONSTANTS
  Process = {"service", "command", "backup", "restore"}
  Inode = {1, 2, 3}
  None = None
  MaxTx = 2
  Name = {1, 2}
  BackupCount = 1
INVARIANT OneHolder
CHECK_DEADLOCK FALSE
