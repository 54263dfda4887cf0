--------------------------- MODULE OperationsLock ---------------------------
(***************************************************************************)
(* The global operations lock: a non-blocking flock on the file found at   *)
(* its path, which is created when it is not there.  What is locked is the *)
(* inode a process opened, not the path.                                   *)
(***************************************************************************)
EXTENDS FiniteSets

CONSTANTS
  Process,  \* those that take the lock
  Inode,    \* the inodes a lock file may get
  None      \* no file

ASSUME NoneAssumption == None \notin Inode

VARIABLES
  lockFile,  \* the inode at the lock's path
  fd,        \* the inode each process has open
  held,      \* the processes whose flock was granted
  removed    \* history: the file was removed while another process had it open

lockVars == <<lockFile, fd, held, removed>>

LockTypeOK ==
  /\ lockFile \in Inode \cup {None}
  /\ fd \in [Process -> Inode \cup {None}]
  /\ held \subseteq Process
  /\ removed \in BOOLEAN

LockInit ==
  /\ lockFile = None
  /\ fd = [p \in Process |-> None]
  /\ held = {}
  /\ removed = FALSE

\* What an open with O_CREATE may find at the path.
Found ==
  IF lockFile # None THEN {lockFile}
  ELSE {i \in Inode : \A p \in Process : fd[p] # i}

OpenLock(p) ==
  /\ fd[p] = None
  /\ Found # {}
  /\ lockFile' = CHOOSE i \in Found : TRUE
  /\ fd' = [fd EXCEPT ![p] = lockFile']
  /\ UNCHANGED <<held, removed>>

Busy(p) == \E q \in held : q # p /\ fd[q] = fd[p]

Flock(p) ==
  /\ fd[p] # None
  /\ ~Busy(p)
  /\ held' = held \cup {p}
  /\ UNCHANGED <<lockFile, fd, removed>>

\* TryAcquire: the open and the flock in one step.
TryAcquire(p) ==
  /\ fd[p] = None
  /\ Found # {}
  /\ lockFile' = CHOOSE i \in Found : TRUE
  /\ \A q \in held : fd[q] # lockFile'
  /\ fd' = [fd EXCEPT ![p] = lockFile']
  /\ held' = held \cup {p}
  /\ UNCHANGED removed

\* An operation that takes and releases the lock without a step in between.
Visit(p) ==
  /\ fd[p] = None
  /\ Found # {}
  /\ lockFile' = CHOOSE i \in Found : TRUE
  /\ \A q \in held : fd[q] # lockFile'
  /\ UNCHANGED <<fd, held, removed>>

\* Fault: Close deletes the file too.
CloseUnlinks(p) ==
  /\ fd' = [fd EXCEPT ![p] = None]
  /\ held' = held \ {p}
  /\ lockFile' = None
  /\ UNCHANGED removed

\* Close, or the kernel when the process ends: the inode remains.
Close(p) ==
  /\ fd' = [fd EXCEPT ![p] = None]
  /\ held' = held \ {p}
  /\ UNCHANGED <<lockFile, removed>>

\* The service manager removes RuntimeDirectory= and all in it when the
\* unit's process p is gone.
RemoveDirectory(p) ==
  /\ fd' = [fd EXCEPT ![p] = None]
  /\ held' = held \ {p}
  /\ lockFile' = None
  /\ removed' = (removed \/ \E q \in Process \ {p} : fd[q] # None)

LockNext ==
  \E p \in Process :
    \/ OpenLock(p) \/ Flock(p) \/ TryAcquire(p) \/ Visit(p)
    \/ Close(p) \/ RemoveDirectory(p)

LockSpec == LockInit /\ [][LockNext]_lockVars
-----------------------------------------------------------------------------
\* At most one operation runs at a time.  The comment on Close claims that a
\* remaining inode is enough for it.
OneHolder == \A p, q \in held : p = q

\* Close keeps the file so that nobody can lock a second inode beside it: two
\* processes hold the lock only if the file was removed under an open one.
OverlapHasOneCause == OneHolder \/ removed
=============================================================================
