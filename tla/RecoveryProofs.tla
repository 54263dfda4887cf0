--------------------------- MODULE RecoveryProofs ---------------------------
(***************************************************************************)
(* Proofs about the operations lock and the recovery module: what two      *)
(* holders take, that pruning keeps what was reported, and that no         *)
(* transaction is lost by a restore, wherever it ends.                     *)
(***************************************************************************)
EXTENDS Recovery, TLAPS, FiniteSetTheorems

(* The lock. *)

\* While the file was never removed from under a process, every descriptor is
\* of the inode at the path; and an inode has one holder.
LockInv ==
  /\ LockTypeOK
  /\ removed \/ \A p \in Process : fd[p] \in {None, lockFile}
  /\ \A p \in held : fd[p] # None
  /\ \A p, q \in held : fd[p] = fd[q] => p = q

\* An open of the lock file finds an inode.
LEMMA FoundTyped ==
  ASSUME LockTypeOK, Found # {}
  PROVE  /\ (CHOOSE i \in Found : TRUE) \in Found
         /\ (CHOOSE i \in Found : TRUE) \in Inode
         /\ (CHOOSE i \in Found : TRUE) # None
         /\ lockFile # None => (CHOOSE i \in Found : TRUE) = lockFile
         /\ lockFile = None =>
              \A p \in Process : fd[p] # (CHOOSE i \in Found : TRUE)
<1>1. (CHOOSE i \in Found : TRUE) \in Found
  OBVIOUS
<1> DEFINE f == CHOOSE i \in Found : TRUE
<1> HIDE DEF f
<1>2. f \in Found
  BY <1>1 DEF f
<1>3. f \in Inode /\ f # None
  BY <1>2, NoneAssumption DEF Found, LockTypeOK
<1>4. lockFile # None => f = lockFile
  BY <1>2 DEF Found
<1>5. lockFile = None => \A p \in Process : fd[p] # f
  BY <1>2 DEF Found
<1>6. QED
  BY <1>1, <1>3, <1>4, <1>5 DEF f

LEMMA LockStarts == LockInit => LockInv
  BY DEF LockInit, LockInv, LockTypeOK

LEMMA LockStep == LockInv /\ [LockNext]_lockVars => LockInv'
<1> SUFFICES ASSUME LockInv, [LockNext]_lockVars PROVE LockInv'
  OBVIOUS
<1> USE DEF LockInv, LockTypeOK
<1>1. ASSUME NEW p \in Process, OpenLock(p) PROVE LockInv'
  <2> DEFINE f == CHOOSE i \in Found : TRUE
  <2>1. /\ f \in Inode /\ f # None
        /\ lockFile # None => f = lockFile
        /\ lockFile = None => \A q \in Process : fd[q] # f
    BY <1>1, FoundTyped DEF OpenLock
  <2>2. /\ lockFile' = f /\ fd' = [fd EXCEPT ![p] = f]
        /\ fd[p] = None /\ held' = held /\ removed' = removed
    BY <1>1 DEF OpenLock
  <2> HIDE DEF f
  <2>3. p \notin held
    BY <2>2
  <2>4. QED
    BY <2>1, <2>2, <2>3
<1>2. ASSUME NEW p \in Process, Flock(p) PROVE LockInv'
  BY <1>2 DEF Flock, Busy
<1>3. ASSUME NEW p \in Process, TryAcquire(p) PROVE LockInv'
  <2> DEFINE f == CHOOSE i \in Found : TRUE
  <2>1. /\ f \in Inode /\ f # None
        /\ lockFile # None => f = lockFile
        /\ lockFile = None => \A q \in Process : fd[q] # f
    BY <1>3, FoundTyped DEF TryAcquire
  <2>2. /\ lockFile' = f /\ fd' = [fd EXCEPT ![p] = f]
        /\ fd[p] = None /\ held' = held \cup {p} /\ removed' = removed
        /\ \A q \in held : fd[q] # f
    BY <1>3 DEF TryAcquire
  <2> HIDE DEF f
  <2>3. QED
    BY <2>1, <2>2
<1>4. ASSUME NEW p \in Process, Visit(p) PROVE LockInv'
  <2> DEFINE f == CHOOSE i \in Found : TRUE
  <2>1. /\ f \in Inode /\ f # None
        /\ lockFile # None => f = lockFile
        /\ lockFile = None => \A q \in Process : fd[q] # f
    BY <1>4, FoundTyped DEF Visit
  <2>2. lockFile' = f /\ fd' = fd /\ held' = held /\ removed' = removed
    BY <1>4 DEF Visit
  <2> HIDE DEF f
  <2>3. QED
    BY <2>1, <2>2
<1>5. ASSUME NEW p \in Process, Close(p) PROVE LockInv'
  BY <1>5 DEF Close
<1>6. ASSUME NEW p \in Process, RemoveDirectory(p) PROVE LockInv'
  BY <1>6 DEF RemoveDirectory
<1>7. CASE UNCHANGED lockVars
  BY <1>7 DEF lockVars
<1>8. QED
  BY <1>1, <1>2, <1>3, <1>4, <1>5, <1>6, <1>7 DEF LockNext

LEMMA LockImplies == LockInv => OverlapHasOneCause
  BY DEF LockInv, LockTypeOK, OverlapHasOneCause, OneHolder

\* The lock alone, for any number of processes: two of them hold it only after
\* the file was removed from under an open descriptor.
THEOREM LockExcludes == LockSpec => []OverlapHasOneCause
<1>1. LockSpec => []LockInv
  BY LockStarts, LockStep, PTL DEF LockSpec
<1>2. QED
  BY <1>1, LockImplies, PTL
-----------------------------------------------------------------------------
(* The recovery module moves the lock only by the lock's own steps. *)

LEMMA Members == {"service", "command", "backup", "restore"} \subseteq Process
  BY RecoveryAssumption

LEMMA ServiceLock == ServiceSteps => [LockNext]_lockVars
<1>1. Cycle => [LockNext]_lockVars
  BY Members DEF Cycle, LockNext
<1>2. ServiceCrashes => [LockNext]_lockVars
  BY Members DEF ServiceCrashes, LockNext
<1>3. AutoRestart \/ OperatorStarts => [LockNext]_lockVars
  BY DEF AutoRestart, OperatorStarts
<1>4. QED
  BY <1>1, <1>2, <1>3 DEF ServiceSteps

LEMMA CommandLock == CommandSteps \/ Backup => [LockNext]_lockVars
<1>1. CommandOpens \/ CommandCommits \/ CommandCloses => [LockNext]_lockVars
  BY DEF CommandOpens, CommandCommits, CommandCloses
<1>2. CommandLocks \/ CommandUnlocks \/ CommandDies => [LockNext]_lockVars
  BY Members DEF CommandLocks, CommandUnlocks, CommandDies, LockNext
<1>3. Backup => [LockNext]_lockVars
  BY Members DEF Backup, LockNext
<1>4. QED
  BY <1>1, <1>2, <1>3 DEF CommandSteps

LEMMA ScriptLock == ScriptSteps \/ RestoreKilled => [LockNext]_lockVars
<1>1. RestoreOpensLock \/ RestoreLocks => [LockNext]_lockVars
  BY Members DEF RestoreOpensLock, RestoreLocks, LockNext
<1>2. \A stage, verdict : Exit(stage, verdict) => [LockNext]_lockVars
  BY Members DEF Exit, LockNext
<1>3. RestoreRefused \/ RestoreCompletes \/ RollbackEnds \/ RestoreKilled =>
        [LockNext]_lockVars
  BY <1>2 DEF RestoreRefused, RestoreCompletes, RollbackEnds, RestoreKilled
<1>4. Stop => [LockNext]_lockVars
  BY Members DEF Stop, LockNext
<1>5. Start => [LockNext]_lockVars
  BY DEF Start, SameUnit
<1>6. RestoreStops \/ RestoreStarts \/ RollbackStops \/ RollbackRevives =>
        [LockNext]_lockVars
  BY <1>4, <1>5
     DEF RestoreStops, RestoreStarts, RollbackStops, RollbackRevives, SameUnit
<1>7. ASSUME \/ RestoreChecks \/ RestoreArms \/ RestoreCopiesMain
             \/ RestoreCopiesLog \/ RestoreDisarms \/ RestoreAborts
             \/ RollbackSkips
      PROVE  [LockNext]_lockVars
  BY <1>7 DEF RestoreChecks, RestoreArms, RestoreCopiesMain, RestoreCopiesLog,
         RestoreDisarms, RestoreAborts, RollbackSkips, OnlyScript
<1>8. ASSUME \/ RestoreClears \/ RestoreMoves \/ RollbackRemovesMain
             \/ RollbackRemovesLog \/ RollbackReturnsMain \/ RollbackReturnsLog
      PROVE  [LockNext]_lockVars
  BY <1>8 DEF RestoreClears, RestoreMoves, RollbackRemovesMain, RollbackRemovesLog,
         RollbackReturnsMain, RollbackReturnsLog
<1>9. QED
  BY <1>1, <1>3, <1>6, <1>7, <1>8 DEF ScriptSteps

LEMMA StepsLock == [Next]_vars => [LockNext]_lockVars
<1>1. Next => [LockNext]_lockVars
  BY ServiceLock, CommandLock, ScriptLock DEF Next
<1>2. UNCHANGED vars => UNCHANGED lockVars
  BY DEF vars
<1>3. QED
  BY <1>1, <1>2

\* Beside restore.sh, the collector's unit, commands and backups: two processes
\* hold the operations lock only after its file was removed under one of them.
THEOREM RecoveryKeepsLock == Spec => []OverlapHasOneCause
<1>1. Init => LockInv
  BY LockStarts DEF Init
<1>2. LockInv /\ [Next]_vars => LockInv'
  BY LockStep, StepsLock
<1>3. QED
  BY <1>1, <1>2, LockImplies, PTL DEF Spec
-----------------------------------------------------------------------------
(* Types. *)

DataType ==
  /\ main \in [file : File \cup {NoFile}, txs : SUBSET Tx]
  /\ wal \in [of : File \cup {NoFile}, txs : SUBSET Tx]
  /\ opened \in [Client -> File \cup {NoFile}]
  /\ tx \in 0 .. MaxTx /\ kept \subseteq Tx

UnitType ==
  /\ service \in {"active", "waiting", "stopped"}
  /\ disturbed \in BOOLEAN

BackupType ==
  /\ backups \subseteq BackupFile /\ named \subseteq Name
  /\ reported \in Name \cup {0}

LEMMA TypeParts ==
  TypeOK <=> LockTypeOK /\ DataType /\ UnitType /\ BackupType /\ script \in ScriptType
  BY DEF TypeOK, DataType, UnitType, BackupType

\* What a connection does keeps the types of the database.
LEMMA ConnectionTyped ==
  ASSUME DataType, NEW p \in Client,
         Connect(p) \/ Commit(p) \/ Disconnect(p) \/ Drop(p)
  PROVE  DataType'
<1> USE DEF DataType
<1>1. Stored \subseteq Tx
  BY DEF Stored
<1>2. CASE Connect(p)
  <2>1. main' \in [file : File \cup {NoFile}, txs : SUBSET Tx]
    BY <1>2 DEF Connect, File
  <2>2. wal' \in [of : File \cup {NoFile}, txs : SUBSET Tx]
    BY <1>2 DEF Connect, NoWal
  <2>3. QED
    BY <1>2, <2>1, <2>2 DEF Connect
<1>3. CASE Commit(p)
  <2>1. tx' \in 0 .. MaxTx /\ tx' \in Tx
    BY <1>3, RecoveryAssumption DEF Commit, Tx
  <2>2. wal' \in [of : File \cup {NoFile}, txs : SUBSET Tx]
    BY <1>3, <2>1 DEF Commit
  <2>3. kept' \subseteq Tx
    BY <1>3, <2>1 DEF Commit
  <2>4. QED
    BY <1>3, <2>1, <2>2, <2>3 DEF Commit
<1>4. CASE Disconnect(p)
  BY <1>1, <1>4 DEF Disconnect, NoWal
<1>5. CASE Drop(p)
  BY <1>5 DEF Drop
<1>6. QED
  BY <1>2, <1>3, <1>4, <1>5

LEMMA ClientMembers == "service" \in Client /\ "command" \in Client
  BY RecoveryAssumption DEF Client

LEMMA StopTyped == DataType /\ Stop => DataType' /\ service' = "stopped"
<1> SUFFICES ASSUME DataType, Stop PROVE DataType' /\ service' = "stopped"
  OBVIOUS
<1>1. service' = "stopped"
  BY DEF Stop
<1>2. CASE Disconnect("service") \/ Drop("service")
  BY <1>1, <1>2, ConnectionTyped, ClientMembers
<1>3. CASE UNCHANGED connVars
  BY <1>1, <1>3 DEF connVars, DataType
<1>4. QED
  BY <1>2, <1>3 DEF Stop

LEMMA StartTyped ==
  DataType /\ UnitType /\ Start =>
    DataType' /\ service' \in {"active", "waiting", "stopped"}
<1> SUFFICES ASSUME DataType, UnitType, Start
             PROVE  DataType' /\ service' \in {"active", "waiting", "stopped"}
  OBVIOUS
<1>1. CASE service = "active"
  BY <1>1 DEF Start, SameUnit, connVars, DataType
<1>2. CASE service # "active"
  BY <1>2, ConnectionTyped, ClientMembers DEF Start, ServiceConnect
<1>3. QED
  BY <1>1, <1>2

LEMMA ServiceTyped ==
  DataType /\ UnitType /\ ServiceSteps => DataType' /\ UnitType'
<1> SUFFICES ASSUME DataType, UnitType, ServiceSteps PROVE DataType' /\ UnitType'
  OBVIOUS
<1>1. CASE Cycle
  BY <1>1, ConnectionTyped, ClientMembers DEF Cycle, UnitType
<1>2. CASE ServiceCrashes
  BY <1>2, ConnectionTyped, ClientMembers DEF ServiceCrashes, UnitType
<1>3. CASE AutoRestart \/ OperatorStarts
  BY <1>3, ConnectionTyped, ClientMembers
     DEF AutoRestart, OperatorStarts, ServiceConnect, UnitType
<1>4. QED
  BY <1>1, <1>2, <1>3 DEF ServiceSteps

LEMMA CommandTyped ==
  DataType /\ UnitType /\ CommandSteps => DataType' /\ UnitType'
<1> SUFFICES ASSUME DataType, UnitType, CommandSteps PROVE DataType' /\ UnitType'
  OBVIOUS
<1>1. CASE CommandOpens \/ CommandCommits \/ CommandCloses \/ CommandDies
  BY <1>1, ConnectionTyped, ClientMembers
     DEF CommandOpens, CommandCommits, CommandCloses, CommandDies, UnitType, Disturb
<1>2. CASE CommandLocks \/ CommandUnlocks
  BY <1>2 DEF CommandLocks, CommandUnlocks, connVars, DataType, UnitType
<1>3. QED
  BY <1>1, <1>2 DEF CommandSteps

\* Pruning only removes.
LEMMA PrunedWithin == \A files : Pruned(files) \subseteq files
  BY DEF Pruned

LEMMA BackupTyped ==
  DataType /\ UnitType /\ BackupType /\ Backup =>
    DataType' /\ UnitType' /\ BackupType'
<1> SUFFICES ASSUME DataType, UnitType, BackupType, Backup
             PROVE  DataType' /\ UnitType' /\ BackupType'
  OBVIOUS
<1>1. DataType' /\ UnitType'
  BY DEF Backup, Disturb, DataType, UnitType
<1>2. PICK n \in Name \ named, whole \in BOOLEAN :
        LET file == [name |-> n, whole |-> whole,
                     txs |-> IF whole THEN Stored ELSE {}]
        IN /\ named' = named \cup {n}
           /\ \/ /\ whole
                 /\ backups' = Pruned(backups \cup {file})
                 /\ reported' = IF \A b \in backups : b.name < n THEN n ELSE 0
              \/ /\ backups' = backups \cup {file}
                 /\ UNCHANGED reported
  BY DEF Backup
<1> DEFINE file == [name |-> n, whole |-> whole, txs |-> IF whole THEN Stored ELSE {}]
<1>3. file \in BackupFile
  BY DEF BackupFile, Stored, DataType
<1>4. backups' \subseteq backups \cup {file}
  BY <1>2, PrunedWithin
<1>5. BackupType'
  BY <1>2, <1>3, <1>4 DEF BackupType
<1>6. QED
  BY <1>1, <1>5

\* The script goes on from a stage, or fails at it and goes on.
LEMMA FromTyped ==
  ASSUME script \in ScriptType, NEW stage, NEW next \in Stage,
         From(stage, next) \/ Unproven(stage, next)
  PROVE  script' \in ScriptType /\ script'.at = next
  BY DEF From, Unproven, ScriptType

LEMMA ExitTyped ==
  ASSUME script \in ScriptType, DataType, UnitType, BackupType,
         NEW stage \in {"ended", "killed"},
         NEW verdict \in {"none", "refused", "completed", "recovered", "unproven"},
         Exit(stage, verdict)
  PROVE  /\ script' \in ScriptType
         /\ DataType' /\ UnitType' /\ BackupType'
<1>1. script' \in ScriptType
  BY DEF Exit, ScriptType, Stage
<1>2. QED
  BY <1>1 DEF Exit, connVars, backupVars, DataType, UnitType, BackupType

RestOfTypes == DataType /\ UnitType /\ BackupType

LEMMA OnlyScriptTyped == RestOfTypes /\ OnlyScript => RestOfTypes'
  BY DEF RestOfTypes, OnlyScript, connVars, backupVars, DataType, UnitType, BackupType

\* A step that stops or starts the unit, or leaves it alone.
LEMMA UnitStepTyped ==
  ASSUME RestOfTypes, SameRest, Stop \/ Start \/ SameUnit
  PROVE  RestOfTypes'
<1>1. DataType' /\ service' \in {"active", "waiting", "stopped"}
  BY StopTyped, StartTyped DEF RestOfTypes, SameUnit, connVars, DataType, UnitType
<1>2. QED
  BY <1>1 DEF RestOfTypes, SameRest, backupVars, UnitType, BackupType

LEMMA RestoreTyped ==
  ASSUME script \in ScriptType, RestOfTypes,
         \/ RestoreOpensLock \/ RestoreLocks \/ RestoreRefused \/ RestoreChecks
         \/ RestoreArms \/ RestoreStops \/ RestoreCopiesMain \/ RestoreCopiesLog
         \/ RestoreClears \/ RestoreMoves \/ RestoreStarts \/ RestoreDisarms
         \/ RestoreCompletes \/ RestoreAborts \/ RestoreKilled
  PROVE  script' \in ScriptType /\ RestOfTypes'
<1> USE DEF RestOfTypes
<1>1. CASE RestoreOpensLock
  BY <1>1 DEF RestoreOpensLock, connVars, backupVars, DataType, UnitType, BackupType
<1>2. CASE RestoreLocks
  <2>1. Stored \subseteq Tx
    BY DEF Stored, DataType
  <2>2. PICK b \in backups :
          script' = [script EXCEPT !.at = "locked", !.chosen = b,
                                   !.found = [txs |-> Stored, tx |-> tx]]
    BY <1>2 DEF RestoreLocks
  <2>3. b \in BackupFile /\ "locked" \in Stage
    BY DEF BackupType, Stage
  <2>4. [txs |-> Stored, tx |-> tx] \in [txs : SUBSET Tx, tx : 0 .. MaxTx]
    BY <2>1 DEF DataType
  <2>5. script' \in ScriptType
    BY <2>2, <2>3, <2>4 DEF ScriptType
  <2>6. QED
    BY <1>2, <2>5
       DEF RestoreLocks, connVars, backupVars, DataType, UnitType, BackupType
<1>3. CASE RestoreRefused \/ RestoreCompletes \/ RestoreKilled
  BY <1>3, ExitTyped DEF RestoreRefused, RestoreCompletes, RestoreKilled
<1>4. CASE RestoreChecks \/ RestoreDisarms \/ RestoreAborts
  <2>1. {"checked", "disarmed", "rollback"} \subseteq Stage
    BY DEF Stage, Armed, Touching
  <2>2. CASE RestoreChecks
    BY <2>1, <2>2, OnlyScriptTyped DEF RestoreChecks, ScriptType
  <2>3. CASE RestoreDisarms
    BY <2>1, <2>3, OnlyScriptTyped DEF RestoreDisarms, ScriptType
  <2>4. CASE RestoreAborts
    BY <2>1, <2>4, OnlyScriptTyped DEF RestoreAborts, ScriptType
  <2>5. QED
    BY <1>4, <2>2, <2>3, <2>4
<1>5. CASE RestoreArms
  BY <1>5, FromTyped, OnlyScriptTyped DEF RestoreArms, Stage, Armed
<1>6. CASE RestoreStops
  BY <1>6, FromTyped, UnitStepTyped DEF RestoreStops, Stage, Armed
<1>7. CASE RestoreStarts
  BY <1>7, FromTyped, UnitStepTyped DEF RestoreStarts, Stage, Armed
<1>8. CASE RestoreCopiesMain \/ RestoreCopiesLog
  <2>1. {"copying", "copied"} \subseteq Stage
    BY DEF Stage, Armed
  <2>2. /\ main.txs \in SUBSET Tx /\ wal.txs \in SUBSET Tx
        /\ script.saved \in [txs : SUBSET Tx, log : SUBSET Tx]
    BY DEF DataType, ScriptType
  <2>3. /\ [script.saved EXCEPT !.txs = main.txs] \in
             [txs : SUBSET Tx, log : SUBSET Tx]
        /\ [script.saved EXCEPT !.log = wal.txs] \in
             [txs : SUBSET Tx, log : SUBSET Tx]
    BY <2>2
  <2>4. CASE RestoreCopiesMain
    BY <2>1, <2>3, <2>4, OnlyScriptTyped DEF RestoreCopiesMain, ScriptType
  <2>5. CASE RestoreCopiesLog
    BY <2>1, <2>3, <2>5, OnlyScriptTyped DEF RestoreCopiesLog, ScriptType
  <2>6. QED
    BY <1>8, <2>4, <2>5
<1>9. CASE RestoreClears
  <2>1. script' \in ScriptType
    BY <1>9 DEF RestoreClears, ScriptType, Stage, Armed, Touching
  <2>2. QED
    BY <1>9, <2>1
       DEF RestoreClears, SameConnections, SameRest, backupVars, DataType,
           UnitType, BackupType, File, NoWal
<1>10. CASE RestoreMoves
  <2>1. script' \in ScriptType
    BY <1>10, FromTyped DEF RestoreMoves, Stage, Armed
  <2>2. script.chosen.txs \subseteq Tx
    BY <1>10 DEF RestoreMoves, BackupType, BackupFile
  <2>3. QED
    BY <1>10, <2>1, <2>2
       DEF RestoreMoves, SameConnections, SameRest, backupVars, DataType,
           UnitType, BackupType, File
<1>11. QED
  BY <1>1, <1>2, <1>3, <1>4, <1>5, <1>6, <1>7, <1>8, <1>9, <1>10

LEMMA RollbackTyped ==
  ASSUME script \in ScriptType, RestOfTypes,
         \/ RollbackSkips \/ RollbackStops \/ RollbackRemovesMain
         \/ RollbackRemovesLog \/ RollbackReturnsMain \/ RollbackReturnsLog
         \/ RollbackRevives \/ RollbackEnds
  PROVE  script' \in ScriptType /\ RestOfTypes'
<1> USE DEF RestOfTypes
<1>1. CASE RollbackSkips
  BY <1>1, FromTyped, OnlyScriptTyped DEF RollbackSkips, Stage, Touching
<1>2. CASE RollbackStops
  BY <1>2, FromTyped, UnitStepTyped DEF RollbackStops, Stage, Touching
<1>3. CASE RollbackRemovesMain \/ RollbackRemovesLog
  <2>1. script' \in ScriptType
    BY <1>3, FromTyped DEF RollbackRemovesMain, RollbackRemovesLog, Stage, Touching
  <2>2. QED
    BY <1>3, <2>1
       DEF RollbackRemovesMain, RollbackRemovesLog, SameConnections, SameRest, backupVars, DataType,
           UnitType, BackupType, File, NoWal
<1>4. CASE RollbackReturnsMain
  <2>1. script' \in ScriptType
    BY <1>4, FromTyped DEF RollbackReturnsMain, Stage, Touching
  <2>2. script.saved.txs \subseteq Tx
    BY DEF ScriptType
  <2>3. QED
    BY <1>4, <2>1, <2>2
       DEF RollbackReturnsMain, SameConnections, SameRest, backupVars, DataType,
           UnitType, BackupType, File
<1>5. CASE RollbackReturnsLog
  <2>1. script' \in ScriptType
    BY <1>5, FromTyped DEF RollbackReturnsLog, Stage, Touching
  <2>2. script.saved.log \subseteq Tx
    BY DEF ScriptType
  <2>3. QED
    BY <1>5, <2>1, <2>2
       DEF RollbackReturnsLog, ReturnedLog, SameConnections, SameRest, backupVars,
           DataType, UnitType, BackupType, File
<1>6. CASE RollbackRevives
  BY <1>6, FromTyped, UnitStepTyped DEF RollbackRevives, Stage, Touching
<1>7. CASE RollbackEnds
  BY <1>7, ExitTyped DEF RollbackEnds
<1>8. QED
  BY <1>1, <1>2, <1>3, <1>4, <1>5, <1>6, <1>7

LEMMA TypesStart == Init => TypeOK
<1> SUFFICES ASSUME Init PROVE TypeOK
  OBVIOUS
<1>1. LockTypeOK
  BY LockStarts DEF Init, LockInv
<1>2. DataType
  BY RecoveryAssumption DEF Init, DataType, Tx, File, NoFile
<1>3. UnitType /\ BackupType
  <2>1. UnitType /\ reported \in Name \cup {0}
    BY DEF Init, UnitType
  <2>2. PICK n \in Name : /\ backups = {[name |-> n, txs |-> {}, whole |-> TRUE]}
                          /\ named = {n}
    BY DEF Init
  <2>3. [name |-> n, txs |-> {}, whole |-> TRUE] \in BackupFile
    BY DEF BackupFile
  <2>4. QED
    BY <2>1, <2>2, <2>3 DEF BackupType
<1>4. script \in ScriptType
  BY RecoveryAssumption DEF Init, ScriptType, Stage
<1>5. QED
  BY <1>1, <1>2, <1>3, <1>4, TypeParts

LEMMA TypesStep == LockInv /\ TypeOK /\ [Next]_vars => TypeOK'
<1> SUFFICES ASSUME LockInv, TypeOK, [Next]_vars PROVE TypeOK'
  OBVIOUS
<1>1. LockTypeOK'
  BY LockStep, StepsLock DEF LockInv
<1>2. RestOfTypes /\ script \in ScriptType
  BY TypeParts DEF RestOfTypes
<1>3. (ServiceSteps \/ CommandSteps) => RestOfTypes' /\ script' \in ScriptType
  <2>1. (ServiceSteps \/ CommandSteps) => UNCHANGED <<backupVars, script>>
    BY DEF ServiceSteps, Cycle, ServiceCrashes, AutoRestart, OperatorStarts,
           CommandSteps, CommandOpens, CommandLocks, CommandCommits,
           CommandUnlocks, CommandCloses, CommandDies
  <2>2. QED
    BY <1>2, <2>1, ServiceTyped, CommandTyped
       DEF RestOfTypes, backupVars, BackupType
<1>4. Backup => RestOfTypes' /\ script' \in ScriptType
  BY <1>2, BackupTyped DEF RestOfTypes, Backup
<1>5. (ScriptSteps \/ RestoreKilled) => RestOfTypes' /\ script' \in ScriptType
  BY <1>2, RestoreTyped, RollbackTyped DEF ScriptSteps
<1>6. UNCHANGED vars => RestOfTypes' /\ script' \in ScriptType
  BY <1>2 DEF vars, connVars, backupVars, RestOfTypes, DataType, UnitType, BackupType
<1>7. RestOfTypes' /\ script' \in ScriptType
  BY <1>3, <1>4, <1>5, <1>6 DEF Next
<1>8. TypeOK' <=> /\ LockTypeOK' /\ DataType' /\ UnitType' /\ BackupType'
                  /\ (script \in ScriptType)'
  BY TypeParts, PTL
<1>9. QED
  BY <1>1, <1>7, <1>8 DEF RestOfTypes

\* Every variable of the recovery module keeps its type.
THEOREM RecoveryTyped == Spec => []TypeOK
<1>1. Init => LockInv /\ TypeOK
  BY LockStarts, TypesStart DEF Init
<1>2. LockInv /\ TypeOK /\ [Next]_vars => (LockInv /\ TypeOK)'
  BY LockStep, StepsLock, TypesStep
<1>3. QED
  BY <1>1, <1>2, PTL DEF Spec
-----------------------------------------------------------------------------
(* Backups. *)

LEMMA ReportStep == TypeOK /\ BackupReportIsTrue /\ [Next]_vars => BackupReportIsTrue'
<1> SUFFICES ASSUME TypeOK, BackupReportIsTrue, [Next]_vars
             PROVE  BackupReportIsTrue'
  OBVIOUS
<1>1. CASE Backup
  <2>1. PICK n \in Name \ named, whole \in BOOLEAN :
          LET file == [name |-> n, whole |-> whole,
                       txs |-> IF whole THEN Stored ELSE {}]
          IN \/ /\ whole
                /\ backups' = Pruned(backups \cup {file})
                /\ reported' = IF \A b \in backups : b.name < n THEN n ELSE 0
             \/ /\ backups' = backups \cup {file}
                /\ UNCHANGED reported
    BY <1>1 DEF Backup
  <2> DEFINE file == [name |-> n, whole |-> whole,
                      txs |-> IF whole THEN Stored ELSE {}]
             files == backups \cup {file}
  <2>2. CASE backups' = files /\ UNCHANGED reported
    BY <2>2 DEF BackupReportIsTrue
  <2>3. CASE /\ whole
             /\ backups' = Pruned(files)
             /\ reported' = IF \A b \in backups : b.name < n THEN n ELSE 0
    <3>1. CASE \A b \in backups : b.name < n
      <4>1. \A b \in backups : b.name \in Nat
        BY RecoveryAssumption DEF TypeOK, BackupFile
      <4>2. n \in Nat /\ file.name = n /\ file.whole
        BY <2>3, RecoveryAssumption
      <4>3. {c \in files : c.name > file.name} = {}
        <5>1. ASSUME NEW c \in backups PROVE ~(c.name > n)
          BY <3>1, <4>1, <4>2
        <5>2. ~(file.name > n)
          BY <4>2
        <5>3. ASSUME NEW c \in files PROVE ~(c.name > file.name)
          BY <4>2, <5>1, <5>2
        <5> HIDE DEF file, files
        <5>4. QED
          BY <5>3
      <4>4. Cardinality({c \in files : c.name > file.name}) < BackupCount
        BY <4>3, FS_EmptySet, RecoveryAssumption
      <4>5. file \in backups'
        BY <2>3, <4>4 DEF Pruned
      <4>6. QED
        BY <2>3, <3>1, <4>2, <4>5 DEF BackupReportIsTrue
    <3>2. CASE ~ \A b \in backups : b.name < n
      BY <2>3, <3>2 DEF BackupReportIsTrue
    <3>3. QED
      BY <3>1, <3>2
  <2>4. QED
    BY <2>1, <2>2, <2>3
<1>2. CASE ServiceSteps
  BY <1>2 DEF ServiceSteps, Cycle, ServiceCrashes, AutoRestart, OperatorStarts,
              backupVars, BackupReportIsTrue
<1>3. CASE CommandSteps
  BY <1>3 DEF CommandSteps, CommandOpens, CommandLocks, CommandCommits,
              CommandUnlocks, CommandCloses, CommandDies, backupVars,
              BackupReportIsTrue
<1>4. CASE ScriptSteps \/ RestoreKilled
  <2>1. UNCHANGED backupVars
    BY <1>4
       DEF ScriptSteps, RestoreKilled, RestoreOpensLock, RestoreLocks,
           RestoreRefused, RestoreChecks, RestoreArms, RestoreStops,
           RestoreCopiesMain, RestoreCopiesLog, RestoreClears, RestoreMoves,
           RestoreStarts, RestoreDisarms, RestoreCompletes, RestoreAborts,
           RollbackSkips, RollbackStops, RollbackRemovesMain, RollbackRemovesLog,
           RollbackReturnsMain, RollbackReturnsLog, RollbackRevives, RollbackEnds, OnlyScript,
           SameRest, Exit
  <2>2. QED
    BY <2>1 DEF backupVars, BackupReportIsTrue
<1>5. CASE UNCHANGED vars
  BY <1>5 DEF vars, backupVars, BackupReportIsTrue
<1>6. QED
  BY <1>1, <1>2, <1>3, <1>4, <1>5 DEF Next

\* For any number of names and any backup count: what was reported under the
\* greatest name is there until a later backup is reported.
THEOREM ReportedBackupsStay == Spec => []BackupReportIsTrue
<1>1. Init => LockInv /\ TypeOK /\ BackupReportIsTrue
  BY LockStarts, TypesStart DEF Init, BackupReportIsTrue
<1>2. /\ LockInv /\ TypeOK /\ BackupReportIsTrue
      /\ [Next]_vars
      => (LockInv /\ TypeOK /\ BackupReportIsTrue)'
  BY LockStep, StepsLock, TypesStep, ReportStep
<1>3. QED
  BY <1>1, <1>2, PTL DEF Spec
-----------------------------------------------------------------------------
(* No transaction is lost. *)

Saved == script.saved.txs \cup script.saved.log

\* A file that is absent holds nothing.
Absent ==
  /\ main.file = NoFile => main.txs = {}
  /\ wal.of = NoFile => wal.txs = {}

\* Until the copy is complete the database itself holds what must be kept;
\* from then on, while the files are being replaced, the copy does.
LossInv ==
  /\ kept \subseteq Stored \cup Saved
  /\ script.at \in {"ready", "locked", "checked", "armed", "stopped", "copying"} =>
       kept \subseteq Stored
  /\ script.at = "copying" => script.saved.txs = main.txs
  /\ script.mutated \/ script.at \in {"copied", "disarmed"} =>
       kept \subseteq Saved /\ script.at \in Touching
  /\ script.at \in {"cleared", "moved", "started", "wiping", "unlinking", "wiped",
                   "returning"} => script.mutated
  /\ Absent

Safe == disturbed \/ LossInv

\* Opening and closing loses nothing that is stored.
LEMMA ConnectionKeeps ==
  ASSUME DataType, Absent, NEW p \in Client,
         Connect(p) \/ Disconnect(p) \/ Drop(p)
  PROVE  /\ Stored \subseteq Stored' /\ kept' = kept /\ Absent'
<1>1. CASE Connect(p)
  BY <1>1 DEF Connect, Stored, Absent, NoFile, NoWal, DataType
<1>2. CASE Disconnect(p)
  BY <1>2 DEF Disconnect, Stored, Absent, NoFile, NoWal, DataType
<1>3. CASE Drop(p)
  BY <1>3 DEF Drop, Stored, Absent
<1>4. QED
  BY <1>1, <1>2, <1>3

\* A commit that must be kept is stored.
LEMMA CommitKeeps ==
  ASSUME DataType, Absent, NEW p \in Client, Commit(p)
  PROVE  /\ Stored \subseteq Stored' /\ kept' \subseteq kept \cup Stored'
         /\ script.at \in Touching => kept' = kept
         /\ Absent' /\ main' = main
<1>1. CASE opened[p] = main.file
  BY <1>1 DEF Commit, Stored, Absent, DataType
<1>2. CASE opened[p] # main.file
  BY <1>2 DEF Commit, Stored, Absent, DataType
<1>3. QED
  BY <1>1, <1>2

\* A step of another process, or one of the script that leaves the files.
LEMMA LossStep ==
  ASSUME LossInv,
         script'.saved = script.saved, script'.mutated = script.mutated,
         script'.at = script.at,
         Stored \subseteq Stored', kept' \subseteq kept \cup Stored',
         script.at \in Touching => kept' = kept,
         Absent',
         script.at = "copying" => main'.txs = main.txs
  PROVE  LossInv'
<1>1. kept' \subseteq Stored' \cup Saved'
  BY DEF LossInv, Saved
<1>2. script.at \in {"ready", "locked", "checked", "armed", "stopped", "copying"} =>
        kept' \subseteq Stored'
  BY DEF LossInv
<1>3. script.mutated \/ script.at \in {"copied", "disarmed"} =>
        kept' \subseteq Saved' /\ script.at \in Touching
  BY DEF LossInv, Saved
<1>4. QED
  BY <1>1, <1>2, <1>3 DEF LossInv

LEMMA SafeStarts == Init => Safe
  BY DEF Init, Safe, LossInv, Stored, Saved, Absent, NoFile

\* No step outside the script breaks it, unless it disturbs the script.
LEMMA OthersLoseNothing ==
  ASSUME TypeOK, LossInv, ServiceSteps \/ CommandSteps \/ Backup
  PROVE  disturbed' \/ LossInv'
<1>1. DataType
  BY TypeParts
<1>2. Absent
  BY DEF LossInv
<1>3. script' = script
  BY DEF ServiceSteps, Cycle, ServiceCrashes, AutoRestart, OperatorStarts,
         CommandSteps, CommandOpens, CommandLocks, CommandCommits,
         CommandUnlocks, CommandCloses, CommandDies, Backup
<1>4. CASE Cycle
  <2>1. Commit("service")
    BY <1>4 DEF Cycle
  <2>2. QED
    BY <1>1, <1>2, <1>3, <2>1, CommitKeeps, LossStep, ClientMembers
<1>5. CASE CommandCommits
  <2>1. Commit("command")
    BY <1>5 DEF CommandCommits
  <2>2. QED
    BY <1>1, <1>2, <1>3, <2>1, CommitKeeps, LossStep, ClientMembers
<1>6. CASE ServiceCrashes \/ CommandDies
  <2>1. PICK p \in Client : Drop(p)
    BY <1>6, ClientMembers DEF ServiceCrashes, CommandDies
  <2>2. main' = main
    BY <2>1 DEF Drop
  <2>3. QED
    BY <1>1, <1>2, <1>3, <2>1, <2>2, ConnectionKeeps, LossStep
<1>7. CASE AutoRestart \/ OperatorStarts
  <2>1. Connect("service")
    BY <1>7 DEF AutoRestart, OperatorStarts, ServiceConnect
  <2>2. main'.txs = main.txs
    BY <1>2, <2>1 DEF Connect, Absent
  <2>3. QED
    BY <1>1, <1>2, <1>3, <2>1, <2>2, ConnectionKeeps, LossStep, ClientMembers
<1>8. CASE CommandOpens \/ CommandCloses
  <2>1. Connect("command") \/ Disconnect("command")
    BY <1>8 DEF CommandOpens, CommandCloses
  <2>2. disturbed' \/ script.at # "copying"
    BY <1>8 DEF CommandOpens, CommandCloses, Disturb, Touching, Armed
  <2>3. QED
    BY <1>1, <1>2, <1>3, <2>1, <2>2, ConnectionKeeps, LossStep, ClientMembers
<1>9. CASE CommandLocks \/ CommandUnlocks \/ Backup
  <2>1. main' = main /\ wal' = wal /\ kept' = kept
    BY <1>9 DEF CommandLocks, CommandUnlocks, Backup, connVars
  <2>2. Stored' = Stored /\ Absent'
    BY <1>2, <2>1 DEF Stored, Absent
  <2>3. QED
    BY <1>3, <2>1, <2>2, LossStep
<1>10. QED
  BY <1>4, <1>5, <1>6, <1>7, <1>8, <1>9 DEF ServiceSteps, CommandSteps

\* Stopping and starting the unit.
LEMMA UnitKeeps ==
  ASSUME TypeOK, LossInv, Stop \/ Start \/ SameUnit
  PROVE  /\ Stored \subseteq Stored' /\ kept' = kept /\ Absent'
<1>1. DataType /\ Absent
  BY TypeParts DEF LossInv
<1>2. CASE Connect("service") \/ Disconnect("service") \/ Drop("service")
  BY <1>1, <1>2, ConnectionKeeps, ClientMembers
<1>3. CASE UNCHANGED connVars
  BY <1>1, <1>3 DEF connVars, Stored, Absent
<1>4. QED
  BY <1>2, <1>3 DEF Stop, Start, SameUnit, ServiceConnect

\* Steps that change nothing but the script.
LEMMA Unmoved == OnlyScript => /\ Stored' = Stored /\ kept' = kept
                               /\ main' = main /\ wal' = wal
                               /\ Absent' = Absent
  BY DEF OnlyScript, connVars, Stored, Absent

LEMMA ExitLosesNothing ==
  ASSUME LossInv, script \in ScriptType, NEW stage \in {"ended", "killed"},
         NEW verdict, Exit(stage, verdict)
  PROVE  LossInv'
<1>1. /\ Stored' = Stored /\ kept' = kept /\ main' = main /\ Absent'
  BY DEF Exit, connVars, Stored, Absent, LossInv
<1>2. script'.saved = script.saved /\ ~script'.mutated /\ script'.at = stage
  BY DEF Exit, ScriptType
<1>3. Saved' = Saved
  BY <1>2 DEF Saved
<1>4. QED
  BY <1>1, <1>2, <1>3 DEF LossInv

LEMMA RestoreLosesNothing ==
  ASSUME TypeOK, LossInv,
         \/ RestoreOpensLock \/ RestoreLocks \/ RestoreRefused \/ RestoreChecks
         \/ RestoreArms \/ RestoreStops \/ RestoreCopiesMain \/ RestoreCopiesLog
         \/ RestoreClears \/ RestoreMoves \/ RestoreStarts \/ RestoreDisarms
         \/ RestoreCompletes \/ RestoreAborts \/ RestoreKilled
  PROVE  LossInv'
<1>1. script \in ScriptType /\ Absent /\ DataType
  BY TypeParts DEF LossInv
<1>2. CASE RestoreOpensLock
  <2>1. Stored' = Stored /\ kept' = kept /\ main' = main /\ Absent' /\ script' = script
    BY <1>1, <1>2 DEF RestoreOpensLock, connVars, Stored, Absent
  <2>2. QED
    BY <2>1, LossStep
<1>3. CASE RestoreLocks
  <2>1. Stored' = Stored /\ kept' = kept /\ Absent'
    BY <1>1, <1>3 DEF RestoreLocks, connVars, Stored, Absent
  <2>2. /\ script.at = "ready" /\ script'.at = "locked"
        /\ script'.saved = script.saved /\ script'.mutated = script.mutated
    BY <1>1, <1>3 DEF RestoreLocks, ScriptType
  <2>3. ~script.mutated
    BY <2>2 DEF LossInv, Touching, Armed
  <2>4. QED
    BY <2>1, <2>2, <2>3 DEF LossInv, Saved
<1>4. CASE RestoreRefused \/ RestoreCompletes \/ RestoreKilled
  BY <1>1, <1>4, ExitLosesNothing DEF RestoreRefused, RestoreCompletes, RestoreKilled
<1>5. CASE RestoreChecks \/ RestoreArms
  <2>1. OnlyScript
    BY <1>5 DEF RestoreChecks, RestoreArms
  <2>2. /\ script.at \in {"locked", "checked"}
        /\ script'.at \in {"checked", "armed"}
        /\ script'.saved = script.saved /\ script'.mutated = script.mutated
    BY <1>1, <1>5 DEF RestoreChecks, RestoreArms, From, ScriptType
  <2>3. ~script.mutated
    BY <2>2 DEF LossInv, Touching, Armed
  <2>4. QED
    BY <2>1, <2>2, <2>3, Unmoved DEF LossInv, Saved
<1>6. CASE RestoreStops
  <2>1. /\ Stored \subseteq Stored' /\ kept' = kept /\ Absent'
    BY <1>6, UnitKeeps DEF RestoreStops
  <2>2. /\ script.at = "armed" /\ script'.at = "stopped"
        /\ script'.saved = script.saved /\ script'.mutated = script.mutated
    BY <1>1, <1>6 DEF RestoreStops, From, ScriptType
  <2>3. ~script.mutated
    BY <2>2 DEF LossInv, Touching, Armed
  <2>4. QED
    BY <2>1, <2>2, <2>3 DEF LossInv, Saved
<1>7. CASE RestoreCopiesMain
  <2>1. OnlyScript
    BY <1>7 DEF RestoreCopiesMain
  <2>2. /\ script.at = "stopped" /\ script'.at = "copying"
        /\ script'.saved.txs = main.txs /\ script'.mutated = script.mutated
    BY <1>1, <1>7 DEF RestoreCopiesMain, ScriptType
  <2>3. ~script.mutated
    BY <2>2 DEF LossInv, Touching, Armed
  <2>4. QED
    BY <2>1, <2>2, <2>3, Unmoved DEF LossInv
<1>8. CASE RestoreCopiesLog
  <2>1. OnlyScript
    BY <1>8 DEF RestoreCopiesLog
  <2>2. /\ script.at = "copying" /\ script'.at = "copied"
        /\ script'.saved.txs = script.saved.txs /\ script'.saved.log = wal.txs
    BY <1>1, <1>8 DEF RestoreCopiesLog, ScriptType
  <2>3. Stored \subseteq Saved'
    BY <2>2 DEF LossInv, Stored, Saved
  <2>4. "copied" \in Touching
    BY DEF Touching, Armed
  <2>5. QED
    BY <2>1, <2>2, <2>3, <2>4, Unmoved DEF LossInv
<1>9. CASE RestoreClears \/ RestoreMoves
  <2>1. /\ script.at \in {"copied", "cleared"}
        /\ script'.at \in {"cleared", "moved"}
        /\ script'.saved = script.saved /\ script'.mutated
    BY <1>1, <1>9 DEF RestoreClears, RestoreMoves, From, ScriptType, LossInv
  <2>2. kept' = kept /\ Absent'
    BY <1>1, <1>9
       DEF RestoreClears, RestoreMoves, SameConnections, Absent, NoFile, NoWal,
           DataType
  <2>3. script'.at \in Touching
    BY <2>1 DEF Touching, Armed
  <2>4. kept \subseteq Saved
    BY <2>1 DEF LossInv
  <2>5. QED
    BY <2>1, <2>2, <2>3, <2>4 DEF LossInv, Saved
<1>10. CASE RestoreStarts
  <2>1. /\ Stored \subseteq Stored' /\ kept' = kept /\ Absent'
    BY <1>10, UnitKeeps DEF RestoreStarts
  <2>2. /\ script.at = "moved" /\ script'.at = "started"
        /\ script'.saved = script.saved /\ script'.mutated = script.mutated
    BY <1>1, <1>10 DEF RestoreStarts, From, ScriptType
  <2>3. "started" \in Touching
    BY DEF Touching, Armed
  <2>4. QED
    BY <2>1, <2>2, <2>3 DEF LossInv, Saved
<1>11. CASE RestoreDisarms
  <2>1. OnlyScript
    BY <1>11 DEF RestoreDisarms
  <2>2. /\ script.at = "started" /\ script'.at = "disarmed"
        /\ script'.saved = script.saved
    BY <1>1, <1>11 DEF RestoreDisarms, ScriptType
  <2>3. "disarmed" \in Touching
    BY DEF Touching, Armed
  <2>4. QED
    BY <2>1, <2>2, <2>3, Unmoved DEF LossInv, Saved
<1>12. CASE RestoreAborts
  <2>1. OnlyScript
    BY <1>12 DEF RestoreAborts
  <2>2. /\ script'.at = "rollback" /\ script'.saved = script.saved
        /\ script'.mutated = script.mutated
    BY <1>1, <1>12 DEF RestoreAborts, ScriptType
  <2>3. "rollback" \in Touching
    BY DEF Touching
  <2>4. QED
    BY <2>1, <2>2, <2>3, Unmoved DEF LossInv, Saved
<1>13. QED
  BY <1>2, <1>3, <1>4, <1>5, <1>6, <1>7, <1>8, <1>9, <1>10, <1>11, <1>12

LEMMA RollbackLosesNothing ==
  ASSUME TypeOK, LossInv,
         \/ RollbackSkips \/ RollbackStops \/ RollbackRemovesMain
         \/ RollbackRemovesLog \/ RollbackReturnsMain \/ RollbackReturnsLog
         \/ RollbackRevives \/ RollbackEnds
  PROVE  LossInv'
<1>1. script \in ScriptType /\ Absent /\ DataType
  BY TypeParts DEF LossInv
<1>2. CASE RollbackSkips
  <2>1. OnlyScript
    BY <1>2 DEF RollbackSkips
  <2>2. /\ script'.at = "reviving" /\ script'.saved = script.saved
        /\ ~script'.mutated
    BY <1>1, <1>2 DEF RollbackSkips, From, ScriptType
  <2>3. QED
    BY <2>1, <2>2, Unmoved DEF LossInv, Saved
<1>3. CASE RollbackStops
  <2>1. /\ Stored \subseteq Stored' /\ kept' = kept /\ Absent'
    BY <1>3, UnitKeeps DEF RollbackStops
  <2>2. /\ script'.at = "wiping" /\ script'.saved = script.saved
        /\ script.mutated /\ script'.mutated
    BY <1>1, <1>3 DEF RollbackStops, From, Unproven, ScriptType
  <2>3. "wiping" \in Touching
    BY DEF Touching
  <2>4. QED
    BY <2>1, <2>2, <2>3 DEF LossInv, Saved
<1>4. CASE \/ RollbackRemovesMain \/ RollbackRemovesLog
           \/ RollbackReturnsMain \/ RollbackReturnsLog
  <2>1. /\ script.at \in {"wiping", "unlinking", "wiped", "returning"}
        /\ script'.saved = script.saved /\ script'.mutated = script.mutated
        /\ script'.at \in {"unlinking", "wiped", "returning", "reviving"}
    BY <1>1, <1>4 DEF RollbackRemovesMain, RollbackRemovesLog, RollbackReturnsMain,
                      RollbackReturnsLog, From, Unproven, ScriptType
  <2>2. kept' = kept
    BY <1>4 DEF RollbackRemovesMain, RollbackRemovesLog, RollbackReturnsMain,
                RollbackReturnsLog, SameConnections
  <2>3. Absent'
    <3>1. CASE RollbackRemovesMain \/ RollbackRemovesLog
      BY <1>1, <3>1 DEF RollbackRemovesMain, RollbackRemovesLog, Absent, NoWal
    <3>2. CASE RollbackReturnsMain \/ RollbackReturnsLog
      BY <1>1, <3>2
         DEF RollbackReturnsMain, RollbackReturnsLog, ReturnedLog, Absent, NoFile
    <3>3. QED
      BY <1>4, <3>1, <3>2
  <2>4. script.mutated /\ kept \subseteq Saved
    BY <2>1 DEF LossInv
  <2>5. script'.at \in Touching
    BY <2>1 DEF Touching
  <2>6. QED
    BY <2>1, <2>2, <2>3, <2>4, <2>5 DEF LossInv, Saved
<1>5. CASE RollbackRevives
  <2>1. /\ Stored \subseteq Stored' /\ kept' = kept /\ Absent'
    BY <1>5, UnitKeeps DEF RollbackRevives
  <2>2. /\ script'.at = "revived" /\ script'.saved = script.saved
        /\ script'.mutated = script.mutated
    BY <1>1, <1>5 DEF RollbackRevives, From, Unproven, ScriptType
  <2>3. "revived" \in Touching
    BY DEF Touching
  <2>4. QED
    BY <2>1, <2>2, <2>3 DEF LossInv, Saved
<1>6. CASE RollbackEnds
  BY <1>1, <1>6, ExitLosesNothing DEF RollbackEnds
<1>7. QED
  BY <1>2, <1>3, <1>4, <1>5, <1>6

LEMMA SafeStep == TypeOK /\ Safe /\ [Next]_vars => Safe'
<1> SUFFICES ASSUME TypeOK, Safe, [Next]_vars PROVE Safe'
  OBVIOUS
<1>1. CASE Next
  <2>1. LossInv
    BY <1>1 DEF Next, Safe
  <2>2. QED
    BY <1>1, <2>1, OthersLoseNothing, RestoreLosesNothing, RollbackLosesNothing
       DEF Next, ScriptSteps, Safe
<1>2. CASE UNCHANGED vars
  <2>1. CASE disturbed
    BY <1>2, <2>1 DEF vars, Safe
  <2>2. CASE LossInv
    <3>1. Stored' = Stored /\ kept' = kept /\ main' = main /\ Absent' /\ script' = script
      BY <1>2, <2>2 DEF vars, connVars, Stored, Absent, LossInv
    <3>2. QED
      BY <2>2, <3>1, LossStep DEF Safe
  <2>3. QED
    BY <2>1, <2>2 DEF Safe
<1>3. QED
  BY <1>1, <1>2

\* Wherever restore.sh ends or dies, and whatever the collector, a command and
\* backups do beside it: what was committed before it handled the files is in
\* the database or in its rollback directory.
THEOREM NothingIsLost == Spec => []NoSilentLoss
<1>1. Init => LockInv /\ TypeOK /\ Safe
  BY LockStarts, TypesStart, SafeStarts DEF Init
<1>2. LockInv /\ TypeOK /\ Safe /\ [Next]_vars => (LockInv /\ TypeOK /\ Safe)'
  BY LockStep, StepsLock, TypesStep, SafeStep
<1>3. Safe => NoSilentLoss
  BY DEF Safe, LossInv, Saved, NoSilentLoss
<1>4. QED
  BY <1>1, <1>2, <1>3, PTL DEF Spec
=============================================================================
