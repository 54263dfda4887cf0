------------------------------ MODULE Recovery ------------------------------
(***************************************************************************)
(* Backups, pruning and deploy/scripts/restore.sh, run while the collector *)
(* service, node-provision and a backup run use the database under the     *)
(* operations lock.                                                        *)
(*                                                                         *)
(* A transaction is a number.  A database is a main file and its           *)
(* write-ahead log; a connection is attached to the file it opened, and    *)
(* what it commits elsewhere than the file at the path is never read       *)
(* again.  Removing the log of a file detaches it too.                     *)
(***************************************************************************)
EXTENDS OperationsLock, Integers

CONSTANTS
  MaxTx,        \* bound: transactions
  Name,         \* the names of backup files, in the order of sort.Strings
  BackupCount   \* retention.backup_count

ASSUME RecoveryAssumption ==
  /\ Process = {"service", "command", "backup", "restore"}
  /\ MaxTx \in Nat \ {0}
  /\ Name \subseteq Nat \ {0}
  /\ BackupCount \in Nat \ {0}

VARIABLES
  main,       \* the file at the database's path and what it holds
  wal,        \* the log at its path: the file it belongs to, what it holds
  opened,     \* the file each process is connected to
  service,    \* the collector's unit
  backups,    \* the files in the backup directory
  named,      \* history: the names backups have had
  reported,   \* the last backup reported, if its name was the greatest
  script,     \* restore.sh: where it is, and its variables
  tx,         \* the transactions committed
  kept,       \* history: transactions no restore was allowed to lose
  disturbed   \* history: another program used the database under the script

connVars == <<main, wal, opened, tx, kept>>
backupVars == <<backups, named, reported>>
vars == <<lockVars, connVars, disturbed, service, backupVars, script>>

Tx == 1 .. MaxTx
NoFile == "none"
File == {"original", "stripped", "installed", "returned", "fresh"}
NoWal == [of |-> NoFile, txs |-> {}]
Client == Process \ {"restore"}
BackupFile == [name : Name, txs : SUBSET Tx, whole : BOOLEAN]

\* From the trap (line 74) on, a failure or a signal runs restore_original.
Armed == {"armed", "stopped", "copying", "copied", "cleared", "moved",
          "started", "disarmed"}
\* The stages from the copy on, at which the database belongs to the script.
Touching == (Armed \ {"armed", "stopped"}) \cup
            {"rollback", "wiping", "unlinking", "wiped", "returning", "reviving",
             "revived"}
Stage == {"ready", "locked", "checked", "ended", "killed"} \cup Armed \cup Touching

\* saved is what the rollback directory holds of the database; found is the
\* database at the time the script got the lock.
ScriptType ==
  [at : Stage,
   chosen : BackupFile \cup {[name |-> 0, txs |-> {}, whole |-> FALSE]},
   saved : [txs : SUBSET Tx, log : SUBSET Tx],
   found : [txs : SUBSET Tx, tx : 0 .. MaxTx],
   mutated : BOOLEAN,    \* DATABASE_MUTATED
   wasActive : BOOLEAN,  \* COLLECTOR_WAS_ACTIVE
   proven : BOOLEAN,     \* rollback_ok
   late : BOOLEAN,       \* interrupted after mutated was reset
   verdict : {"none", "refused", "completed", "recovered", "unproven"}]

TypeOK ==
  /\ LockTypeOK
  /\ main \in [file : File \cup {NoFile}, txs : SUBSET Tx]
  /\ wal \in [of : File \cup {NoFile}, txs : SUBSET Tx]
  /\ opened \in [Client -> File \cup {NoFile}]
  /\ service \in {"active", "waiting", "stopped"}
  /\ backups \subseteq BackupFile /\ named \subseteq Name
  /\ reported \in Name \cup {0}
  /\ script \in ScriptType
  /\ tx \in 0 .. MaxTx /\ kept \subseteq Tx
  /\ disturbed \in BOOLEAN

\* What opening the database and replaying its log reads.
Stored == main.txs \cup IF wal.of = main.file THEN wal.txs ELSE {}

\* A collector that has committed once, and a backup from before that.
Init ==
  /\ LockInit
  /\ main = [file |-> "original", txs |-> {}]
  /\ wal = [of |-> "original", txs |-> {1}]
  /\ opened = [p \in Client |-> IF p = "service" THEN "original" ELSE NoFile]
  /\ service = "active"
  /\ \E n \in Name : /\ backups = {[name |-> n, txs |-> {}, whole |-> TRUE]}
                     /\ named = {n}
  /\ reported = 0
  /\ script = [at |-> "ready",
               chosen |-> [name |-> 0, txs |-> {}, whole |-> FALSE],
               saved |-> [txs |-> {}, log |-> {}],
               found |-> [txs |-> {}, tx |-> 0],
               mutated |-> FALSE, wasActive |-> FALSE, proven |-> TRUE,
               late |-> FALSE, verdict |-> "none"]
  /\ tx = 1 /\ kept = {1} /\ disturbed = FALSE
-----------------------------------------------------------------------------
(* The database, as its connections change it. *)

\* storage.Open creates a database where there is none, and SQLite removes a
\* log that was left without one.
Connect(p) ==
  /\ IF main.file = NoFile
     THEN main' = [file |-> "fresh", txs |-> {}] /\ wal' = NoWal
     ELSE UNCHANGED <<main, wal>>
  /\ opened' = [opened EXCEPT ![p] = main'.file]
  /\ UNCHANGED <<tx, kept>>

\* A commit is appended to the log of the file the connection was opened on.
Commit(p) ==
  /\ opened[p] # NoFile
  /\ tx < MaxTx
  /\ tx' = tx + 1
  /\ wal' = IF opened[p] # main.file THEN wal
            ELSE [of |-> main.file,
                  txs |-> {tx'} \cup IF wal.of = main.file THEN wal.txs ELSE {}]
  /\ kept' = IF opened[p] # main.file \/ script.at \in Touching THEN kept
             ELSE kept \cup {tx'}
  /\ UNCHANGED <<main, opened>>

\* The last connection to a file merges its log into it and removes the log.
Disconnect(p) ==
  /\ opened' = [opened EXCEPT ![p] = NoFile]
  /\ IF /\ opened[p] = main.file
        /\ wal.of = main.file
        /\ \A q \in Client \ {p} : opened[q] # main.file
     THEN main' = [main EXCEPT !.txs = Stored] /\ wal' = NoWal
     ELSE UNCHANGED <<main, wal>>
  /\ UNCHANGED <<tx, kept>>

\* A connection that ends without being closed leaves the log.
Drop(p) ==
  /\ opened' = [opened EXCEPT ![p] = NoFile]
  /\ UNCHANGED <<main, wal, tx, kept>>

Disturb == disturbed' = (disturbed \/ script.at \in Touching)
-----------------------------------------------------------------------------
(* The collector under systemd. *)

ServiceConnect == service' = "active" /\ Connect("service")

\* A cycle writes its snapshot under the lock, or is skipped when it is busy.
Cycle ==
  /\ service = "active"
  /\ Visit("service")
  /\ Commit("service")
  /\ UNCHANGED <<service, disturbed, backupVars, script>>

\* Restart=on-failure: a new start after RestartSec, or none any more.
ServiceCrashes ==
  /\ service = "active"
  /\ service' \in {"waiting", "stopped"}
  /\ Drop("service")
  /\ RemoveDirectory("service")
  /\ UNCHANGED <<disturbed, backupVars, script>>

AutoRestart ==
  /\ service = "waiting"
  /\ ServiceConnect
  /\ UNCHANGED <<lockVars, disturbed, backupVars, script>>

\* A boot, or the operator, after the script died.
OperatorStarts ==
  /\ service = "stopped" /\ script.at = "killed"
  /\ ServiceConnect
  /\ UNCHANGED <<lockVars, disturbed, backupVars, script>>
-----------------------------------------------------------------------------
(* node-provision opens the database first; the lock is taken and released *)
(* in Manager.Execute, and the database closed last.                       *)

CommandOpens ==
  /\ opened["command"] = NoFile
  /\ Connect("command")
  /\ Disturb
  /\ UNCHANGED <<lockVars, service, backupVars, script>>

CommandLocks ==
  /\ opened["command"] # NoFile
  /\ TryAcquire("command")
  /\ UNCHANGED <<connVars, disturbed, service, backupVars, script>>

CommandCommits ==
  /\ "command" \in held
  /\ Commit("command")
  /\ Disturb
  /\ UNCHANGED <<lockVars, service, backupVars, script>>

CommandUnlocks ==
  /\ "command" \in held
  /\ Close("command")
  /\ UNCHANGED <<connVars, disturbed, service, backupVars, script>>

CommandCloses ==
  /\ opened["command"] # NoFile
  /\ fd["command"] = None
  /\ Disconnect("command")
  /\ Disturb
  /\ UNCHANGED <<lockVars, service, backupVars, script>>

CommandDies ==
  /\ opened["command"] # NoFile
  /\ Drop("command")
  /\ Close("command")
  /\ UNCHANGED <<disturbed, service, backupVars, script>>
-----------------------------------------------------------------------------
(* node-audit-maintenance backup: the lock is held from before the database *)
(* is opened to after it is closed, so that a run is one step.              *)

\* Fault: the names sorted in ascending order.
PrunedAscending(files) ==
  {b \in files : Cardinality({c \in files : c.name < b.name}) < BackupCount}

\* The names pruneBackups leaves: the greatest ones.
Pruned(files) ==
  {b \in files : Cardinality({c \in files : c.name > b.name}) < BackupCount}

\* VACUUM INTO a new name.  The clock, and within a second a random suffix,
\* order the names: any unused one may come.  A run that dies leaves an
\* unfinished file, or a file and nothing pruned.
Backup ==
  /\ Visit("backup")
  /\ main.file # NoFile
  /\ \E n \in Name \ named, whole \in BOOLEAN :
       LET file == [name |-> n, whole |-> whole,
                    txs |-> IF whole THEN Stored ELSE {}]
       IN /\ named' = named \cup {n}
          /\ \/ /\ whole
                /\ backups' = Pruned(backups \cup {file})
                /\ reported' = IF \A b \in backups : b.name < n THEN n ELSE 0
             \/ /\ backups' = backups \cup {file}
                /\ UNCHANGED reported
  /\ Disturb
  /\ UNCHANGED <<main, wal, opened, tx, kept, service, script>>
-----------------------------------------------------------------------------
(* restore.sh, which is run once; each step is a command of it. *)

\* The script goes on from one stage to the next.
From(stage, next) ==
  script.at = stage /\ script' = [script EXCEPT !.at = next]

\* The step changes nothing but the script's own variables.
OnlyScript == UNCHANGED <<lockVars, connVars, disturbed, service, backupVars>>
SameConnections == UNCHANGED <<opened, tx, kept>>
SameUnit == UNCHANGED <<lockVars, connVars, service>>
SameRest == UNCHANGED <<disturbed, backupVars>>

\* The shell exits: its variables and its descriptor are gone.
Exit(stage, verdict) ==
  /\ script' = [script EXCEPT !.at = stage, !.verdict = verdict,
                              !.mutated = FALSE, !.wasActive = FALSE]
  /\ Close("restore")
  /\ UNCHANGED <<connVars, disturbed, service, backupVars>>

RestoreOpensLock ==
  /\ script.at = "ready"
  /\ OpenLock("restore")
  /\ UNCHANGED <<connVars, disturbed, service, backupVars, script>>

RestoreLocks ==
  /\ script.at = "ready"
  /\ Flock("restore")
  /\ \E b \in backups :
       script' = [script EXCEPT !.at = "locked", !.chosen = b,
                                !.found = [txs |-> Stored, tx |-> tx]]
  /\ UNCHANGED <<connVars, disturbed, service, backupVars>>

\* Before the trap a failure just ends the script: the lock is busy, the
\* chosen file fails its check, or the logical backup cannot be made.
RestoreRefused ==
  /\ fd["restore"] # None
  /\ \/ script.at = "ready" /\ Busy("restore")
     \/ script.at = "locked" /\ ~script.chosen.whole
     \/ script.at = "checked"
  /\ Exit("ended", "refused")

\* PRAGMA integrity_check passes an unfinished copy that is still empty.  A
\* unit that waits for its restart is not active.
RestoreChecks ==
  /\ script.at = "locked"
  /\ script' = [script EXCEPT !.at = "checked",
                              !.wasActive = (service = "active")]
  /\ OnlyScript

RestoreArms == From("checked", "armed") /\ OnlyScript

\* Fault: the stop is only queued.
StopQueued == service' = "stopping" /\ UNCHANGED <<lockVars, connVars>>

\* systemctl stop; it also calls off a restart that waits.
Stop ==
  IF service = "active"
  THEN /\ service' = "stopped"
       /\ Disconnect("service") \/ Drop("service")
       /\ RemoveDirectory("service")
  ELSE service' = "stopped" /\ UNCHANGED <<lockVars, connVars>>

RestoreStops == From("armed", "stopped") /\ Stop /\ SameRest

RestoreCopiesMain ==
  /\ script.at = "stopped"
  /\ script' = [script EXCEPT !.at = "copying", !.saved.txs = main.txs]
  /\ OnlyScript

\* Fault: only the main file is copied.
CopiesNoLog == From("copying", "copied") /\ OnlyScript

RestoreCopiesLog ==
  /\ script.at = "copying"
  /\ script' = [script EXCEPT !.at = "copied", !.saved.log = wal.txs]
  /\ OnlyScript

\* Fault: the old log stays where it is.
ClearsNoLog ==
  /\ script.at = "copied"
  /\ script' = [script EXCEPT !.at = "cleared", !.mutated = TRUE]
  /\ OnlyScript

RestoreClears ==
  /\ script.at = "copied"
  /\ script' = [script EXCEPT !.at = "cleared", !.mutated = TRUE]
  /\ wal' = NoWal
  /\ main' = [main EXCEPT !.file = "stripped"]
  /\ SameConnections /\ UNCHANGED <<lockVars, service>> /\ SameRest

\* Fault: mv does not replace a file that exists.
MovesNoClobber == From("cleared", "moved") /\ OnlyScript

\* install and mv replace the file in one step; the result passes its check.
RestoreMoves ==
  /\ From("cleared", "moved")
  /\ script.chosen \in backups
  /\ main' = [file |-> "installed", txs |-> script.chosen.txs]
  /\ SameConnections /\ UNCHANGED <<lockVars, wal, service>> /\ SameRest

\* systemctl start; it does nothing to an active unit.
Start ==
  IF service = "active" THEN SameUnit ELSE ServiceConnect /\ UNCHANGED lockVars

RestoreStarts ==
  /\ From("moved", "started")
  /\ IF script.wasActive THEN Start ELSE Stop
  /\ SameRest

AsItWas == (service = "active") = script.wasActive

RestoreDisarms ==
  /\ script.at = "started" /\ AsItWas
  /\ script' = [script EXCEPT !.at = "disarmed", !.mutated = FALSE]
  /\ OnlyScript

RestoreCompletes == script.at = "disarmed" /\ Exit("ended", "completed")

\* Fault: the trap is only set after the files were copied.
AbortsUntrapped ==
  /\ script.at \in {"armed", "stopped", "copying"}
  /\ Exit("ended", "none")

\* A command fails or a signal comes: the trap runs restore_original.
RestoreAborts ==
  /\ script.at \in Armed
  /\ script' = [script EXCEPT !.at = "rollback", !.late = script.at = "disarmed"]
  /\ OnlyScript

\* Nothing to put back.
RollbackSkips == From("rollback", "reviving") /\ ~script.mutated /\ OnlyScript

\* A command of the rollback fails and it goes on.
Unproven(stage, next) ==
  /\ script.at = stage
  /\ script' = [script EXCEPT !.at = next, !.proven = FALSE]

RollbackStops ==
  /\ script.mutated
  /\ \/ From("rollback", "wiping") /\ Stop
     \/ Unproven("rollback", "wiping") /\ SameUnit
  /\ SameRest

\* rm removes one file after the other and goes on when it cannot.
RollbackRemovesMain ==
  /\ \/ From("wiping", "unlinking") /\ main' = [file |-> NoFile, txs |-> {}]
     \/ Unproven("wiping", "unlinking") /\ UNCHANGED main
  /\ SameConnections /\ UNCHANGED <<lockVars, wal, service>> /\ SameRest

RollbackRemovesLog ==
  /\ \/ From("unlinking", "wiped") /\ wal' = NoWal
     \/ Unproven("unlinking", "wiped") /\ UNCHANGED wal
  /\ SameConnections /\ UNCHANGED <<lockVars, main, service>> /\ SameRest

RollbackReturnsMain ==
  /\ \/ /\ From("wiped", "returning")
        /\ main' = [file |-> "returned", txs |-> script.saved.txs]
     \/ Unproven("wiped", "returning") /\ UNCHANGED main
  /\ SameConnections /\ UNCHANGED <<lockVars, wal, service>> /\ SameRest

\* Fault: the log is not put back.
ReturnsNoLog ==
  /\ From("returning", "reviving") \/ Unproven("returning", "reviving")
  /\ OnlyScript

\* The log follows, if there was one, and the database is checked.
ReturnedLog ==
  IF script.saved.log = {} THEN wal ELSE [of |-> "returned", txs |-> script.saved.log]

RollbackReturnsLog ==
  /\ \/ From("returning", "reviving") /\ wal' = ReturnedLog
     \/ Unproven("returning", "reviving") /\ wal' \in {wal, ReturnedLog}
  /\ SameConnections /\ UNCHANGED <<lockVars, main, service>> /\ SameRest

\* The collector goes back to what it was, unless that fails.
RollbackRevives ==
  /\ \/ From("reviving", "revived") /\ IF script.wasActive THEN Start ELSE Stop
     \/ Unproven("reviving", "revived") /\ SameUnit
  /\ SameRest

RollbackEnds ==
  /\ script.at = "revived"
  /\ Exit("ended", IF script.proven /\ AsItWas THEN "recovered" ELSE "unproven")

\* A kill at any point, or a second signal: the trap is gone by then.
RestoreKilled ==
  /\ script.at \notin {"ready", "ended", "killed"}
  /\ Exit("killed", "none")
-----------------------------------------------------------------------------
ScriptSteps ==
  \/ RestoreOpensLock \/ RestoreLocks \/ RestoreRefused \/ RestoreChecks
  \/ RestoreArms \/ RestoreStops \/ RestoreCopiesMain \/ RestoreCopiesLog
  \/ RestoreClears \/ RestoreMoves \/ RestoreStarts \/ RestoreDisarms
  \/ RestoreCompletes \/ RestoreAborts
  \/ RollbackSkips \/ RollbackStops \/ RollbackRemovesMain \/ RollbackRemovesLog
  \/ RollbackReturnsMain \/ RollbackReturnsLog \/ RollbackRevives \/ RollbackEnds

ServiceSteps == Cycle \/ ServiceCrashes \/ AutoRestart \/ OperatorStarts

CommandSteps ==
  \/ CommandOpens \/ CommandLocks \/ CommandCommits \/ CommandUnlocks
  \/ CommandCloses \/ CommandDies

\* What another program leaves of a database it used under the script is not
\* followed any further.
Next ==
  /\ ~disturbed
  /\ ScriptSteps \/ RestoreKilled \/ ServiceSteps \/ CommandSteps \/ Backup

\* The shell runs the next command of the script.
Spec == Init /\ [][Next]_vars /\ WF_vars(~disturbed /\ ScriptSteps)
-----------------------------------------------------------------------------
\* Whatever ends restore.sh, and wherever: a transaction that was not committed
\* while it handled the files is in the database or in the files or the logical backup of
\* its rollback directory.
NoSilentLoss ==
  disturbed \/ kept \subseteq Stored \cup script.saved.txs \cup script.saved.log

\* No log is ever found beside a main file it was not written for, which
\* SQLite would replay into it (lines 81 and 51 remove logs before a file is
\* put in their place), while no command of a rollback has failed.
NoForeignWal ==
  disturbed \/ ~script.proven \/ main.file = NoFile \/ wal.of \in {main.file, NoFile}

\* "database restore completed": what is stored of all that was committed
\* before is the chosen backup, nothing more and nothing less.
CompletedIsChosen ==
  script.verdict = "completed" /\ ~disturbed =>
    Stored \cap (1 .. script.found.tx) = script.chosen.txs

\* "original database and collector state recovered": it is the database the
\* script found.  A signal at line 101 to 102, after DATABASE_MUTATED is
\* reset, is the exception.
RecoveredIsOriginal ==
  script.verdict = "recovered" /\ ~disturbed /\ ~script.late =>
    Stored \cap (1 .. script.found.tx) = script.found.txs

\* A backup reported under the greatest name stays whole until a later one is
\* reported: pruning never takes it.
BackupReportIsTrue ==
  reported # 0 => \E b \in backups : b.name = reported /\ b.whole

\* The collector that restore.sh stopped runs again, unless the script is
\* killed or says that its rollback is not proven.
CollectorComesBack ==
  script.wasActive /\ script.at = "stopped" ~>
    \/ service = "active" \/ disturbed
    \/ script.at = "killed" \/ script.verdict = "unproven"
=============================================================================
