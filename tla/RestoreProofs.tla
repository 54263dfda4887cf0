---------------------------- MODULE RestoreProofs ----------------------------
(***************************************************************************)
(* Proofs about what restore.sh reports: a completed restore has stored    *)
(* the chosen backup, a recovered one the database it found, and no log is *)
(* left beside a main file it was not written for.                         *)
(***************************************************************************)
EXTENDS RecoveryProofs

(* The invariant. *)

\* The transactions committed before the script had the lock.
Earlier == 1 .. script.found.tx

StoredIs(txs) == Stored \cap Earlier = txs
SavedIs(txs) == Saved \cap Earlier = txs

\* A verdict is given at the end, and those that promise something are given
\* by a script no command of whose rollback failed.
VerdictInv ==
  /\ script.at # "ended" => script.verdict = "none"
  /\ script.verdict \in {"completed", "recovered"} => script.proven
  /\ script.at \in {"ready", "locked", "checked", "rollback"} \cup Armed => script.proven

\* Nothing holds a transaction that was not committed, and what the script
\* took for its own was there when it got the lock.
HeldInv ==
  /\ main.txs \subseteq 1 .. tx /\ wal.txs \subseteq 1 .. tx
  /\ \A b \in backups : b.txs \subseteq 1 .. tx
TakenInv ==
  /\ script.found.tx <= tx
  /\ script.found.txs \subseteq Earlier /\ script.chosen.txs \subseteq Earlier
  /\ Saved \subseteq 1 .. tx

\* A log at the path is the log of the file at the path, if there is one.  From
\* the stop on the unit is stopped, until the script starts it, and a log that
\* was removed stays away.
LogIsOwn == main.file = NoFile \/ wal.of \in {main.file, NoFile}
UnitStands ==
  script.at \in {"stopped", "copying", "copied", "cleared", "moved",
                 "wiping", "unlinking", "wiped", "returning"} => service = "stopped"
LogStaysAway ==
  script.at \in {"cleared", "wiped", "returning"} => wal.of = NoFile

\* From the move on the database is the chosen backup.
ChosenInv ==
  script.at \in {"moved", "started", "disarmed"} \/ script.verdict = "completed" =>
    StoredIs(script.chosen.txs)

\* Before the files are touched the database is what the script found, and so
\* it is after a rollback; in between the copy is.
FoundInv ==
  /\ script.at \in {"locked", "checked", "armed", "stopped", "copying", "copied"} =>
       StoredIs(script.found.txs)
  /\ /\ \/ script.at \in {"reviving", "revived"} \/ script.verdict = "recovered"
        \/ script.at = "rollback" /\ ~script.mutated
     /\ ~script.late
     => StoredIs(script.found.txs)
  /\ script.at = "copied" \/ script.mutated => SavedIs(script.found.txs)
\* The file at the path is there until a rollback removes it.
MainInv ==
  /\ script.at \in {"copying", "returning"} => main.txs = script.saved.txs
  /\ script.at \in {"ready", "locked", "checked", "armed", "stopped", "copying"} =>
       main.file # NoFile
  /\ script.at = "returning" => main.file = "returned"

RestoreInv ==
  /\ VerdictInv /\ HeldInv /\ TakenInv
  /\ script.proven =>
       LogIsOwn /\ UnitStands /\ LogStaysAway /\ ChosenInv /\ FoundInv /\ MainInv

Reported == disturbed \/ RestoreInv
-----------------------------------------------------------------------------
(* Steps beside the script. *)

\* A connection adds to the database what is committed, and nothing else.
LEMMA ConnectionHolds ==
  ASSUME DataType, HeldInv, backups' = backups, NEW p \in Client,
         Connect(p) \/ Commit(p) \/ Disconnect(p) \/ Drop(p)
  PROVE  HeldInv' /\ tx <= tx'
<1>1. tx \in Nat
  BY RecoveryAssumption DEF DataType
<1>2. CASE Connect(p)
  <2>1. main'.txs \subseteq main.txs /\ wal'.txs \subseteq wal.txs /\ tx' = tx
    BY <1>2 DEF Connect, NoWal
  <2>2. QED
    BY <1>1, <2>1 DEF HeldInv
<1>3. CASE Commit(p)
  <2>1. tx' = tx + 1 /\ main' = main
    BY <1>3 DEF Commit
  <2>2. 1 .. tx \subseteq 1 .. tx' /\ tx' \in 1 .. tx' /\ tx <= tx'
    BY <1>1, <2>1
  <2>3. wal'.txs \subseteq wal.txs \cup {tx'}
    BY <1>3 DEF Commit
  <2>4. QED
    BY <2>1, <2>2, <2>3 DEF HeldInv
<1>4. CASE Disconnect(p)
  <2>1. /\ main'.txs \subseteq main.txs \cup wal.txs
        /\ wal'.txs \subseteq wal.txs /\ tx' = tx
    BY <1>4 DEF Disconnect, Stored, NoWal, DataType
  <2>2. QED
    BY <1>1, <2>1 DEF HeldInv
<1>5. CASE Drop(p)
  BY <1>1, <1>5 DEF Drop, HeldInv
<1>6. QED
  BY <1>2, <1>3, <1>4, <1>5

\* While every log is its file's own, a connection leaves what was committed
\* up to now as it is, and leaves no other log.
LEMMA ConnectionLeaves ==
  ASSUME DataType, Absent, LogIsOwn, NEW n \in Nat, n <= tx, NEW p \in Client,
         Connect(p) \/ Commit(p) \/ Disconnect(p) \/ Drop(p)
  PROVE  /\ Stored' \cap (1 .. n) = Stored \cap (1 .. n) /\ LogIsOwn'
         /\ Connect(p) \/ Disconnect(p) \/ Drop(p) =>
              (wal.of = NoFile => wal'.of = NoFile)
         /\ Connect(p) \/ Commit(p) \/ Drop(p) => main'.txs = main.txs
         /\ main.file # NoFile => main'.file = main.file
<1>1. tx \in Nat
  BY RecoveryAssumption DEF DataType
<1>2. CASE Connect(p)
  <2>1. /\ main.file = NoFile => /\ main.txs = {} /\ main'.file = "fresh"
                                /\ main'.txs = {} /\ wal' = NoWal
        /\ main.file # NoFile => main' = main /\ wal' = wal
    BY <1>2 DEF Connect, Absent
  <2>2. Stored' = Stored /\ LogIsOwn' /\ main'.txs = main.txs
    BY <2>1 DEF Stored, LogIsOwn, Absent, NoWal, NoFile
  <2>3. QED
    BY <2>1, <2>2 DEF NoWal
<1>3. CASE Commit(p)
  <2>1. tx' \notin 1 .. n
    BY <1>1, <1>3 DEF Commit
  <2>2. Stored' \in {Stored, Stored \cup {tx'}} /\ LogIsOwn' /\ main' = main
    BY <1>3 DEF Commit, Stored, LogIsOwn, Absent, NoFile, DataType
  <2>3. Connect(p) \/ Disconnect(p) \/ Drop(p) => tx' = tx
    BY DEF Connect, Disconnect, Drop
  <2>4. QED
    BY <1>1, <1>3, <2>1, <2>2, <2>3 DEF Commit
<1>4. CASE Disconnect(p)
  <2>1. Stored' = Stored /\ LogIsOwn'
    BY <1>4 DEF Disconnect, Stored, Absent, LogIsOwn, NoWal, NoFile, DataType
  <2>2. wal.of = NoFile => wal'.of = NoFile
    BY <1>4 DEF Disconnect, NoWal
  <2>3. Connect(p) \/ Drop(p) => main'.txs = main.txs
    BY DEF Connect, Drop, Absent
  <2>4. Commit(p) => main'.txs = main.txs
    BY DEF Commit
  <2>5. main'.file = main.file
    BY <1>4 DEF Disconnect, DataType
  <2>6. QED
    BY <2>1, <2>2, <2>3, <2>4, <2>5
<1>5. CASE Drop(p)
  BY <1>5 DEF Drop, Stored, LogIsOwn
<1>6. QED
  BY <1>2, <1>3, <1>4, <1>5

\* A step that leaves the script where it is, and what it relies on.
LEMMA BesideScript ==
  ASSUME RestoreInv, script' = script, HeldInv', tx <= tx', tx \in Nat, tx' \in Nat,
         script.found.tx \in Nat,
         script.proven => /\ LogIsOwn' /\ UnitStands' /\ LogStaysAway' /\ MainInv'
                          /\ Stored' \cap Earlier = Stored \cap Earlier
  PROVE  RestoreInv'
<1>1. Earlier' = Earlier /\ Saved' = Saved
  BY DEF Earlier, Saved
<1>2. VerdictInv'
  BY DEF RestoreInv, VerdictInv
<1>3. TakenInv'
  <2>1. 1 .. tx \subseteq 1 .. tx' /\ script.found.tx <= tx'
    BY DEF RestoreInv, TakenInv
  <2>2. QED
    BY <1>1, <2>1 DEF RestoreInv, TakenInv
<1>4. script.proven => ChosenInv' /\ FoundInv'
  <2>1. ASSUME NEW txs, script.proven PROVE StoredIs(txs)' <=> StoredIs(txs)
    BY <1>1, <2>1 DEF StoredIs
  <2>2. ASSUME NEW txs PROVE SavedIs(txs)' <=> SavedIs(txs)
    BY <1>1 DEF SavedIs
  <2>3. QED
    BY <2>1, <2>2 DEF RestoreInv, ChosenInv, FoundInv
<1>5. QED
  BY <1>2, <1>3, <1>4 DEF RestoreInv

LEMMA NumbersTyped ==
  TypeOK => /\ tx \in Nat /\ script.found.tx \in Nat /\ DataType /\ UnitType
            /\ script \in ScriptType
  BY TypeParts, RecoveryAssumption DEF DataType, ScriptType

\* What a connection beside the script must heed: while the log must stay away
\* nothing is committed, and while the copy must match nothing is closed.
LEMMA ConnectionBeside ==
  ASSUME TypeOK, TypeOK', LossInv, RestoreInv, script' = script, backups' = backups,
         NEW p \in Client,
         Connect(p) \/ Commit(p) \/ Disconnect(p) \/ Drop(p),
         script.proven => UnitStands',
         ~(Connect(p) \/ Disconnect(p) \/ Drop(p)) =>
           script.at \notin {"cleared", "wiped", "returning"},
         ~(Connect(p) \/ Commit(p) \/ Drop(p)) =>
           script.at \notin {"copying", "returning"}
  PROVE  RestoreInv'
<1>1. /\ tx \in Nat /\ script.found.tx \in Nat /\ DataType /\ Absent
      /\ tx' \in Nat
  BY NumbersTyped, RecoveryAssumption DEF LossInv, TypeOK
<1>2. HeldInv' /\ tx <= tx'
  BY <1>1, ConnectionHolds DEF RestoreInv
<1>3. script.proven => /\ LogIsOwn' /\ LogStaysAway' /\ MainInv'
                       /\ Stored' \cap Earlier = Stored \cap Earlier
  <2> SUFFICES ASSUME script.proven
               PROVE  /\ LogIsOwn' /\ LogStaysAway' /\ MainInv'
                      /\ Stored' \cap Earlier = Stored \cap Earlier
    OBVIOUS
  <2>1. LogIsOwn /\ LogStaysAway /\ MainInv /\ script.found.tx <= tx
    BY DEF RestoreInv, TakenInv
  <2>2. /\ Stored' \cap Earlier = Stored \cap Earlier /\ LogIsOwn'
        /\ Connect(p) \/ Disconnect(p) \/ Drop(p) =>
             (wal.of = NoFile => wal'.of = NoFile)
        /\ Connect(p) \/ Commit(p) \/ Drop(p) => main'.txs = main.txs
        /\ main.file # NoFile => main'.file = main.file
    BY <1>1, <2>1, ConnectionLeaves DEF Earlier
  <2>3. LogStaysAway' /\ MainInv'
    BY <2>1, <2>2 DEF LogStaysAway, MainInv, NoFile
  <2>4. QED
    BY <2>2, <2>3
<1>4. QED
  BY <1>1, <1>2, <1>3, BesideScript

\* No step outside the script breaks it, unless it disturbs the script.
LEMMA OthersReport ==
  ASSUME TypeOK, TypeOK', LossInv, RestoreInv, ServiceSteps \/ CommandSteps \/ Backup
  PROVE  disturbed' \/ RestoreInv'
<1> SUFFICES ASSUME ~disturbed' PROVE RestoreInv'
  OBVIOUS
<1>1. script' = script
  BY DEF ServiceSteps, Cycle, ServiceCrashes, AutoRestart, OperatorStarts,
         CommandSteps, CommandOpens, CommandLocks, CommandCommits,
         CommandUnlocks, CommandCloses, CommandDies, Backup
<1>2. script.proven => UnitStands
  BY DEF RestoreInv
<1>3. CASE Cycle
  <2>1. service = "active" /\ service' = service /\ Commit("service") /\ backups' = backups
    BY <1>3 DEF Cycle, backupVars
  <2>2. CASE script.proven
    <3>1. /\ script.at \notin {"cleared", "wiped", "returning"}
          /\ UnitStands'
      BY <1>1, <1>2, <2>1, <2>2 DEF UnitStands
    <3>2. QED
      BY <1>1, <2>1, <3>1, ConnectionBeside, ClientMembers
  <2>3. CASE ~script.proven
    <3>1. HeldInv' /\ tx <= tx'
      BY <2>1, NumbersTyped, ConnectionHolds, ClientMembers DEF RestoreInv
    <3>2. tx \in Nat /\ script.found.tx \in Nat /\ tx' \in Nat
      BY NumbersTyped, RecoveryAssumption DEF TypeOK
    <3>3. QED
      BY <1>1, <2>3, <3>1, <3>2, BesideScript
  <2>4. QED
    BY <2>2, <2>3
<1>4. CASE ServiceCrashes
  <2>1. service = "active" /\ Drop("service") /\ backups' = backups
    BY <1>4 DEF ServiceCrashes, backupVars
  <2>2. script.proven => UnitStands'
    BY <1>1, <1>2, <2>1 DEF UnitStands
  <2>3. QED
    BY <1>1, <2>1, <2>2, ConnectionBeside, ClientMembers
<1>5. CASE AutoRestart \/ OperatorStarts
  <2>1. /\ service = "waiting" \/ script.at = "killed"
        /\ Connect("service") /\ backups' = backups
    BY <1>5 DEF AutoRestart, OperatorStarts, ServiceConnect, backupVars
  <2>2. script.proven => UnitStands'
    BY <1>1, <1>2, <2>1 DEF UnitStands
  <2>3. QED
    BY <1>1, <2>1, <2>2, ConnectionBeside, ClientMembers
<1>6. CASE CommandOpens \/ CommandCommits \/ CommandCloses
  <2>1. /\ Connect("command") \/ Commit("command") \/ Disconnect("command")
        /\ backups' = backups /\ service' = service
    BY <1>6 DEF CommandOpens, CommandCommits, CommandCloses, backupVars
  <2>2. script.at \notin Touching
    BY <1>6 DEF CommandOpens, CommandCommits, CommandCloses, Disturb
  <2>3. script.at \notin {"cleared", "wiped", "returning", "copying"}
    BY <2>2 DEF Touching, Armed
  <2>4. script.proven => UnitStands'
    BY <1>1, <1>2, <2>1 DEF UnitStands
  <2>5. QED
    BY <1>1, <2>1, <2>3, <2>4, ConnectionBeside, ClientMembers
<1>7. CASE CommandDies
  <2>1. Drop("command") /\ backups' = backups /\ service' = service
    BY <1>7 DEF CommandDies, backupVars
  <2>2. script.proven => UnitStands'
    BY <1>1, <1>2, <2>1 DEF UnitStands
  <2>3. QED
    BY <1>1, <2>1, <2>2, ConnectionBeside, ClientMembers
<1>8. CASE CommandLocks \/ CommandUnlocks \/ Backup
  <2>1. main' = main /\ wal' = wal /\ tx' = tx /\ service' = service
    BY <1>8 DEF CommandLocks, CommandUnlocks, Backup, connVars
  <2>2. \A b \in backups' : b \in backups \/ b.txs \in {Stored, {}}
    <3>1. CASE CommandLocks \/ CommandUnlocks
      BY <3>1 DEF CommandLocks, CommandUnlocks, backupVars
    <3>2. CASE Backup
      <4>1. PICK n \in Name \ named, whole \in BOOLEAN :
              LET file == [name |-> n, whole |-> whole,
                           txs |-> IF whole THEN Stored ELSE {}]
              IN backups' = Pruned(backups \cup {file}) \/ backups' = backups \cup {file}
        BY <3>2 DEF Backup
      <4>2. QED
        BY <4>1, PrunedWithin
    <3>3. QED
      BY <1>8, <3>1, <3>2
  <2>3. HeldInv'
    <3>1. Stored \subseteq 1 .. tx
      BY DEF RestoreInv, HeldInv, Stored
    <3>2. QED
      BY <2>1, <2>2, <3>1 DEF RestoreInv, HeldInv
  <2>4. Stored' = Stored
    BY <2>1 DEF Stored
  <2>5. script.proven => LogIsOwn' /\ UnitStands' /\ LogStaysAway' /\ MainInv'
    BY <1>1, <2>1 DEF RestoreInv, LogIsOwn, UnitStands, LogStaysAway, MainInv
  <2>6. tx \in Nat /\ script.found.tx \in Nat
    BY NumbersTyped
  <2>7. QED
    BY <1>1, <2>1, <2>3, <2>4, <2>5, <2>6, BesideScript
<1>9. QED
  BY <1>3, <1>4, <1>5, <1>6, <1>7, <1>8 DEF ServiceSteps, CommandSteps
-----------------------------------------------------------------------------
(* Steps of the script. *)

\* Steps that leave the database alone.
LEMMA Untouched ==
  ASSUME RestoreInv, UNCHANGED <<main, wal, tx, backups>>
  PROVE  /\ HeldInv' /\ Stored' = Stored
         /\ LogIsOwn' <=> LogIsOwn
  BY DEF RestoreInv, HeldInv, Stored, LogIsOwn

\* Stopping and starting the unit.
LEMMA UnitReports ==
  ASSUME TypeOK, LossInv, RestoreInv, backups' = backups, Stop \/ Start \/ SameUnit
  PROVE  /\ HeldInv' /\ tx' = tx
         /\ script.proven => /\ LogIsOwn' /\ Stored' \cap Earlier = Stored \cap Earlier
                             /\ main.file # NoFile => main'.file = main.file
<1>1. tx \in Nat /\ script.found.tx \in Nat /\ DataType /\ Absent
  BY NumbersTyped DEF LossInv
<1>2. CASE Connect("service") \/ Disconnect("service") \/ Drop("service")
  <2>1. HeldInv' /\ tx' = tx
    BY <1>1, <1>2, ConnectionHolds, ClientMembers
       DEF RestoreInv, Connect, Disconnect, Drop
  <2>2. script.proven => /\ LogIsOwn' /\ Stored' \cap Earlier = Stored \cap Earlier
                         /\ main.file # NoFile => main'.file = main.file
    <3> SUFFICES ASSUME script.proven
                 PROVE  /\ LogIsOwn' /\ Stored' \cap Earlier = Stored \cap Earlier
                        /\ main.file # NoFile => main'.file = main.file
      OBVIOUS
    <3>1. LogIsOwn /\ script.found.tx <= tx
      BY DEF RestoreInv, TakenInv
    <3>2. QED
      BY <1>1, <1>2, <3>1, ConnectionLeaves, ClientMembers DEF Earlier
  <2>3. QED
    BY <2>1, <2>2
<1>3. CASE UNCHANGED connVars
  BY <1>3, Untouched DEF connVars, RestoreInv
<1>4. QED
  BY <1>2, <1>3 DEF Stop, Start, SameUnit, ServiceConnect

\* What the script took stays what it is while the script goes on.
SameTaken ==
  /\ script'.found = script.found /\ script'.chosen = script.chosen
  /\ script'.saved = script.saved

LEMMA TakenStays ==
  ASSUME RestoreInv, tx' = tx, SameTaken
  PROVE  TakenInv' /\ Earlier' = Earlier /\ Saved' = Saved
  BY DEF RestoreInv, TakenInv, SameTaken, Earlier, Saved

\* The shell exits, with the verdict it may give.
LEMMA ExitReports ==
  ASSUME RestoreInv, script \in ScriptType, NEW stage \in {"ended", "killed"},
         NEW verdict, Exit(stage, verdict),
         stage = "killed" => verdict = "none",
         verdict \in {"completed", "recovered"} => script.proven,
         verdict = "completed" => script.at = "disarmed",
         verdict = "recovered" => script.at = "revived"
  PROVE  RestoreInv'
<1>1. /\ UNCHANGED <<main, wal, tx, backups, service>>
  BY DEF Exit, connVars, backupVars
<1>2. /\ script'.at = stage /\ script'.verdict = verdict /\ ~script'.mutated
      /\ script'.proven = script.proven /\ script'.late = script.late /\ SameTaken
  BY DEF Exit, ScriptType, SameTaken
<1>3. HeldInv' /\ Stored' = Stored /\ (LogIsOwn' <=> LogIsOwn)
  BY <1>1, Untouched
<1>4. TakenInv' /\ Earlier' = Earlier /\ Saved' = Saved
  BY <1>1, <1>2, TakenStays
<1>5. VerdictInv'
  BY <1>2 DEF VerdictInv, Armed
<1>6. ASSUME script.proven
      PROVE  UnitStands' /\ LogStaysAway' /\ MainInv' /\ ChosenInv' /\ FoundInv'
  <2>1. UnitStands' /\ LogStaysAway' /\ MainInv'
    BY <1>2 DEF UnitStands, LogStaysAway, MainInv
  <2>2. ChosenInv'
    BY <1>2, <1>3, <1>4, <1>6 DEF RestoreInv, ChosenInv, StoredIs, SameTaken
  <2>3. FoundInv'
    BY <1>2, <1>3, <1>4, <1>6 DEF RestoreInv, FoundInv, StoredIs, SameTaken
  <2>4. QED
    BY <2>1, <2>2, <2>3
<1>7. QED
  BY <1>2, <1>3, <1>4, <1>5, <1>6 DEF RestoreInv

\* Before the copy: the script waits, locks, checks and stops the collector.
LEMMA StartReports ==
  ASSUME TypeOK, LossInv, RestoreInv,
         RestoreOpensLock \/ RestoreLocks \/ RestoreChecks \/ RestoreArms \/ RestoreStops
  PROVE  RestoreInv'
<1>1. script \in ScriptType /\ tx \in Nat /\ script.found.tx \in Nat
  BY NumbersTyped
<1>2. CASE RestoreOpensLock
  <2>1. UNCHANGED <<main, wal, tx, backups, service, script>>
    BY <1>2 DEF RestoreOpensLock, connVars, backupVars
  <2>2. HeldInv' /\ Stored' = Stored /\ (LogIsOwn' <=> LogIsOwn)
    BY <2>1, Untouched
  <2>3. script.proven => LogIsOwn' /\ UnitStands' /\ LogStaysAway' /\ MainInv'
    BY <2>1, <2>2 DEF RestoreInv, UnitStands, LogStaysAway, MainInv
  <2>4. QED
    BY <1>1, <2>1, <2>2, <2>3, BesideScript
<1>3. CASE RestoreLocks
  <2>1. UNCHANGED <<main, wal, tx, backups, service>>
    BY <1>3 DEF RestoreLocks, connVars, backupVars
  <2>2. PICK b \in backups :
          script' = [script EXCEPT !.at = "locked", !.chosen = b,
                                   !.found = [txs |-> Stored, tx |-> tx]]
    BY <1>3 DEF RestoreLocks
  <2>3. /\ script.at = "ready" /\ script'.at = "locked" /\ script'.chosen = b
        /\ script'.found.txs = Stored /\ script'.found.tx = tx
        /\ script'.saved = script.saved /\ script'.verdict = script.verdict
        /\ script'.proven = script.proven /\ script'.mutated = script.mutated
    BY <1>1, <1>3, <2>2 DEF RestoreLocks, ScriptType
  <2>4. /\ script.proven /\ script.verdict = "none" /\ ~script.mutated
    BY <2>3 DEF RestoreInv, VerdictInv, LossInv, Touching, Armed
  <2>5. HeldInv' /\ Stored' = Stored /\ (LogIsOwn' <=> LogIsOwn)
    BY <2>1, Untouched
  <2>6. Stored \subseteq 1 .. tx /\ b.txs \subseteq 1 .. tx
    BY DEF RestoreInv, HeldInv, Stored
  <2>7. TakenInv' /\ StoredIs(script.found.txs)'
    <3>1. Earlier' = 1 .. tx /\ Saved' = Saved
      BY <2>3 DEF Earlier, Saved
    <3>2. StoredIs(script.found.txs)'
      BY <2>3, <2>5, <2>6, <3>1 DEF StoredIs
    <3>3. script'.found.tx <= tx' /\ Saved \subseteq 1 .. tx
      BY <1>1, <2>1, <2>3 DEF RestoreInv, TakenInv
    <3>4. QED
      BY <2>1, <2>3, <2>6, <3>1, <3>2, <3>3 DEF TakenInv
  <2>8. VerdictInv'
    BY <2>3, <2>4 DEF VerdictInv
  <2>9. /\ LogIsOwn' /\ UnitStands' /\ LogStaysAway' /\ MainInv' /\ ChosenInv'
        /\ FoundInv'
    BY <2>1, <2>3, <2>4, <2>5, <2>7
       DEF RestoreInv, UnitStands, LogStaysAway, MainInv, ChosenInv, FoundInv
  <2>10. QED
    BY <2>5, <2>7, <2>8, <2>9 DEF RestoreInv
<1>4. CASE RestoreChecks \/ RestoreArms \/ RestoreStops
  <2>1. /\ script.at \in {"locked", "checked", "armed"}
        /\ script'.at \in {"checked", "armed", "stopped"}
        /\ script'.at = "stopped" => script.at = "armed"
        /\ script'.verdict = script.verdict /\ script'.late = script.late
        /\ script'.proven = script.proven /\ script'.mutated = script.mutated
        /\ SameTaken
    BY <1>1, <1>4 DEF RestoreChecks, RestoreArms, RestoreStops, From, ScriptType,
                      SameTaken
  <2>2. /\ backups' = backups
        /\ Stop \/ SameUnit
        /\ script'.at = "stopped" => service' = "stopped"
    <3>1. CASE RestoreChecks \/ RestoreArms
      BY <1>1, <3>1 DEF RestoreChecks, RestoreArms, From, OnlyScript, SameUnit,
                        backupVars, ScriptType
    <3>2. CASE RestoreStops
      BY <3>2 DEF RestoreStops, SameRest, Stop, backupVars
    <3>3. QED
      BY <1>4, <3>1, <3>2
  <2>3. script.proven /\ script.verdict = "none" /\ ~script.mutated
    BY <2>1 DEF RestoreInv, VerdictInv, LossInv, Touching, Armed
  <2>4. /\ HeldInv' /\ tx' = tx /\ LogIsOwn'
        /\ Stored' \cap Earlier = Stored \cap Earlier
        /\ main'.file # NoFile
    BY <2>1, <2>2, <2>3, UnitReports DEF RestoreInv, MainInv
  <2>5. TakenInv' /\ Earlier' = Earlier /\ Saved' = Saved
    BY <2>1, <2>4, TakenStays
  <2>6. VerdictInv'
    BY <2>1, <2>3 DEF VerdictInv
  <2>7. StoredIs(script.found.txs)'
    BY <2>1, <2>3, <2>4, <2>5 DEF RestoreInv, FoundInv, StoredIs, SameTaken
  <2>8. /\ UnitStands' /\ LogStaysAway' /\ MainInv' /\ ChosenInv' /\ FoundInv'
    BY <2>1, <2>2, <2>3, <2>4, <2>7
       DEF UnitStands, LogStaysAway, MainInv, ChosenInv, FoundInv
  <2>9. QED
    BY <2>4, <2>5, <2>6, <2>8 DEF RestoreInv
<1>5. QED
  BY <1>2, <1>3, <1>4

\* The copy is made, the files are cleared, and the backup takes their place.
LEMMA CopyReports ==
  ASSUME TypeOK, LossInv, RestoreInv, RestoreCopiesMain \/ RestoreCopiesLog
  PROVE  RestoreInv'
<1>1. script \in ScriptType
  BY NumbersTyped
<1>2. UNCHANGED <<main, wal, tx, backups, service>>
  BY DEF RestoreCopiesMain, RestoreCopiesLog, OnlyScript, connVars, backupVars
<1>3. /\ script.at \in {"stopped", "copying"} /\ script'.at \in {"copying", "copied"}
      /\ script'.at = "copying" => /\ script.at = "stopped"
                                   /\ script'.saved.txs = main.txs
      /\ script'.at = "copied" => /\ script.at = "copying"
                                  /\ script'.saved.txs = script.saved.txs
      /\ script'.saved.log \in {script.saved.log, wal.txs}
      /\ script'.saved.txs \in {script.saved.txs, main.txs}
      /\ script'.at = "copied" => script'.saved.log = wal.txs
      /\ script'.verdict = script.verdict /\ script'.mutated = script.mutated
      /\ script'.proven = script.proven /\ script'.found = script.found
      /\ script'.chosen = script.chosen
  <2>1. CASE RestoreCopiesMain
    BY <1>1, <2>1 DEF RestoreCopiesMain, ScriptType
  <2>2. CASE RestoreCopiesLog
    BY <1>1, <2>2 DEF RestoreCopiesLog, ScriptType
  <2>3. QED
    BY <2>1, <2>2
<1>4. /\ script.proven /\ script.verdict = "none"
      /\ script'.at = "copying" => ~script.mutated
  BY <1>3 DEF RestoreInv, VerdictInv, LossInv, Touching, Armed
<1>5. HeldInv' /\ Stored' = Stored /\ (LogIsOwn' <=> LogIsOwn)
  BY <1>2, Untouched
<1>6. Earlier' = Earlier
  BY <1>3 DEF Earlier
<1>7. TakenInv'
  <2>1. Saved' \subseteq Saved \cup main.txs \cup wal.txs
    BY <1>3 DEF Saved
  <2>2. QED
    BY <1>2, <1>3, <1>6, <2>1 DEF RestoreInv, TakenInv, HeldInv
<1>8. VerdictInv'
  BY <1>3, <1>4 DEF VerdictInv
<1>9. StoredIs(script.found.txs) /\ StoredIs(script.found.txs)'
  BY <1>3, <1>4, <1>5, <1>6 DEF RestoreInv, FoundInv, StoredIs
<1>10. script'.at = "copied" => SavedIs(script.found.txs)'
  <2>1. script'.at = "copied" => Saved' = main.txs \cup wal.txs
    BY <1>3, <1>4 DEF RestoreInv, MainInv, Saved
  <2>2. main.txs \cup wal.txs = Stored
    BY <1>3, <1>4 DEF MainInv, RestoreInv, LogIsOwn, LossInv, Absent, Stored
  <2>3. QED
    BY <1>3, <1>6, <1>9, <2>1, <2>2 DEF SavedIs, StoredIs
<1>11. /\ UnitStands' /\ LogStaysAway' /\ MainInv' /\ ChosenInv' /\ FoundInv'
  BY <1>2, <1>3, <1>4, <1>9, <1>10
     DEF RestoreInv, UnitStands, LogStaysAway, MainInv, ChosenInv, FoundInv
<1>12. QED
  BY <1>4, <1>5, <1>7, <1>8, <1>11 DEF RestoreInv

LEMMA ReplaceReports ==
  ASSUME TypeOK, LossInv, RestoreInv, RestoreClears \/ RestoreMoves
  PROVE  RestoreInv'
<1>1. script \in ScriptType /\ tx \in Nat /\ script.found.tx \in Nat
  BY NumbersTyped
<1>2. UNCHANGED <<tx, backups, service>>
  BY DEF RestoreClears, RestoreMoves, SameConnections, SameRest, backupVars
<1>3. /\ script.at \in {"copied", "cleared"} /\ script'.at \in {"cleared", "moved"}
      /\ script'.mutated /\ SameTaken
      /\ script'.verdict = script.verdict /\ script'.proven = script.proven
  BY <1>1 DEF RestoreClears, RestoreMoves, From, ScriptType, SameTaken, LossInv
<1>4. script.proven /\ script.verdict = "none"
  BY <1>3 DEF RestoreInv, VerdictInv, Armed
<1>5. TakenInv' /\ Earlier' = Earlier /\ Saved' = Saved
  BY <1>2, <1>3, TakenStays
<1>6. VerdictInv'
  BY <1>3, <1>4 DEF VerdictInv
<1>7. SavedIs(script.found.txs)'
  BY <1>3, <1>4, <1>5 DEF RestoreInv, FoundInv, LossInv, SavedIs, SameTaken
<1>8. HeldInv' /\ LogIsOwn' /\ wal'.of = NoFile
  <2>1. CASE RestoreClears
    BY <1>2, <2>1 DEF RestoreClears, RestoreInv, HeldInv, LogIsOwn, NoWal
  <2>2. CASE RestoreMoves
    <3>1. script.chosen.txs \subseteq 1 .. tx
      BY <1>1 DEF RestoreInv, TakenInv, Earlier
    <3>2. wal.of = NoFile
      BY <1>4, <2>2 DEF RestoreMoves, From, RestoreInv, LogStaysAway
    <3>3. QED
      BY <1>2, <2>2, <3>1, <3>2 DEF RestoreMoves, RestoreInv, HeldInv, LogIsOwn
  <2>3. QED
    BY <2>1, <2>2
<1>9. script'.at = "moved" => StoredIs(script.chosen.txs)'
  <2>1. CASE RestoreMoves
    <3>1. Stored' = script.chosen.txs
      BY <1>8, <2>1 DEF RestoreMoves, Stored, NoFile
    <3>2. QED
      BY <1>3, <1>5, <3>1 DEF StoredIs, SameTaken, RestoreInv, TakenInv
  <2>2. CASE RestoreClears
    BY <1>1, <2>2 DEF RestoreClears, ScriptType
  <2>3. QED
    BY <2>1, <2>2
<1>10. /\ UnitStands' /\ LogStaysAway' /\ MainInv' /\ ChosenInv' /\ FoundInv'
  BY <1>2, <1>3, <1>4, <1>7, <1>8, <1>9
     DEF RestoreInv, UnitStands, LogStaysAway, MainInv, ChosenInv, FoundInv
<1>11. QED
  BY <1>4, <1>5, <1>6, <1>8, <1>10 DEF RestoreInv

\* The collector is started and the script ends, or the trap is sprung.
LEMMA FinishReports ==
  ASSUME TypeOK, LossInv, RestoreInv,
         RestoreStarts \/ RestoreDisarms \/ RestoreAborts \/ RollbackSkips
  PROVE  RestoreInv'
<1>1. script \in ScriptType
  BY NumbersTyped
<1>2. backups' = backups /\ (Stop \/ Start \/ SameUnit)
  BY DEF RestoreStarts, RestoreDisarms, RestoreAborts, RollbackSkips, OnlyScript,
         SameRest, SameUnit, backupVars
<1>3. /\ \/ script.at = "moved" /\ script'.at = "started"
            /\ script'.mutated = script.mutated /\ script'.late = script.late
         \/ script.at = "started" /\ script'.at = "disarmed" /\ ~script'.mutated
         \/ /\ script.at \in Armed /\ script'.at = "rollback"
            /\ script'.mutated = script.mutated
            /\ script.at = "disarmed" => script'.late
         \/ script.at = "rollback" /\ script'.at = "reviving" /\ ~script.mutated
            /\ script'.mutated = script.mutated /\ script'.late = script.late
      /\ script'.verdict = script.verdict /\ script'.proven = script.proven
      /\ SameTaken
  <2>1. CASE RestoreStarts \/ RollbackSkips
    BY <1>1, <2>1 DEF RestoreStarts, RollbackSkips, From, ScriptType, SameTaken
  <2>2. CASE RestoreDisarms
    BY <1>1, <2>2 DEF RestoreDisarms, ScriptType, SameTaken
  <2>3. CASE RestoreAborts
    BY <1>1, <2>3 DEF RestoreAborts, ScriptType, SameTaken
  <2>4. QED
    BY <2>1, <2>2, <2>3
<1>4. script.proven /\ script.verdict = "none"
  BY <1>3 DEF RestoreInv, VerdictInv, Armed
<1>5. /\ HeldInv' /\ tx' = tx /\ LogIsOwn'
      /\ Stored' \cap Earlier = Stored \cap Earlier
  BY <1>2, <1>4, UnitReports
<1>6. TakenInv' /\ Earlier' = Earlier /\ Saved' = Saved
  BY <1>3, <1>5, TakenStays
<1>7. VerdictInv'
  BY <1>3, <1>4 DEF VerdictInv
<1>8. ChosenInv'
  <2>1. script'.at \in {"started", "disarmed"} => StoredIs(script.chosen.txs)
    BY <1>3, <1>4 DEF RestoreInv, ChosenInv
  <2>2. QED
    BY <1>3, <1>4, <1>5, <1>6, <2>1 DEF ChosenInv, StoredIs, SameTaken
<1>9. FoundInv'
  <2>1. /\ script'.at \in {"rollback", "reviving"} /\ ~script'.mutated /\ ~script'.late
        => StoredIs(script.found.txs)
    BY <1>3, <1>4 DEF RestoreInv, FoundInv, LossInv, Armed
  <2>2. script'.mutated => SavedIs(script.found.txs)
    BY <1>3, <1>4 DEF RestoreInv, FoundInv
  <2>3. script'.at = "reviving" => ~script'.mutated
    BY <1>3 DEF Armed
  <2>4. QED
    BY <1>3, <1>4, <1>5, <1>6, <2>1, <2>2, <2>3
       DEF FoundInv, StoredIs, SavedIs, SameTaken
<1>10. UnitStands' /\ LogStaysAway' /\ MainInv'
  BY <1>3 DEF UnitStands, LogStaysAway, MainInv
<1>11. QED
  BY <1>4, <1>5, <1>6, <1>7, <1>8, <1>9, <1>10 DEF RestoreInv

\* The rollback stops the collector, puts the copy back and starts it again.
LEMMA RollbackUnitReports ==
  ASSUME TypeOK, LossInv, RestoreInv, RollbackStops \/ RollbackRevives
  PROVE  RestoreInv'
<1>1. script \in ScriptType
  BY NumbersTyped
<1>2. backups' = backups /\ (Stop \/ Start \/ SameUnit)
  BY DEF RollbackStops, RollbackRevives, SameRest, backupVars
<1>3. /\ \/ script.at = "rollback" /\ script'.at = "wiping" /\ script.mutated
         \/ script.at = "reviving" /\ script'.at = "revived"
      /\ script'.verdict = script.verdict
      /\ script'.proven => script.proven
      /\ script'.mutated = script.mutated /\ script'.late = script.late
      /\ SameTaken
  BY <1>1 DEF RollbackStops, RollbackRevives, From, Unproven, ScriptType, SameTaken
<1>4. script'.at = "wiping" /\ script'.proven => service' = "stopped"
  <2>1. CASE RollbackStops
    BY <1>1, <2>1 DEF RollbackStops, Unproven, ScriptType, Stop
  <2>2. CASE RollbackRevives
    BY <1>1, <2>2 DEF RollbackRevives, From, Unproven, ScriptType
  <2>3. QED
    BY <2>1, <2>2
<1>5. /\ HeldInv' /\ tx' = tx
      /\ script.proven => LogIsOwn' /\ Stored' \cap Earlier = Stored \cap Earlier
  BY <1>2, UnitReports
<1>6. TakenInv' /\ Earlier' = Earlier /\ Saved' = Saved
  BY <1>3, <1>5, TakenStays
<1>7. script.verdict = "none" /\ VerdictInv'
  BY <1>3 DEF RestoreInv, VerdictInv, Armed
<1>8. ASSUME script'.proven
      PROVE  /\ LogIsOwn' /\ UnitStands' /\ LogStaysAway' /\ MainInv' /\ ChosenInv'
             /\ FoundInv'
  <2>1. LogIsOwn' /\ UnitStands' /\ LogStaysAway' /\ MainInv' /\ ChosenInv'
    BY <1>3, <1>4, <1>5, <1>7, <1>8
       DEF UnitStands, LogStaysAway, MainInv, ChosenInv
  <2>2. FoundInv'
    BY <1>3, <1>5, <1>6, <1>7, <1>8
       DEF RestoreInv, FoundInv, StoredIs, SavedIs, SameTaken
  <2>3. QED
    BY <2>1, <2>2
<1>9. QED
  BY <1>5, <1>6, <1>7, <1>8 DEF RestoreInv

LEMMA RollbackFilesReport ==
  ASSUME TypeOK, LossInv, RestoreInv,
         \/ RollbackRemovesMain \/ RollbackRemovesLog
         \/ RollbackReturnsMain \/ RollbackReturnsLog
  PROVE  RestoreInv'
<1>1. script \in ScriptType
  BY NumbersTyped
<1>2. UNCHANGED <<tx, backups, service>>
  BY DEF RollbackRemovesMain, RollbackRemovesLog, RollbackReturnsMain,
         RollbackReturnsLog, SameConnections, SameRest, backupVars
<1>3. /\ \/ script.at = "wiping" /\ script'.at = "unlinking" /\ RollbackRemovesMain
         \/ script.at = "unlinking" /\ script'.at = "wiped" /\ RollbackRemovesLog
         \/ script.at = "wiped" /\ script'.at = "returning" /\ RollbackReturnsMain
         \/ script.at = "returning" /\ script'.at = "reviving" /\ RollbackReturnsLog
      /\ script'.verdict = script.verdict
      /\ script'.proven => script.proven
      /\ script'.mutated = script.mutated /\ script'.late = script.late
      /\ SameTaken
  BY <1>1 DEF RollbackRemovesMain, RollbackRemovesLog, RollbackReturnsMain,
              RollbackReturnsLog, From, Unproven, ScriptType, SameTaken
<1>4. TakenInv' /\ Earlier' = Earlier /\ Saved' = Saved
  BY <1>2, <1>3, TakenStays
<1>5. script.verdict = "none" /\ VerdictInv'
  BY <1>3 DEF RestoreInv, VerdictInv, Armed
<1>6. HeldInv'
  <2>1. script.saved.txs \subseteq 1 .. tx /\ script.saved.log \subseteq 1 .. tx
    BY DEF RestoreInv, TakenInv, Saved
  <2>2. /\ main'.txs \in {main.txs, {}, script.saved.txs}
        /\ wal'.txs \in {wal.txs, {}, script.saved.log}
    BY <1>3 DEF RollbackRemovesMain, RollbackRemovesLog, RollbackReturnsMain,
                RollbackReturnsLog, ReturnedLog, NoWal
  <2>3. QED
    BY <1>2, <2>1, <2>2 DEF RestoreInv, HeldInv
<1>7. ASSUME script'.proven
      PROVE  /\ LogIsOwn' /\ UnitStands' /\ LogStaysAway' /\ MainInv' /\ ChosenInv'
             /\ FoundInv'
  <2>1. LogIsOwn /\ UnitStands /\ LogStaysAway /\ FoundInv /\ MainInv
    BY <1>3, <1>7 DEF RestoreInv
  <2>2. SavedIs(script.found.txs)'
    BY <1>3, <1>4, <2>1 DEF FoundInv, LossInv, SavedIs, SameTaken
  \* A command that failed would have left the rollback unproven.
  <2>3. ASSUME NEW stage, NEW next, Unproven(stage, next) PROVE FALSE
    BY <1>1, <1>7, <2>3 DEF Unproven, ScriptType
  <2>4. CASE RollbackRemovesMain \/ RollbackRemovesLog
    <3>1. \/ script'.at = "unlinking" /\ main'.file = NoFile
          \/ script'.at = "wiped" /\ wal'.of = NoFile
      BY <1>3, <2>3, <2>4
         DEF RollbackRemovesMain, RollbackRemovesLog, From, ScriptType, NoWal
    <3>2. QED
      BY <1>2, <1>3, <1>5, <2>1, <2>2, <3>1
         DEF LogIsOwn, UnitStands, LogStaysAway, MainInv, ChosenInv, FoundInv
  <2>5. CASE RollbackReturnsMain
    <3>1. script.at = "wiped" /\ script'.at = "returning"
      BY <1>1, <2>3, <2>5 DEF RollbackReturnsMain, From, ScriptType
    <3>2. /\ LogIsOwn' /\ wal'.of = NoFile
          /\ main'.file = "returned" /\ main'.txs = script'.saved.txs
      BY <1>3, <2>1, <2>3, <2>5, <3>1
         DEF RollbackReturnsMain, LogIsOwn, LogStaysAway, SameTaken
    <3>3. QED
      BY <1>2, <1>3, <1>5, <2>1, <2>2, <3>1, <3>2
         DEF UnitStands, LogStaysAway, MainInv, ChosenInv, FoundInv
  <2>6. CASE RollbackReturnsLog
    <3>1. script.at = "returning" /\ script'.at = "reviving"
      BY <1>1, <2>3, <2>6 DEF RollbackReturnsLog, From, ScriptType
    <3>2. main.txs = script.saved.txs /\ wal.of = NoFile /\ main.file = "returned"
      BY <2>1, <3>1 DEF MainInv, LogStaysAway
    <3>3. main' = main /\ wal' = ReturnedLog
      BY <2>3, <2>6 DEF RollbackReturnsLog
    <3>4. LogIsOwn' /\ Stored' = Saved
      BY <3>2, <3>3 DEF ReturnedLog, LogIsOwn, Stored, Saved, NoFile
    <3>5. StoredIs(script.found.txs)'
      BY <1>4, <2>2, <3>4 DEF StoredIs, SavedIs
    <3>6. QED
      BY <1>2, <1>3, <1>5, <2>1, <2>2, <3>1, <3>4, <3>5
         DEF UnitStands, LogStaysAway, MainInv, ChosenInv, FoundInv
  <2>7. QED
    BY <1>3, <2>4, <2>5, <2>6
<1>8. QED
  BY <1>4, <1>5, <1>6, <1>7 DEF RestoreInv

LEMMA ReportsStart == Init => Reported
<1> SUFFICES ASSUME Init PROVE RestoreInv
  BY DEF Reported
<1>1. script.at = "ready" /\ script.verdict = "none" /\ script.proven /\ ~script.mutated
  BY DEF Init
<1>2. VerdictInv
  BY <1>1 DEF VerdictInv
<1>3. HeldInv /\ TakenInv
  BY DEF Init, HeldInv, TakenInv, Saved, Earlier
<1>4. LogIsOwn
  BY DEF Init, LogIsOwn
<1>5. UnitStands /\ LogStaysAway /\ ChosenInv /\ FoundInv /\ MainInv
  BY <1>1 DEF Init, NoFile, UnitStands, LogStaysAway, ChosenInv, FoundInv, MainInv
<1>6. QED
  BY <1>2, <1>3, <1>4, <1>5 DEF RestoreInv

LEMMA ReportsStep ==
  TypeOK /\ TypeOK' /\ Safe /\ Reported /\ [Next]_vars => Reported'
<1> SUFFICES ASSUME TypeOK, TypeOK', Safe, Reported, [Next]_vars PROVE Reported'
  OBVIOUS
<1>1. CASE Next
  <2>1. LossInv /\ RestoreInv /\ script \in ScriptType
    BY <1>1, NumbersTyped DEF Next, Safe, Reported
  <2>2. CASE ServiceSteps \/ CommandSteps \/ Backup
    BY <2>1, <2>2, OthersReport DEF Reported
  <2>3. CASE RestoreRefused \/ RestoreCompletes \/ RollbackEnds \/ RestoreKilled
    <3>1. CASE RestoreRefused
      BY <2>1, <3>1, ExitReports DEF RestoreRefused, Reported
    <3>2. CASE RestoreCompletes
      <4>1. script.proven
        BY <2>1, <3>2 DEF RestoreCompletes, RestoreInv, VerdictInv, Armed
      <4>2. QED
        BY <2>1, <3>2, <4>1, ExitReports DEF RestoreCompletes, Reported
    <3>3. CASE RollbackEnds
      BY <2>1, <3>3, ExitReports DEF RollbackEnds, Reported
    <3>4. CASE RestoreKilled
      BY <2>1, <3>4, ExitReports DEF RestoreKilled, Reported
    <3>5. QED
      BY <2>3, <3>1, <3>2, <3>3, <3>4
  <2>4. CASE ScriptSteps
    BY <2>1, <2>3, <2>4, StartReports, CopyReports, ReplaceReports, FinishReports,
       RollbackUnitReports, RollbackFilesReport
       DEF ScriptSteps, Reported
  <2>5. QED
    BY <1>1, <2>2, <2>3, <2>4 DEF Next
<1>2. CASE UNCHANGED vars
  <2>1. CASE disturbed
    BY <1>2, <2>1 DEF vars, Reported
  <2>2. CASE RestoreInv
    <3>1. UNCHANGED <<main, wal, tx, backups, service, script>>
      BY <1>2 DEF vars, connVars, backupVars
    <3>2. HeldInv' /\ Stored' = Stored /\ (LogIsOwn' <=> LogIsOwn)
      BY <2>2, <3>1, Untouched
    <3>3. script.proven => LogIsOwn' /\ UnitStands' /\ LogStaysAway' /\ MainInv'
      BY <2>2, <3>1, <3>2 DEF RestoreInv, UnitStands, LogStaysAway, MainInv
    <3>4. tx \in Nat /\ script.found.tx \in Nat
      BY NumbersTyped
    <3>5. QED
      BY <2>2, <3>1, <3>2, <3>3, <3>4, BesideScript DEF Reported
  <2>3. QED
    BY <2>1, <2>2 DEF Reported
<1>3. QED
  BY <1>1, <1>2

\* What the reports of restore.sh rest on, for any number of transactions and
\* backups.
LEMMA ReportsHold == Spec => []Reported
<1>1. Init => LockInv /\ TypeOK /\ Safe /\ Reported
  BY LockStarts, TypesStart, SafeStarts, ReportsStart DEF Init
<1>2. /\ LockInv /\ TypeOK /\ Safe /\ Reported
      /\ [Next]_vars
      => (LockInv /\ TypeOK /\ Safe /\ Reported)'
  BY LockStep, StepsLock, TypesStep, SafeStep, ReportsStep
<1>3. QED
  BY <1>1, <1>2, PTL DEF Spec
-----------------------------------------------------------------------------
\* No log is found beside a main file it was not written for, at any step of a
\* restore and its rollback, while no command of the rollback failed.
THEOREM NoLogIsForeign == Spec => []NoForeignWal
<1>1. Reported => NoForeignWal
  BY DEF Reported, RestoreInv, LogIsOwn, NoForeignWal
<1>2. QED
  BY <1>1, ReportsHold, PTL

\* "database restore completed": of what was committed before, the database
\* has what the chosen backup has.
THEOREM CompletedRestoresAreTrue == Spec => []CompletedIsChosen
<1>1. Reported => CompletedIsChosen
  BY DEF Reported, RestoreInv, VerdictInv, ChosenInv, StoredIs, Earlier,
         CompletedIsChosen
<1>2. QED
  BY <1>1, ReportsHold, PTL

\* "original database and collector state recovered": of what was committed
\* before, the database has what the script found.
THEOREM RecoveriesAreTrue == Spec => []RecoveredIsOriginal
<1>1. Reported => RecoveredIsOriginal
  BY DEF Reported, RestoreInv, VerdictInv, FoundInv, StoredIs, Earlier,
         RecoveredIsOriginal
<1>2. QED
  BY <1>1, ReportsHold, PTL
=============================================================================
