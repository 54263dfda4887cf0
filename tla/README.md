# Formal models of VPS Node Auditor

TLA+ models of the program's stateful core, model-checked with TLC, and proofs
checked with TLAPS. The program meters the traffic of the users of one sing-box
proxy, keeps the evidence in SQLite and lets the owner add, rotate and revoke
the users' credentials. Paths below are relative to `src/`.

## 1. Inventory

| Component | State it keeps | Operations | Interacts through |
|---|---|---|---|
| Traffic store (`internal/storage/sqlite.go`, `schema.go`) | `credentials`, `collector_state`, `traffic_samples`, `events` | `SyncCredentials`, `RecordSnapshot`, `RecordFailure`, queries | called by collector, commands, reports; one SQLite transaction each |
| Collector (`internal/collector`, `cmd/node-audit-collector`) | nothing between cycles | start, `CollectOnce` every interval | operations lock, Stats source, store |
| Stats source (`internal/source/v2ray.go`) | nothing | load mappings, query counters, read process identity | gRPC to sing-box, systemd, procfs |
| Operations lock (`internal/lockfile`) | a `flock` | `TryAcquire`, `Close`, release at death | collector, commands, maintenance |
| Provisioning (`internal/provision`, `cmd/node-provision`) | configuration file, client YAML, rollback directories | `Execute` for add, rotate, disable, remove-user | systemd, sing-box, store, lock |
| Credential transactions (`internal/storage/credentials.go`) | `credentials`, `users` | add, rotate, disable one, disable all | called last by `Execute` |
| Consistency check (`internal/provision/check.go`) | nothing | `Run` | reads configuration, SQLite, Stats, client YAML |
| Maintenance and queries (`internal/storage/maintenance.go`, `Top`) | `traffic_rollups`, `system_rollups` | `Maintain`, `Top`, `TimelineBucket`, `Backup` | operations lock, systemd timers |
| Host evidence (`internal/storage/host.go`, `internal/host`) | `system_collector_state`, `system_samples`, `vnstat_snapshots` | `RecordHostSnapshot`, `MonthUsage` | called after each cycle |
| Alerts (`internal/storage/alerts.go`) | `alert_state` | `EvaluateAlerts` | called after each cycle |
| Restore and backup (`deploy/scripts/restore.sh`, `backup.sh`, `cmd/node-audit-maintenance`) | database file and its log, rollback directory, backups | `restore.sh` with its trap, `Backup`, `pruneBackups` | operations lock, systemd, every program with the database open |
| Reports (`cmd/node-audit`) | nothing | incident, health, top, user, month | queries of the store |
| Configuration, menus, installation (`internal/config`, `cmd/vna`, `deploy`) | nothing | parse, print, dispatch, copy | everything above |

What makes them correct:

- Traffic: every byte carried is billed at most once and, unless a flag says
  otherwise, exactly once, across restarts, crashes, failures and clock steps;
  evidence of gaps is never erased; a revoked credential is never billed again.
- Provisioning: database, configuration, running process and YAML files agree
  after each command, whatever fails in it; nothing is committed that the
  running process has not taken.
- Rollups: what is deleted has been counted, and queries that mix rollups and
  samples count nothing twice and lose nothing.
- The lock: one writer at a time, and it always comes back.
- Restore: whatever a failure, a signal or a kill leaves behind, no committed
  transaction is lost in silence and the collector comes back.
- Reports: what they call recent, complete, stopped or recovered is what the
  tables recorded.

What is hard about them: sing-box restarts at any time, also between two reads
that belong together; processes die anywhere; one command changes four stores
that share no transaction; the wall clock steps; retention, time zones and
rollups cut time at different points. `PROJECT.json` lists these hazards, each
at its line and with the properties that cover it.

## 2. Modules

| Module | About | Checked | Proved |
|---|---|---|---|
| `UsageLedger` | what traffic accounting promises: an account settled interval by interval | as a property of `TrafficAccounting` | `LedgerImplemented` |
| `TrafficAccounting` | counters to minute samples: collector, source, store, lock | 3 runs | `TrafficAccountingProofs`, `SampleProofs` |
| `Provision` | owner commands: configuration, process, YAML, database; the consistency check | 3 runs | `ProvisionProofs` |
| `Rollups` | maintenance, retention, `Top`, `TimelineBucket`, incident reports | 2 runs | `RollupsProofs` |
| `HostEvidence` | host counters to minute rows, gap events, vnStat snapshots | with `Alerts` | `AlertsProofs` |
| `Alerts` | a whole cycle over `HostEvidence`, `MonthUsage`, alerts, `Health` | 2 runs | `AlertsProofs` |
| `OperationsLock` | the lock as an inode under a path | with `Recovery` | `LockExcludes` in `RecoveryProofs` |
| `Recovery` | `restore.sh`, backups, database files, units, over `OperationsLock` | 2 runs | `RecoveryProofs`, `RestoreProofs` |

`MCTrafficAccounting`, `MCProvision`, `MCRollups` and `MCAlerts` give the constants values
for TLC; `FiniteSums` holds lemmas on sums, which three of the proof modules use.
Definitions whose comment starts with
"Fault:" are not part of a specification: each is a plausible mistake in the
definition below it, used to confirm that the properties notice it.

### TrafficAccounting

`row` is the `credentials` table, `known` and `baseline` are `collector_state`,
`sampled` and `sample` are `traffic_samples`, `events` is `events`; `lock` is
the flock; `pc` and `snap` are a collector's place in `CollectOnce` and its
snapshot. `epoch` and `counter` are sing-box's, external to the repository.
Actions follow the code: `SyncCredentials` (collector start, without the lock),
`BeginCycle` (lock, mappings), `QueryStats`, `ReadProcessIdentity`, then
`RecordSnapshot`, `RejectStale`, `RecordFailure` or `WriteFails`, then
`EndCycle`. `Crash` may replace any step. `Restart` and `SetClock` happen
between any two. The database functions are one action each because each is one
SQLite transaction. `listEnabledCredentials`, `calculateDelta`, `Merge` and
`Stale` are the code's helpers.

History variables record the truth that properties compare with: bytes really
carried, bytes billed, the process and the traffic behind each baseline
(`origin`), and the bytes of one process billed under two identities
(`rebilled`).

Abstractions: identities are process numbers, 0 is the lost identity; one
Stats source; `active` and the system sample, which no property distinguishes,
are left out. The owner's commands appear as lock holders that change rows; a
rotation is a disable and an add under one lock. A baseline is recorded with
its first observation, so that traffic before it is not billed, as in the code.

`UsageLedger` is the abstract account: `row`, `carried`, and for each
credential the position up to which it is `settled`, what is `billed`, and
whether it is `flagged`. It knows no clock, process, snapshot, lock or crash.
One step settles the next interval of some enabled accounts: never more than
was carried in it (but for `excess`, the bytes of one process under two
identities), and exactly that while nothing is flagged. `ImplementsLedger` is
the refinement: `settled` is the traffic behind the baseline, `opened` the
credentials that have one.

### Provision

`config` is the set of users of the tagged inbound; `BuildCoreCandidate`
changes inbound users and Stats users alike, and a user's Stats name is fixed
with the UUID, so one set stands for both. `up`, `loaded` and `exposed` are the
running process, the users it loaded and those with counters; `issued` is the
order in which UUIDs were made, which the lock makes that of the rows' numbers;
`newPid` is the
comparison of MainPID with the one read before. `yaml` and `saved` are the
output and rollback directories. `cmd` holds a command's local variables.
Actions are the steps of `Execute` in order (`Accept`, `Prepare`, `StageYaml`,
`ReplaceConfig`, `Restart`, `Verify`, `VerifyApplied`, `PublishYaml`,
`PurgeYaml`, `Commit`), its failure exits (`PrepareFails`, `InspectFails`,
`ApplyFails`, `StepFails`) and the rollback closure (`RestoreConfig`,
`RestartAgain`, `VerifyAgain`, `RemoveUncommittedYaml`, `RestoreYaml`), each of
which may itself fail. `Crash` replaces any step: the program has no signal
handling and no journal. `drift` is history: a command died while its four
stores differed, or reported that it could not restore.

`CredentialItems` are the items of `ConsistencyChecker.Run` on credentials:
inbound and Stats users against SQLite, counters against SQLite, and the client
YAML files, where of several active credentials with one file name the last row
is expected. The check takes no lock and changes nothing. Its other items, each
of which may be an error by itself, are left out: the two services, the port,
the Stats API, the freshness of samples (which is `Health` in `Alerts`) and file
modes.

Abstractions: the rollback copies of configuration, binary, unit and database
are never read by the program and are left out, as are temporary files. Files
to be staged are taken in any order. A failed `systemctl restart` during
apply leaves the process to the environment's `Stop` and `Start`. The owner takes
YAML files away only while no command runs. External commands terminate.
Commands begin on a database and a configuration that name the same users; a
request that could not build a candidate is refused without a change.

### Rollups

`sampled`/`sample` and `rolled`/`rollup` are the tables `traffic_samples` and
`traffic_rollups`. `Maintain` is the whole function: it builds the rollups of
closed periods from all samples, overwrites them, then deletes expired samples
and rollups; it runs under the lock and commits once, so it is one action and
its failure is no step. `Top`, `Buckets`, `Uncovered` and `Entry` are the
queries; `Timeline` is the minute query and `Incident` the loop of
`runIncident` over it, a recursive function of the minutes that takes `Read` for
each one with a row. `retention` is the configured pair of
lifetimes. A time zone is given by the functions `Start` and `End` (`periodBounds`)
and by `Shown`, its counterpart in the zone of the display. `recorded` and
`archive` are history: the samples as they would be if nothing was deleted; so
is `late`, the samples written into the past and not rolled up since.

Abstractions: one byte count stands for upload and download; `active` and reset
counts are left out; the checkpoint and the integrity check after the commit
change no row; system rollups, which have no queries of their own in the
model, are left out, as is event retention.

### HostEvidence and Alerts

`HostEvidence` has the tables and the operations of `RecordHostSnapshot`:
`state` and `hasState` are one row of `system_collector_state`, `hosted`/`host`
are `system_samples`, `observed`/`vnstat` are `vnstat_snapshots`, `gapEvents`
the `system_evidence_gap` events, with their minute and the sources they name.
`reports` (the incomplete readings) and `late` (the minutes written behind
later ones) are history. It has no steps of its own:
`Alerts` extends it and runs one collector's cycle (`pc`) in the order of
`CollectOnce`: traffic or a gap (`RecordSnapshot`, `RecordFailure`,
`RecordsNothing`), the host's evidence (`ObserveHost`), the alerts
(`EvaluateAlerts`, which commits each alert by itself and may fail between
two). `active` holds the keys of the active rows of `alert_state`.
`Health` is the store's health report; the live probes with which
`node-audit health` overwrites some of its fields ask the system, not the
tables, and are left out.

Abstractions: one counter stands for all host counters; a reading is the set of
its missing sources. All traffic of the host is one user's, and sing-box boots
with the host, so that the traffic part is that of `TrafficAccounting` reduced
to one credential with known identities, and the users' and the interface's
bytes are comparable. The clock and the traffic stand still during a cycle.
The event of a rising alert, which repeats the transition, and traffic
directions are left out; one threshold stands for the hourly and the daily one.

### OperationsLock and Recovery

`OperationsLock` separates the path from the inode behind it, as
`lock_unix.go` does: `OpenLock` creates or opens the file, `Flock` locks what
was opened, `Close` leaves the file, and `RemoveDirectory` is what systemd does
to `RuntimeDirectory=` when the collector's unit ends. `Recovery` extends it
with the database: `main` and `wal` are the file at the path and its log, as
sets of transactions numbered in commit order, with the file they belong to;
`opened` is the file each program is connected to. `script` is `restore.sh`,
one action per command of the shell, and its rollback directory (`saved`). From
`RestoreArms` on a failure or a signal runs the trap (`RestoreAborts`), whose
own commands are the actions from `RollbackStops` to `RollbackEnds`: each may
fail, `rm` and `cp` for each file, and the trap goes on. A kill
(`RestoreKilled`) may come anywhere. Beside it run the collector's service with
its automatic restart, an owner command, backup runs with `pruneBackups`, and
an operator who starts the service after a killed script.

Abstractions: a backup run is one step, since it holds the lock from before the
database is opened to after it is closed. Rows are not told apart, only
transactions. The script runs once. What another program leaves of a database
that it used while the script handled the files is recorded (`disturbed`) and
not followed any further.

## 3. Runs

| Run | Question | Result |
|---|---|---|
| `TrafficAccounting_restarts` | Do restarts, crashes, failures, lost identities or clock steps bill too much, or lose bytes without a flag? Is it a ledger (`ImplementsLedger`)? Do minute rows keep every delta and every gap, and are past minutes and revoked credentials left alone? | sound |
| `TrafficAccounting_lock` | With two collectors and an owner: is one writer at work at a time, has every incomplete or reset minute an event that explains it, and does the lock always come back? | sound |
| `TrafficAccounting_torn` | Is billing bounded by traffic alone, as a comment says? | no, finding |
| `Provision_commands` | Do the stores agree after every command of two racing processes? | yes |
| `Provision_files` | Are YAML files neither lost by a failure nor left over, is only verified state committed, and do the items of the check on credentials report nothing where nothing is wrong, also of a file name that two users share? | yes |
| `Provision_purge` | Are YAML files removed only after the commit? | no, finding |
| `Rollups_maintenance` | Are `Top` and timelines made of rollups bounded by, and while samples are kept equal to, what was recorded, gaps included? Is a period's first rollup complete, also when the clock steps, and everything counted before it is deleted? Are a reported stop and recovery what was recorded? | yes |
| `Rollups_retention` | Does a rollup keep its bytes while it is kept? | no, finding |
| `Alerts_cycle` | Do host deltas add up across boots, missing sources and failures; is every incomplete reading announced with its missing sources; do volume alerts stay while their period lasts; was what the health report calls fresh and complete recorded? | yes |
| `Alerts_coverage` | Does reconciliation compare identical time coverage? | no, finding |
| `Recovery_restore` | Wherever `restore.sh` fails, is interrupted or killed: is a committed transaction lost, a log left beside a foreign file, a success reported that is none, the collector left stopped? Is a reported backup kept? | sound, but for the limits below |
| `Recovery_lock` | Does a lock file that is never unlinked exclude a second holder? | no, finding |

Findings:

- *A torn snapshot bills a process twice.* The counters are read before the
  identity (`internal/source/v2ray.go:84`, `97`). `NoOverBilling` says that
  nothing else can be over-billed.
- *YAML files are deleted before the commit* (`manager.go:403`).
- *Rollups shrink.* Each night the rollups of closed periods are rebuilt from
  the samples that are left (`internal/storage/maintenance.go:80`). When a
  period expires partly its rollup becomes the sum of the rest; a month ends
  as the sum of its last hours.
- *A failed collection raises the difference alert.* Bytes carried before the
  first vnStat snapshot of a cycle, in a minute whose collection failed, are
  recorded in a later minute, which the comparison covers
  (`internal/storage/host.go:238`).
- *Two processes hold the lock.* `Close` keeps the lock file so that nobody can
  lock a second inode (`internal/lockfile/lock_unix.go:48`), but its directory
  is the collector's `RuntimeDirectory=`: when the unit ends while an owner
  command or `restore.sh` holds the lock, systemd removes the file, and the
  next process locks a new one. `OverlapHasOneCause` says that nothing else
  lets a second holder in.

Known limits no run shows as a finding:

- Files: a YAML that cannot be read leaves the files staged before it in the
  rollback directory (`manager.go:349`), although any failure should restore
  them (`requirements/PROJECT_REQUIREMENTS.md:17`); `FailureKeepsYaml` says that
  they are not lost. A disable or rotation that succeeds takes the file under
  the device's name away, also when the name belongs to a device of another
  user as well (`manager.go:344`); no property forbids it.
- Check: it compares SQLite with the configuration file, not with what the
  process has loaded (`internal/provision/check.go:88`). After a command that
  died between restoring the file and restarting sing-box it finds no error.
  `CheckRaisesNoFalseAlarm` only says that the modelled items report nothing
  where nothing is wrong.
- Billing: a restart whose identity was lost and whose counters have outgrown
  the old ones bills the difference only (`internal/storage/sqlite.go:575`); a gap in a minute
  leaves the bytes billed in it out of `Top` (`sqlite.go:349`). Both are as in
  the code, and no property forbids them.
- Host evidence: after the clock was stepped back a minute is compared with
  those before it only (`host.go:93`). `GapIsAnnounced` excepts such minutes.
- Time: days are counted twice by the timeline when the billing zone is not the
  display zone (`maintenance.go:344`; `MCRollups`, `LaterStart`). Where clocks
  are set back, `periodBounds` gives both instances of the repeated hour one
  start and one rollup, while `Top` takes a rollup to cover 3600 seconds
  (`internal/storage/sqlite.go:353`) and adds the other instance's samples
  again. A clock that was stepped back leaves minutes ahead of it, which
  `Health` takes for the latest until the clock passes them.
- Retention: validation accepts a `minute_days` shorter than a month
  (`internal/config/config.go:268`); no month is then rolled up whole, and
  `MonthUsage` counts a part of it (`internal/storage/host.go:191`).
- Incident reports: a minute whose collection failed counts as a stop, and gaps
  after the recovery are not counted (`cmd/node-audit/main.go:250`).
- Restore: a signal between `restore.sh:101` and the end reports the original
  as recovered though the backup is installed; a unit that waits for its
  automatic restart counts as inactive (line 36) and stays stopped; an
  unfinished backup that is still empty passes `PRAGMA integrity_check` (line
  34). `cmd/node-provision/main.go:135` opens the database before it takes the
  lock, and may keep a connection across a restore: what it commits then goes
  to a file that is no longer there.
- Backups: after the clock was set back a new backup sorts below the old ones
  and its own run may delete it (`cmd/node-audit-maintenance/main.go:268`).

### Bounds

- Traffic: one credential (they do not interact except through the lock and the
  staleness test, which take the maximum over all), one direction, two
  processes of sing-box; two bytes and three seconds in minutes of two
  (`restarts`), or one byte and two minutes (`lock`). Two processes are enough for each order of a restart
  around the query and the identity; a step back and forth needs three seconds;
  merging needs two observations in a minute. One collector suffices where
  the question is not exclusion.
- Provision: three devices, two users; two of the devices share a file name,
  in one instance those of different users; one of them is another's successor
  under the same name. Two commands are enough for each race at the lock; every
  command of a longer history starts from a state that one command can leave.
- Rollups: one credential, since the queries add credentials up and a rollup
  belongs to one; hours of two minutes. `Rollups_maintenance` has hours
  only, since days and months differ from them in their bounds alone; samples
  are kept for a period and rollups for a minute more, or samples for a minute
  more than a period and rollups for a period, so that the cutoffs fall inside
  and between periods and each kind of row expires first. In
  `Rollups_retention` a day has two hours. The clock steps back by one minute,
  less than any retention.
- Alerts: three cycles, two bytes, two boots, three minutes in billing cycles
  of two: a baseline, a delta and an observation after a failure or a boot. A
  minute is fresh for one, so that one that is stale exists.
- Recovery: one restore, one owner command at a time, two transactions, the
  second of which may be committed at any point; two names of backups, of which
  one is kept, so that each run prunes; three inodes, one more than a
  file and its successor. The proofs hold for any number of each.

### Fairness

Two runs use it. `TrafficAccounting_lock`: weak fairness of each step of a
cycle and of the owner's release. Queries, D-Bus and SQLite calls have timeouts
or are local (`internal/source/v2ray.go:83`,
`internal/collector/collector.go:88`), and the kernel releases a dead
process's lock. `Recovery_restore`: weak fairness of the script's steps, since
the shell runs the next command; a command that fails is a step too. Nothing is
assumed of starting a cycle, of sing-box, of services and operators, of the
clock or of crashes.

Deadlock is checked in every run but the two of `Recovery`, where nothing
follows once the database was disturbed, and where the script ends and the
bounds are used up; in the others the environment can always move.

## 4. Proofs

The proofs hold for any sets of credentials, collectors, commands, users and
files and any values of the bounds; they assume only the named assumptions of
the modules and, in `RollupsProofs`, the hypotheses below. Every invariant and
every action property that a run finds to hold is proved.

`TrafficAccountingProofs`: `NoOverBilling` is not inductive: a step that bills
a difference is right only if the baseline was read no later than the snapshot
and both belong to one process, or the identity tells them apart. `AccountingInv`
therefore orders three readings of each credential's counters (recorded, in
memory, live; `Precedes`), places identities between the processes they may
belong to (`IdentityBetween`), and says that only the holder of the lock has a
snapshot, so that no other cycle moves the baseline under it. Lemmas about
`Precedes` and `calculateDelta` carry the arithmetic; the step theorem has a
case for each action. From it follow `TypeOK` (no negative delta),
`NoOverBilling`, `UnflaggedIsExact` and, step by step, the refinement
(`LedgerImplemented`): `RecordSnapshot` is one `Settle` of the credentials it
finds, every other step changes rows, carries a byte or stutters.

`FiniteSums`: the models add up bytes with `SumFunctionOnSet`, which takes any
element away from a set at a time. The library's induction theorems cannot be
used (they take an operator), but an induction over the subsets of a finite set
can be had from the well-foundedness of strict inclusion (`SubsetInduction`),
and over an interval from that. The lemmas say that the recursion has one
solution, and from it that a sum is that of its parts, grows with its terms and
changes by what one term changes.

`SampleProofs`: with each write a credential's rows grow by what it is billed,
since a key without a row holds a neutral value (`NeutralRows`). That is the
step of `SamplesHoldEveryDelta`; the action properties follow from what the
write does, which no other step repeats, and the test for stale snapshots.

`ProvisionProofs`: `Agreement` speaks of the idle state only. `ProvisionInv`
adds what holds inside a command: the lock's holder, the configuration at each
stage (`ConfigInv`), and for a command that started from agreement and met no
fault that the original or the candidate is in place and loaded
(`AgreementInv`). `CommitIsVerified` follows from `ConfigInv` alone, hence also
after a drift. `YamlInv` does the same for the files: between commands
each file is that of an enabled credential, the last of those that share its
name by the order in which UUIDs were issued (`Current`, `IssuedInv`; the check
expects this one), and each stage of a command says which files are staged,
published or to be removed. `CheckRaisesNoFalseAlarm` needs both invariants.

`RecoveryProofs`: `LockInv` says that processes hold the lock on inodes they have
open, and that an inode not at the path is open only after a removal; it is
preserved by every step of the lock by itself (`LockExcludes`), and every step
of `Recovery` is one or leaves the lock alone (`RecoveryKeepsLock`).
`NothingIsLost` rests on `LossInv`, which says for each stage of the script
where the transactions are: in the file and its log before the copies are
complete, in the rollback directory from then on. `ReportedBackupsStay` needs
no stage: pruning leaves the greatest names, for any count above zero.

`RestoreProofs`: what the script reports. `RestoreInv` adds to `LossInv` whose
the log is at each stage (`LogIsOwn`, `LogStaysAway`), that the unit stands
still while files are handled, that what was chosen, found and saved is what is
at the path when the stage says so (`ChosenInv`, `FoundInv`, `MainInv`), and
that verdicts are given at the end (`VerdictInv`). It holds until another
program used the database under the script (`disturbed`), or a command of the
rollback failed, which the script reports as unproven.

`AlertsProofs`: the host's rows hold at most what lies between the first and
the last reading (`HostInv`, with `ReadingOrder` of the three readings
involved), exactly that until the next boot. `GapIsAnnounced` needs that
what a minute misses was reported in it (`ReportsInv`): when the code finds the
same sources in the minute before, that report's event serves. For
`HealthIsTrue` the invariant ties rows to the baseline and to vnStat readings
(`EvidenceAndBase`); for `VolumeAlertStays` it says which sums a raised alert
was raised on (`AlertInv`), and the step that they do not shrink, except for the
reasons the property names.

`RollupsProofs`: `RecordedInv` bounds samples and rollups by what was recorded,
and queries are within it because rollups and the samples they leave over are
apart (`MixtureWithin`). Exactness needs more: deleted minutes do not come back
(`KeptInv`), a rollup whose samples are all kept is complete (`RollupInv`), and
what was rolled up had ended (`EndedInv`). `CountedInv` is behind what maintenance
promises: a recorded sample is kept, or its period has a rollup, or that is
expired. For the incident report samples are deleted from the oldest on
(`DeletedFirst`), and the loop has an invariant of its own (`LoopInv`), proved by
induction over the minutes it reads. Hypotheses of these theorems, each where it is
needed only, are:

- `RegularHours`: the minutes of an hour are the 3600 seconds after its start. It
  leaves out the hour in which clocks are set back, where `Top` does count
  samples twice (known limits). `RegularPeriods`: a period is an interval with
  one end, which leaves out the same hour.
- `OneZone`: timelines are shown in the zone of the rollups; they are wrong
  otherwise (known limits).
- `StepsAreShort`: the clock is not stepped back further than samples are kept,
  which would let a deleted minute come back.
- `SamplesOutlivePeriods`: a sample is kept until its longest period has ended.
  The defaults (90 days of samples, months as the longest period) satisfy it;
  the validation of the configuration does not demand it (known limits).

`MCRollups` has TLC check that the instances meet them, but for the last one in
`Rollups_retention`, whose days outlive their samples.

Model-checked only: liveness (`LockIsReleased`, `CollectorComesBack`), since
fairness and ENABLED are out of the prover's reach. The findings are counterexamples of TLC.

## 5. Plan

Done: the modules above, the refinement of the ledger, restore and backup, and
a proof of each safety property. Next:

1. `CoreCandidate`: `BuildCoreCandidate` with inbound users and Stats users kept
   apart, malformed and duplicate entries, checked against a reference
   definition; then `Provision` with two sets.
2. Collector and commands over one database with both lock paths as parameters
   (`internal/config/config.go:159`), and an instance of `Rollups` whose zone
   has daylight saving time.
3. A specification of what the owner's commands promise, a device that is granted
   or revoked in one step, which `Provision` implements as `TrafficAccounting`
   implements `UsageLedger`.

Not modelled: procfs and vnStat parsing, gRPC framing, configuration parsing,
menus, formatting and installation, which are sequential input and output; file
modes and owners, which the programs set and never depend on; system rollups,
which are built like the traffic rollups and which no query reads; the plain
listings of events and system samples.
