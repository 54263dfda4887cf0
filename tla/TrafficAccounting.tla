------------------------- MODULE TrafficAccounting -------------------------
(***************************************************************************)
(* From sing-box's cumulative counters to billed minute samples.           *)
(*                                                                         *)
(* sing-box keeps, per credential and direction, a byte counter that       *)
(* restarts at zero with every new process.  A collector process takes the *)
(* operations lock, loads the enabled credentials, queries the counters,   *)
(* then (a separate step) asks systemd and procfs which process is         *)
(* running, and commits the differences to SQLite in one transaction.      *)
(* sing-box may restart between any two of these steps; collectors and the *)
(* owner commands exclude each other by the lock only; any process may     *)
(* crash anywhere, which releases its flock and loses nothing committed.   *)
(*                                                                         *)
(* Bytes, seconds and processes are numbered.  Process identity 0 is the   *)
(* empty string the source reports when MainPID or procfs is unavailable.  *)
(***************************************************************************)
EXTENDS Integers, FiniteSets, FiniteSetsExt

CONSTANTS
  Credential,        \* rows the credentials table can ever hold
  Direction,         \* the counter directions (uplink, downlink)
  Collector,         \* collector processes (the service, a -once run)
  Configured,        \* credentials the configuration file may list, enabled
  SecondsPerMinute,  \* width of a sample bucket
  MaxCarried,        \* bound: bytes carried per credential and direction
  MaxEpoch,          \* bound: sing-box processes started
  MaxClock           \* bound: wall-clock seconds

ASSUME CollectorAssumption == "free" \notin Collector /\ "owner" \notin Collector
ASSUME ConfiguredAssumption == Configured \subseteq Credential
ASSUME BoundAssumption ==
  /\ SecondsPerMinute \in Nat \ {0}
  /\ MaxCarried \in Nat
  /\ MaxEpoch \in Nat \ {0}
  /\ MaxClock \in Nat

VARIABLES
  clock,      \* wall clock; NTP may step it back
  epoch,      \* identity of the running sing-box process
  counter,    \* its cumulative counters
  lock,       \* holder of the operations lock
  row,        \* credentials: absent, enabled or revoked
  known,      \* credentials that have a collector_state row
  baseline,   \* that row: counters, last_success_at, core_boot_id
  sampled,    \* keys of the traffic_samples rows
  sample,     \* their values; a key without a row holds the neutral value
  events,     \* the events table
  pc,         \* where each collector stands in CollectOnce
  snap,       \* its snapshot in memory
  carried,    \* history: bytes really carried since installation
  billed,     \* history: sum of every delta written to traffic_samples
  origin,     \* history: the truth behind a collector_state row
  rebilled,   \* history: bytes of one process billed under two identities
  inexact     \* history: credentials with a flagged or unverified delta

dbVars == <<row, known, baseline, sampled, sample, events>>
ledgerVars == <<billed, origin, rebilled, inexact>>
proxyVars == <<epoch, counter, carried>>
vars == <<clock, proxyVars, lock, dbVars, pc, snap, ledgerVars>>

-----------------------------------------------------------------------------
(* Values *)

Bytes == [Direction -> Nat]
Zero == [d \in Direction |-> 0]
Identity == 0 .. MaxEpoch
Time == 0 .. MaxClock
Bucket(t) == t - (t % SecondsPerMinute)
Key == Time \X Credential

Categories == {"missing_counter", "counter_reset", "collection_failed"}
Event == [category : Categories, credential : Credential \cup {"node"}, at : Time]
Baseline == [counter : Bytes, at : Time, boot : Identity]
Sample == [bytes : Bytes, ok : BOOLEAN, reset : BOOLEAN]
Origin == [epoch : Identity, carried : Bytes, base : Bytes]
Snapshot == [mapped : SUBSET Credential, counter : [Credential -> Bytes],
             boot : Identity, at : Time,
             epoch : Identity, carried : [Credential -> Bytes]]
Stages == {"down", "idle", "mapped", "queried", "observed", "failed", "recorded"}

NoBaseline == [counter |-> Zero, at |-> 0, boot |-> 0]
NoOrigin == [epoch |-> 0, carried |-> Zero, base |-> Zero]
NeutralSample == [bytes |-> Zero, ok |-> TRUE, reset |-> FALSE]
NoSnapshot == [mapped |-> {}, counter |-> [c \in Credential |-> Zero],
               boot |-> 0, at |-> 0,
               epoch |-> 0, carried |-> [c \in Credential |-> Zero]]

Add(x, y) == [d \in Direction |-> x[d] + y[d]]
Subtract(x, y) == [d \in Direction |-> x[d] - y[d]]

-----------------------------------------------------------------------------
(* Storage helpers *)

listEnabledCredentials == {c \in Credential : row[c] = "enabled"}

\* Fault: a lost identity taken for a new process.
BootDiffers(previous, boot) == previous.boot # boot

bootChanged(previous, boot) ==
  previous.boot # 0 /\ boot # 0 /\ previous.boot # boot

Regressed(previous, current) ==
  \E d \in Direction : current[d] < previous.counter[d]

\* Fault: the bare difference, whatever happened to the process.
BareDifference(found, previous, current, boot) ==
  IF found
    THEN [bytes |-> Subtract(current, previous.counter), ok |-> TRUE, reset |-> FALSE]
    ELSE NeutralSample

\* Fault: the first observation bills what the counter shows already.
FirstBillsCounter(found, previous, current, boot) ==
  IF ~found \/ bootChanged(previous, boot)
    THEN [bytes |-> current, ok |-> TRUE, reset |-> found]
  ELSE IF Regressed(previous, current)
    THEN [bytes |-> Zero, ok |-> FALSE, reset |-> TRUE]
  ELSE [bytes |-> Subtract(current, previous.counter), ok |-> TRUE, reset |-> FALSE]

\* What one observation of a credential writes: bytes, ok flag, reset flag.
calculateDelta(found, previous, current, boot) ==
  IF ~found
    THEN NeutralSample
  ELSE IF bootChanged(previous, boot)
    THEN [bytes |-> current, ok |-> TRUE, reset |-> TRUE]
  ELSE IF Regressed(previous, current)
    THEN [bytes |-> Zero, ok |-> FALSE, reset |-> TRUE]
  ELSE [bytes |-> Subtract(current, previous.counter), ok |-> TRUE, reset |-> FALSE]

Gap == [bytes |-> Zero, ok |-> FALSE, reset |-> FALSE]

\* The row a snapshot s leaves for credential c.
Outcome(c, s) ==
  IF c \in s.mapped
    THEN calculateDelta(c \in known, baseline[c], s.counter[c], s.boot)
    ELSE Gap

\* Fault: the second observation of a minute replaces the first one's bytes.
MergeReplaces(old, new) == [new EXCEPT !.ok = old.ok /\ @, !.reset = old.reset \/ @]

\* Fault: the last observation of a minute decides its quality.
MergeLastOk(old, new) ==
  [bytes |-> Add(old.bytes, new.bytes), ok |-> new.ok, reset |-> old.reset \/ new.reset]

\* ON CONFLICT: bytes add up, the worst of each flag stays.
Merge(old, new) ==
  [bytes |-> Add(old.bytes, new.bytes),
   ok    |-> old.ok /\ new.ok,
   reset |-> old.reset \/ new.reset]

\* One row per credential of C in the minute of t, in one transaction.
insertTrafficSamples(t, C, new) ==
  /\ sampled' = sampled \cup ({Bucket(t)} \X C)
  /\ sample' = [k \in Key |->
                  IF k[1] = Bucket(t) /\ k[2] \in C
                    THEN Merge(sample[k], new[k[2]]) ELSE sample[k]]

\* Fault: a snapshot is recorded whatever its time.
NeverStale(s) == FALSE

Stale(s) == \E c \in known : s.at <= baseline[c].at

Goto(p, stage) == pc' = [pc EXCEPT ![p] = stage]
Forget(p) == snap' = [snap EXCEPT ![p] = NoSnapshot]

-----------------------------------------------------------------------------
Init ==
  /\ clock = 0
  /\ epoch = 1
  /\ counter = [c \in Credential |-> Zero]
  /\ lock = "free"
  /\ row = [c \in Credential |-> "absent"]
  /\ known = {}
  /\ baseline = [c \in Credential |-> NoBaseline]
  /\ sampled = {}
  /\ sample = [k \in Key |-> NeutralSample]
  /\ events = {}
  /\ pc = [p \in Collector |-> "down"]
  /\ snap = [p \in Collector |-> NoSnapshot]
  /\ carried = [c \in Credential |-> Zero]
  /\ billed = [c \in Credential |-> Zero]
  /\ origin = [c \in Credential |-> NoOrigin]
  /\ rebilled = [c \in Credential |-> Zero]
  /\ inexact = {}

-----------------------------------------------------------------------------
(* sing-box and the clock *)

Carry(c, d) ==
  /\ carried[c][d] < MaxCarried
  /\ carried' = [carried EXCEPT ![c][d] = @ + 1]
  /\ counter' = [counter EXCEPT ![c][d] = @ + 1]
  /\ UNCHANGED <<clock, epoch, lock, dbVars, pc, snap, ledgerVars>>

\* A crash restarted by systemd, a reboot, or a restart by the owner.
Restart ==
  /\ epoch < MaxEpoch
  /\ epoch' = epoch + 1
  /\ counter' = [c \in Credential |-> Zero]
  /\ UNCHANGED <<clock, carried, lock, dbVars, pc, snap, ledgerVars>>

SetClock ==
  /\ clock' \in {clock + 1, clock - 1} \cap Time
  /\ UNCHANGED <<proxyVars, lock, dbVars, pc, snap, ledgerVars>>

-----------------------------------------------------------------------------
(* The owner's provisioning commands, as far as this module sees them *)

OwnerAcquire ==
  /\ lock = "free"
  /\ lock' = "owner"
  /\ UNCHANGED <<clock, proxyVars, dbVars, pc, snap, ledgerVars>>

OwnerSetsRow(c, before, after) ==
  /\ lock = "owner"
  /\ row[c] = before
  /\ row' = [row EXCEPT ![c] = after]
  /\ UNCHANGED <<clock, proxyVars, lock, known, baseline, sampled, sample, events,
                 pc, snap, ledgerVars>>

AddCredential(c) == OwnerSetsRow(c, "absent", "enabled")

DisableCredential(c) == OwnerSetsRow(c, "enabled", "revoked")

OwnerRelease ==
  /\ lock = "owner"
  /\ lock' = "free"
  /\ UNCHANGED <<clock, proxyVars, dbVars, pc, snap, ledgerVars>>

-----------------------------------------------------------------------------
(* A collector process *)

\* Fault: the upsert writes the configuration's enabled flag over a revocation.
SyncReenables(p) ==
  /\ pc[p] = "down"
  /\ Goto(p, "idle")
  /\ \E listed \in SUBSET Configured :
       row' = [c \in Credential |-> IF c \in listed THEN "enabled" ELSE row[c]]
  /\ UNCHANGED <<clock, proxyVars, lock, known, baseline, sampled, sample, events,
                 snap, ledgerVars>>

\* main: sync the credentials the configuration lists now, without the lock.
SyncCredentials(p) ==
  /\ pc[p] = "down"
  /\ Goto(p, "idle")
  /\ \E listed \in SUBSET Configured :
       row' = [c \in Credential |->
                 IF c \in listed /\ row[c] = "absent" THEN "enabled" ELSE row[c]]
  /\ UNCHANGED <<clock, proxyVars, lock, known, baseline, sampled, sample, events,
                 snap, ledgerVars>>

\* Fault: the cycle does not wait for the lock.
BeginCycleUnlocked(p) ==
  /\ pc[p] = "idle"
  /\ lock' = p
  /\ Goto(p, "mapped")
  /\ snap' = [snap EXCEPT ![p].mapped = listEnabledCredentials]
  /\ UNCHANGED <<clock, proxyVars, dbVars, ledgerVars>>

\* CollectOnce: TryAcquire, then the source loads the enabled mappings.  A
\* busy lock skips the cycle: no step.
BeginCycle(p) ==
  /\ pc[p] = "idle"
  /\ lock = "free"
  /\ lock' = p
  /\ Goto(p, "mapped")
  /\ snap' = [snap EXCEPT ![p].mapped = listEnabledCredentials]
  /\ UNCHANGED <<clock, proxyVars, dbVars, ledgerVars>>

\* queryV2RayStats: the counters of the process running now.
QueryStats(p) ==
  /\ pc[p] = "mapped"
  /\ Goto(p, "queried")
  /\ snap' = [snap EXCEPT ![p].counter = counter,
                          ![p].epoch = epoch, ![p].carried = carried]
  /\ UNCHANGED <<clock, proxyVars, lock, dbVars, ledgerVars>>

\* Mapping, timeout, gRPC or decoding errors.
CollectFails(p) ==
  /\ pc[p] = "mapped"
  /\ Goto(p, "failed")
  /\ UNCHANGED <<clock, proxyVars, lock, dbVars, snap, ledgerVars>>

\* mainPID and readProcessIdentity, then ObservedAt: the process running now,
\* which need not be the one that answered the query.
ReadProcessIdentity(p) ==
  /\ pc[p] = "queried"
  /\ Goto(p, "observed")
  /\ \E boot \in {0, epoch} :
       snap' = [snap EXCEPT ![p].boot = boot, ![p].at = clock]
  /\ UNCHANGED <<clock, proxyVars, lock, dbVars, ledgerVars>>

\* The truth about a snapshot s: counters of the process that was already
\* billed for c, stamped with the identity of a later process.
Rebills(c, s) ==
  /\ c \in known
  /\ origin[c].epoch = s.epoch
  /\ baseline[c].boot # 0
  /\ s.boot > s.epoch

\* Fault: an omitted credential gets a gap row but no event.
ResetEventsOnly(s) ==
  [category : {"counter_reset"}, at : {s.at},
   credential : {c \in listEnabledCredentials \cap s.mapped : Outcome(c, s).reset}]

SnapshotEvents(s) ==
  LET seen == listEnabledCredentials \cap s.mapped IN
    [category : {"missing_counter"}, at : {s.at},
     credential : listEnabledCredentials \ s.mapped]
    \cup
    [category : {"counter_reset"}, at : {s.at},
     credential : {c \in seen : Outcome(c, s).reset}]

RecordSnapshot(p) ==
  LET s == snap[p]
      seen == listEnabledCredentials \cap s.mapped
  IN
  /\ pc[p] = "observed"
  /\ ~Stale(s)
  /\ Goto(p, "recorded")
  /\ Forget(p)
  /\ insertTrafficSamples(s.at, listEnabledCredentials,
                          [c \in listEnabledCredentials |-> Outcome(c, s)])
  /\ events' = events \cup SnapshotEvents(s)
  /\ known' = known \cup seen
  /\ baseline' = [c \in Credential |->
                    IF c \in seen
                      THEN [counter |-> s.counter[c], at |-> s.at, boot |-> s.boot]
                      ELSE baseline[c]]
  /\ billed' = [c \in Credential |->
                  IF c \in seen THEN Add(billed[c], Outcome(c, s).bytes) ELSE billed[c]]
  /\ origin' = [c \in Credential |->
                  IF c \in seen
                    THEN [epoch |-> s.epoch, carried |-> s.carried[c],
                          base |-> IF origin[c].epoch = 0 THEN s.carried[c] ELSE origin[c].base]
                    ELSE origin[c]]
  /\ rebilled' = [c \in Credential |->
                    IF c \in seen /\ Rebills(c, s)
                      THEN Add(rebilled[c], baseline[c].counter) ELSE rebilled[c]]
  /\ inexact' = inexact \cup
       {c \in seen : Outcome(c, s).reset \/ s.boot # s.epoch}
  /\ UNCHANGED <<clock, proxyVars, lock, row>>

\* ErrStaleSnapshot: nothing is written, not even a gap.
RejectStale(p) ==
  /\ pc[p] = "observed"
  /\ Stale(snap[p])
  /\ Goto(p, "recorded")
  /\ Forget(p)
  /\ UNCHANGED <<clock, proxyVars, lock, dbVars, ledgerVars>>

\* Fault: a failed cycle starts over from a new baseline.
RecordFailureRebases(p) ==
  /\ pc[p] = "failed"
  /\ Goto(p, "recorded")
  /\ Forget(p)
  /\ known' = {}
  /\ UNCHANGED <<clock, proxyVars, lock, row, baseline, sampled, sample, events, ledgerVars>>

RecordFailure(p) ==
  /\ pc[p] = "failed"
  /\ Goto(p, "recorded")
  /\ Forget(p)
  /\ insertTrafficSamples(clock, listEnabledCredentials,
                          [c \in listEnabledCredentials |-> Gap])
  /\ events' = events \cup
       {[category |-> "collection_failed", credential |-> "node", at |-> clock]}
  /\ UNCHANGED <<clock, proxyVars, lock, row, known, baseline, ledgerVars>>

\* A SQLite error rolls the whole transaction back.
WriteFails(p) ==
  /\ pc[p] \in {"observed", "failed"}
  /\ Goto(p, "recorded")
  /\ Forget(p)
  /\ UNCHANGED <<clock, proxyVars, lock, dbVars, ledgerVars>>

\* Fault: the lock is kept after the cycle.
EndCycleKeepsLock(p) ==
  /\ pc[p] = "recorded"
  /\ Goto(p, "idle")
  /\ UNCHANGED <<clock, lock, proxyVars, dbVars, snap, ledgerVars>>

\* Host evidence and alerts (other tables) are done; the deferred Close.
EndCycle(p) ==
  /\ pc[p] = "recorded"
  /\ Goto(p, "idle")
  /\ lock' = "free"
  /\ UNCHANGED <<clock, proxyVars, dbVars, snap, ledgerVars>>

\* SIGKILL, OOM, a service stop or a reboot; the kernel drops the flock.
Crash(p) ==
  /\ pc[p] # "down"
  /\ Goto(p, "down")
  /\ lock' = IF lock = p THEN "free" ELSE lock
  /\ Forget(p)
  /\ UNCHANGED <<clock, proxyVars, dbVars, ledgerVars>>

Cycle(p) ==
  \/ QueryStats(p)
  \/ CollectFails(p)
  \/ ReadProcessIdentity(p)
  \/ RecordSnapshot(p)
  \/ RejectStale(p)
  \/ RecordFailure(p)
  \/ WriteFails(p)
  \/ EndCycle(p)

Next ==
  \/ \E c \in Credential, d \in Direction : Carry(c, d)
  \/ Restart
  \/ SetClock
  \/ OwnerAcquire
  \/ \E c \in Credential : AddCredential(c) \/ DisableCredential(c)
  \/ OwnerRelease
  \/ \E p \in Collector : SyncCredentials(p) \/ BeginCycle(p) \/ Cycle(p) \/ Crash(p)

Spec == Init /\ [][Next]_vars

\* Every step of a cycle has a timeout or touches a local database, and the
\* owner's commands run to completion or die; both release the lock.
FairSpec ==
  /\ Spec
  /\ \A p \in Collector : WF_vars(Cycle(p))
  /\ WF_vars(OwnerRelease)

-----------------------------------------------------------------------------
(* Properties *)

\* Every variable keeps the shape of its table, counter or field.
TypeOK ==
  /\ clock \in Time
  /\ epoch \in 1 .. MaxEpoch
  /\ counter \in [Credential -> Bytes]
  /\ lock \in {"free", "owner"} \cup Collector
  /\ row \in [Credential -> {"absent", "enabled", "revoked"}]
  /\ known \subseteq Credential
  /\ baseline \in [Credential -> Baseline]
  /\ sampled \subseteq Key
  /\ sample \in [Key -> Sample]
  /\ events \subseteq Event
  /\ pc \in [Collector -> Stages]
  /\ snap \in [Collector -> Snapshot]
  /\ carried \in [Credential -> Bytes]
  /\ billed \in [Credential -> Bytes]
  /\ origin \in [Credential -> Origin]
  /\ rebilled \in [Credential -> Bytes]
  /\ inexact \subseteq Credential

\* What RecordSnapshot bills never exceeds what sing-box carried, whatever the
\* order of restarts, crashes, clock steps and lost identities; the only excess
\* is the bytes of a process whose counters were read just before it was
\* replaced and then committed under the identity of its successor.
NoOverBilling ==
  \A c \in Credential, d \in Direction :
    billed[c][d] <= carried[c][d] + rebilled[c][d]

\* The comment on calculateDelta's restart branch: the counters of a new
\* identity are traffic since its start, so billing never exceeds the traffic.
BilledWithinCarried ==
  \A c \in Credential, d \in Direction : billed[c][d] <= carried[c][d]

\* While every observation of a credential was verified and none flagged a
\* reset, failures, skipped cycles, stale snapshots, missing counters and
\* crashes lose nothing: the next success bills the whole interval.
UnflaggedIsExact ==
  \A c \in known \ inexact, d \in Direction :
    billed[c][d] = origin[c].carried[d] - origin[c].base[d]

\* Bytes of credential c over all minutes of traffic_samples.
SampleTotal(c, d) ==
  SumFunctionOnSet([k \in Key |-> sample[k].bytes[d]], {k \in sampled : k[2] = c})

\* Repeated observations of one minute add up in its row, so that the table
\* holds every delta ever computed, once.
SamplesHoldEveryDelta ==
  \A c \in Credential, d \in Direction : SampleTotal(c, d) = billed[c][d]

\* A minute whose row says the collection was incomplete, or whose counters
\* were reset, has an event of that minute that tells why.
EveryFlagExplained ==
  \A k \in sampled :
    /\ ~sample[k].ok =>
         \E e \in events : /\ Bucket(e.at) = k[1]
                           /\ e.credential \in {k[2], "node"}
    /\ sample[k].reset =>
         \E e \in events : /\ Bucket(e.at) = k[1]
                           /\ e.credential = k[2]
                           /\ e.category = "counter_reset"

\* insertTrafficSample's comment: a later success cannot erase a gap, nor can
\* any later write erase a row, its bytes or its reset flag.
EvidenceIsNeverErased ==
  [][\A k \in sampled :
       /\ k \in sampled'
       /\ \A d \in Direction : sample'[k].bytes[d] >= sample[k].bytes[d]
       /\ sample'[k].ok => sample[k].ok
       /\ sample[k].reset => sample'[k].reset]_vars

\* Once a minute has been observed successfully no bytes are added to an
\* earlier one, even when the wall clock is stepped back.
NoBytesInEarlierMinutes ==
  [][\A k \in Key, c \in known :
       k[1] < Bucket(baseline[c].at) => sample'[k].bytes = sample[k].bytes]_vars

\* config.go: a revoked credential is never re-enabled by the collector's
\* configuration, and from then on nothing more is billed to it.
RevokedStaysRevoked ==
  [][\A c \in Credential :
       row[c] = "revoked" => row'[c] = "revoked" /\ billed'[c] = billed[c]]_vars

\* A cycle always gives the lock back, so owner commands are not shut out.
LockIsReleased ==
  \A h \in Collector \cup {"owner"} : lock = h ~> lock # h

-----------------------------------------------------------------------------
(* The account this module implements *)

Ledger == INSTANCE UsageLedger WITH
  opened  <- known,
  settled <- [c \in Credential |-> origin[c].carried],
  excess  <- rebilled,
  flagged <- inexact

\* Through every interleaving of restarts, crashes, clock steps, owner commands
\* and lost identities the database stays a ledger: RecordSnapshot settles the
\* next interval of each account, never one that was settled before, and every
\* other step leaves the accounts alone.
ImplementsLedger == Ledger!Spec

-----------------------------------------------------------------------------
(* The inductive invariant behind NoOverBilling and UnflaggedIsExact *)

Holding(p) == pc[p] \in {"mapped", "queried", "observed", "failed", "recorded"}

\* Readings of the counters, with the truth behind each: the live counters, a
\* snapshot s in memory, and the collector_state row.
Live(c) == [epoch |-> epoch, counter |-> counter[c], carried |-> carried[c]]
Read(c, s) == [epoch |-> s.epoch, counter |-> s.counter[c], carried |-> s.carried[c]]
Recorded(c) ==
  [epoch |-> origin[c].epoch, counter |-> baseline[c].counter, carried |-> origin[c].carried]

\* Reading a was taken no later than reading b: the bytes between the two are
\* the counters' difference within one process, and at least b's counters
\* when a new process started in between.
Precedes(a, b) ==
  /\ a.epoch <= b.epoch
  /\ \A d \in Direction :
       /\ a.carried[d] <= b.carried[d]
       /\ a.epoch = b.epoch =>
            b.carried[d] - a.carried[d] = b.counter[d] - a.counter[d]
       /\ a.epoch < b.epoch => b.counter[d] <= b.carried[d] - a.carried[d]

\* The identity read with counters is lost, or of that process or a later one
\* that was running at some time up to now.
IdentityBetween(first, boot, last) == boot = 0 \/ (first <= boot /\ boot <= last)

\* Only the holder of the lock is inside a cycle.
Exclusion == \A p \in Collector : Holding(p) => lock = p

RowInv(c) ==
  /\ c \notin known =>
       /\ origin[c].epoch = 0
       /\ \A d \in Direction : billed[c][d] = 0 /\ rebilled[c][d] = 0
  /\ c \in known =>
       /\ origin[c].epoch > 0
       /\ Precedes(Recorded(c), Live(c))
       /\ IdentityBetween(origin[c].epoch, baseline[c].boot, epoch)
       /\ \A d \in Direction :
            billed[c][d] <= origin[c].carried[d] + rebilled[c][d]
  /\ c \in known \ inexact =>
       /\ baseline[c].boot = origin[c].epoch
       /\ \A d \in Direction :
            billed[c][d] = origin[c].carried[d] - origin[c].base[d]

SnapInv(p, c) ==
  LET s == snap[p] IN
    pc[p] \in {"queried", "observed"} =>
      /\ s.epoch > 0
      /\ Precedes(Read(c, s), Live(c))
      /\ c \in known =>
           /\ Precedes(Recorded(c), Read(c, s))
           /\ baseline[c].boot <= s.epoch
      /\ pc[p] = "observed" => IdentityBetween(s.epoch, s.boot, epoch)

\* One cycle at a time, and the order of live, read and recorded counters.
AccountingInv ==
  /\ TypeOK
  /\ Exclusion
  /\ \A c \in Credential : RowInv(c)
  /\ \A p \in Collector, c \in Credential : SnapInv(p, c)

=============================================================================
