---------------------- MODULE TrafficAccountingProofs ----------------------
(* Theorems about TrafficAccounting, for every value of its constants. *)
EXTENDS TrafficAccounting, TLAPS

-----------------------------------------------------------------------------
(* Lemmas about the storage helpers *)

\* The bucket of a time is a time: it starts no later and not before zero.
LEMMA BucketInTime == ASSUME NEW t \in Time PROVE Bucket(t) \in Time
  <1>1. t % SecondsPerMinute \in 0 .. t
    BY BoundAssumption DEF Time
  <1> QED BY <1>1, BoundAssumption DEF Bucket, Time

\* The values the tables start from have the type of their columns.
LEMMA DefaultsTyped ==
  /\ Zero \in Bytes
  /\ Gap \in Sample
  /\ NeutralSample \in Sample
  /\ NoSnapshot \in Snapshot
  <1> QED BY BoundAssumption DEF Zero, Bytes, Gap, Sample, NeutralSample, NoSnapshot,
                                 Snapshot, Identity, Time

\* calculateDelta never writes a negative number of bytes.
LEMMA DeltaTyped ==
  ASSUME NEW found, NEW previous \in Baseline,
         NEW current \in Bytes, NEW boot \in Identity
  PROVE  calculateDelta(found, previous, current, boot) \in Sample
  <1>1. CASE ~found
    BY <1>1, DefaultsTyped DEF calculateDelta
  <1>2. CASE found /\ bootChanged(previous, boot)
    BY <1>2 DEF calculateDelta, Sample
  <1>3. CASE found /\ ~bootChanged(previous, boot) /\ Regressed(previous, current)
    BY <1>3, DefaultsTyped DEF calculateDelta, Sample
  <1>4. CASE found /\ ~bootChanged(previous, boot) /\ ~Regressed(previous, current)
    <2>1. Subtract(current, previous.counter) \in Bytes
      BY <1>4 DEF Regressed, Subtract, Bytes, Baseline
    <2> QED BY <1>4, <2>1 DEF calculateDelta, Sample
  <1> QED BY <1>1, <1>2, <1>3, <1>4

\* Merging two observations of a minute gives a row.
LEMMA MergeTyped ==
  ASSUME NEW old \in Sample, NEW new \in Sample
  PROVE  Merge(old, new) \in Sample
  <1>1. Add(old.bytes, new.bytes) \in Bytes
    BY DEF Add, Bytes, Sample
  <1> QED BY <1>1 DEF Merge, Sample

\* What a snapshot leaves for a credential is a row.
LEMMA OutcomeTyped ==
  ASSUME TypeOK, NEW s \in Snapshot, NEW c \in Credential
  PROVE  Outcome(c, s) \in Sample
  <1>1. CASE c \in s.mapped
    <2>1. s.counter[c] \in Bytes /\ s.boot \in Identity /\ baseline[c] \in Baseline
      BY DEF Snapshot, TypeOK
    <2> QED BY <1>1, <2>1, DeltaTyped DEF Outcome
  <1>2. CASE c \notin s.mapped
    BY <1>2, DefaultsTyped DEF Outcome
  <1> QED BY <1>1, <1>2

\* Writing rows for a set of credentials keeps the sample table typed.
LEMMA SamplesTyped ==
  ASSUME TypeOK, NEW t \in Time, NEW C \in SUBSET Credential,
         NEW new \in [C -> Sample], insertTrafficSamples(t, C, new)
  PROVE  sampled' \subseteq Key /\ sample' \in [Key -> Sample]
  <1>1. sampled' \subseteq Key
    BY BucketInTime DEF insertTrafficSamples, TypeOK, Key
  <1>2. ASSUME NEW k \in Key
        PROVE  (IF k[1] = Bucket(t) /\ k[2] \in C
                  THEN Merge(sample[k], new[k[2]]) ELSE sample[k]) \in Sample
    BY MergeTyped DEF TypeOK
  <1> QED BY <1>1, <1>2 DEF insertTrafficSamples

-----------------------------------------------------------------------------
(* Type correctness *)

LEMMA InitTyped == Init => TypeOK
  <1> SUFFICES ASSUME Init PROVE TypeOK
    OBVIOUS
  <1>1. /\ NoBaseline \in Baseline
        /\ NoOrigin \in Origin
    BY DefaultsTyped, BoundAssumption DEF NoBaseline, Baseline, NoOrigin, Origin, Time, Identity
  <1> QED
    BY <1>1, DefaultsTyped, BoundAssumption DEF Init, TypeOK, Time, Stages

LEMMA ProxyTyped ==
  ASSUME TypeOK,
         \/ \E c \in Credential, d \in Direction : Carry(c, d)
         \/ Restart
         \/ SetClock
  PROVE  TypeOK'
  <1>1. ASSUME NEW c \in Credential, NEW d \in Direction, Carry(c, d) PROVE TypeOK'
    <2>1. /\ counter' \in [Credential -> Bytes]
          /\ carried' \in [Credential -> Bytes]
      BY <1>1 DEF TypeOK, Carry, Bytes
    <2> QED BY <1>1, <2>1 DEF TypeOK, Carry, dbVars, ledgerVars
  <1>2. CASE Restart
    BY <1>2, DefaultsTyped, BoundAssumption DEF TypeOK, Restart, dbVars, ledgerVars
  <1>3. CASE SetClock
    BY <1>3 DEF TypeOK, SetClock, proxyVars, dbVars, ledgerVars
  <1> QED BY <1>1, <1>2, <1>3

LEMMA OwnerTyped ==
  ASSUME TypeOK,
         \/ OwnerAcquire
         \/ \E c \in Credential : AddCredential(c) \/ DisableCredential(c)
         \/ OwnerRelease
  PROVE  TypeOK'
  <1>1. CASE OwnerAcquire
    BY <1>1 DEF TypeOK, OwnerAcquire, proxyVars, dbVars, ledgerVars
  <1>2. ASSUME NEW c \in Credential, AddCredential(c) \/ DisableCredential(c)
        PROVE  TypeOK'
    BY <1>2 DEF TypeOK, AddCredential, DisableCredential, OwnerSetsRow, proxyVars, ledgerVars
  <1>3. CASE OwnerRelease
    BY <1>3 DEF TypeOK, OwnerRelease, proxyVars, dbVars, ledgerVars
  <1> QED BY <1>1, <1>2, <1>3

LEMMA CollectTyped ==
  ASSUME TypeOK, NEW p \in Collector,
         \/ SyncCredentials(p) \/ BeginCycle(p) \/ QueryStats(p)
         \/ CollectFails(p) \/ ReadProcessIdentity(p)
  PROVE  TypeOK'
  <1>1. CASE SyncCredentials(p)
    BY <1>1 DEF TypeOK, SyncCredentials, Goto, Stages, proxyVars, ledgerVars
  <1>2. CASE BeginCycle(p)
    <2>1. snap' \in [Collector -> Snapshot]
      BY <1>2 DEF TypeOK, BeginCycle, Snapshot, listEnabledCredentials
    <2> QED BY <1>2, <2>1 DEF TypeOK, BeginCycle, Goto, Stages, proxyVars, dbVars, ledgerVars
  <1>3. CASE QueryStats(p)
    <2>1. snap' \in [Collector -> Snapshot]
      <3>1. epoch \in Identity /\ snap[p] \in Snapshot
        BY BoundAssumption DEF TypeOK, Identity
      <3>2. [snap[p] EXCEPT !.counter = counter, !.epoch = epoch, !.carried = carried]
              \in Snapshot
        BY <3>1 DEF TypeOK, Snapshot
      <3> QED BY <1>3, <3>2 DEF TypeOK, QueryStats
    <2> QED BY <1>3, <2>1 DEF TypeOK, QueryStats, Goto, Stages, proxyVars, dbVars, ledgerVars
  <1>4. CASE CollectFails(p)
    BY <1>4 DEF TypeOK, CollectFails, Goto, Stages, proxyVars, dbVars, ledgerVars
  <1>5. CASE ReadProcessIdentity(p)
    <2>1. snap' \in [Collector -> Snapshot]
      <3>1. PICK boot \in {0, epoch} :
              snap' = [snap EXCEPT ![p].boot = boot, ![p].at = clock]
        BY <1>5 DEF ReadProcessIdentity
      <3>2. boot \in Identity /\ clock \in Time
        BY BoundAssumption DEF TypeOK, Identity
      <3>3. snap[p] \in Snapshot
        BY DEF TypeOK
      <3>4. [snap[p] EXCEPT !.boot = boot, !.at = clock] \in Snapshot
        BY <3>2, <3>3 DEF Snapshot
      <3> QED BY <3>1, <3>4 DEF TypeOK
    <2> QED BY <1>5, <2>1 DEF TypeOK, ReadProcessIdentity, Goto, Stages, proxyVars, dbVars,
                              ledgerVars
  <1> QED BY <1>1, <1>2, <1>3, <1>4, <1>5

LEMMA SnapshotEventsTyped ==
  ASSUME TypeOK, NEW s \in Snapshot PROVE SnapshotEvents(s) \subseteq Event
  BY DEF SnapshotEvents, Event, Categories, listEnabledCredentials, Snapshot

LEMMA RecordTyped ==
  ASSUME TypeOK, NEW p \in Collector, RecordSnapshot(p)
  PROVE  TypeOK'
  <1> DEFINE s == snap[p]
  <1>1. s \in Snapshot
    BY DEF TypeOK
  <1>2. sampled' \subseteq Key /\ sample' \in [Key -> Sample]
    <2>1. [c \in listEnabledCredentials |-> Outcome(c, s)] \in [listEnabledCredentials -> Sample]
      BY <1>1, OutcomeTyped DEF listEnabledCredentials
    <2>2. insertTrafficSamples(s.at, listEnabledCredentials,
                               [c \in listEnabledCredentials |-> Outcome(c, s)])
      BY DEF RecordSnapshot
    <2>3. s.at \in Time /\ listEnabledCredentials \in SUBSET Credential
      BY <1>1 DEF Snapshot, listEnabledCredentials
    <2> HIDE DEF s
    <2> QED BY <2>1, <2>2, <2>3, SamplesTyped
  <1>3. known' \subseteq Credential /\ inexact' \subseteq Credential
    BY DEF RecordSnapshot, TypeOK, listEnabledCredentials
  <1>4. baseline' \in [Credential -> Baseline]
    BY <1>1 DEF RecordSnapshot, TypeOK, Snapshot, Baseline
  <1>5. billed' \in [Credential -> Bytes]
    <2>1. ASSUME NEW c \in Credential PROVE Add(billed[c], Outcome(c, s).bytes) \in Bytes
      BY <1>1, OutcomeTyped DEF TypeOK, Add, Bytes, Sample
    <2> QED BY <2>1 DEF RecordSnapshot, TypeOK
  <1>6. origin' \in [Credential -> Origin]
    BY <1>1 DEF RecordSnapshot, TypeOK, Snapshot, Origin
  <1>7. rebilled' \in [Credential -> Bytes]
    <2>1. ASSUME NEW c \in Credential PROVE Add(rebilled[c], baseline[c].counter) \in Bytes
      BY DEF TypeOK, Add, Bytes, Baseline
    <2> QED BY <2>1 DEF RecordSnapshot, TypeOK
  <1>8. events' \subseteq Event
    BY <1>1, SnapshotEventsTyped DEF RecordSnapshot, TypeOK
  <1>9. pc' \in [Collector -> Stages] /\ snap' \in [Collector -> Snapshot]
    BY DefaultsTyped DEF RecordSnapshot, TypeOK, Goto, Forget, Stages
  <1>10. UNCHANGED <<clock, proxyVars, lock, row>>
    BY DEF RecordSnapshot
  <1> QED
    BY <1>2, <1>3, <1>4, <1>5, <1>6, <1>7, <1>8, <1>9, <1>10 DEF TypeOK, proxyVars

LEMMA EndTyped ==
  ASSUME TypeOK, NEW p \in Collector,
         \/ RejectStale(p) \/ RecordFailure(p) \/ WriteFails(p) \/ EndCycle(p) \/ Crash(p)
  PROVE  TypeOK'
  <1> USE DefaultsTyped DEF Goto, Forget, Stages, proxyVars, dbVars, ledgerVars
  <1>1. CASE RejectStale(p)
    BY <1>1 DEF TypeOK, RejectStale
  <1>2. CASE RecordFailure(p)
    <2>1. sampled' \subseteq Key /\ sample' \in [Key -> Sample]
      <3>1. [c \in listEnabledCredentials |-> Gap] \in [listEnabledCredentials -> Sample]
        BY DEF listEnabledCredentials
      <3>2. insertTrafficSamples(clock, listEnabledCredentials,
                                 [c \in listEnabledCredentials |-> Gap])
        BY <1>2 DEF RecordFailure
      <3>3. clock \in Time /\ listEnabledCredentials \in SUBSET Credential
        BY DEF TypeOK, listEnabledCredentials
      <3> QED BY <3>1, <3>2, <3>3, SamplesTyped
    <2>2. events' \subseteq Event
      BY <1>2 DEF RecordFailure, TypeOK, Event, Categories
    <2> QED BY <1>2, <2>1, <2>2 DEF TypeOK, RecordFailure
  <1>3. CASE WriteFails(p)
    BY <1>3 DEF TypeOK, WriteFails
  <1>4. CASE EndCycle(p)
    BY <1>4 DEF TypeOK, EndCycle
  <1>5. CASE Crash(p)
    BY <1>5 DEF TypeOK, Crash
  <1> QED BY <1>1, <1>2, <1>3, <1>4, <1>5

LEMMA StepTyped == TypeOK /\ [Next]_vars => TypeOK'
  <1> SUFFICES ASSUME TypeOK, [Next]_vars PROVE TypeOK'
    OBVIOUS
  <1>1. CASE UNCHANGED vars
    BY <1>1 DEF vars, proxyVars, dbVars, ledgerVars, TypeOK
  <1>2. CASE Next
    BY <1>2, ProxyTyped, OwnerTyped, CollectTyped, RecordTyped, EndTyped DEF Next, Cycle
  <1> QED BY <1>1, <1>2

\* Every table, counter and field keeps its type, whatever the constants: in
\* particular no negative number of bytes is ever written.
THEOREM TypeCorrect == Spec => []TypeOK
  BY InitTyped, StepTyped, PTL DEF Spec

-----------------------------------------------------------------------------
(* Readings of the counters *)

Reading == [epoch : Nat, counter : Bytes, carried : Bytes]

LEMMA ReadingsTyped ==
  ASSUME TypeOK, NEW c \in Credential, NEW p \in Collector
  PROVE  /\ Live(c) \in Reading
         /\ Recorded(c) \in Reading
         /\ Read(c, snap[p]) \in Reading
  <1>1. Live(c) \in Reading
    BY BoundAssumption DEF TypeOK, Live, Reading
  <1>2. Recorded(c) \in Reading
    BY BoundAssumption DEF TypeOK, Recorded, Reading, Origin, Baseline, Identity
  <1>3. Read(c, snap[p]) \in Reading
    <2>1. snap[p] \in Snapshot
      BY DEF TypeOK
    <2> QED BY <2>1, BoundAssumption DEF Read, Reading, Snapshot, Identity
  <1> QED BY <1>1, <1>2, <1>3

LEMMA PrecedesItself == ASSUME NEW a \in Reading PROVE Precedes(a, a)
  BY DEF Precedes, Reading, Bytes

\* More traffic of the same process keeps earlier readings earlier.
LEMMA PrecedesCarry ==
  ASSUME NEW a \in Reading, NEW b \in Reading, NEW e \in Reading,
         NEW d \in Direction, Precedes(a, b),
         e.epoch = b.epoch,
         e.counter = [b.counter EXCEPT ![d] = @ + 1],
         e.carried = [b.carried EXCEPT ![d] = @ + 1]
  PROVE  Precedes(a, e)
  BY DEF Precedes, Reading, Bytes

\* A new process keeps earlier readings earlier.
LEMMA PrecedesRestart ==
  ASSUME NEW a \in Reading, NEW b \in Reading, NEW e \in Reading, Precedes(a, b),
         e.epoch = b.epoch + 1, e.counter = Zero, e.carried = b.carried
  PROVE  Precedes(a, e)
  BY DEF Precedes, Reading, Bytes, Zero

\* The delta between a recorded reading r, stamped first, and a later reading
\* s, stamped second, is at most the bytes between them, but for the counters
\* of r when one process was stamped with two identities; and it is exact when
\* both stamps are right and no reset is flagged.
LEMMA DeltaBound ==
  ASSUME NEW r \in Reading, NEW s \in Reading, Precedes(r, s), r.epoch > 0,
         NEW old \in Baseline, old.counter = r.counter,
         NEW boot \in Identity, NEW last \in Nat,
         IdentityBetween(r.epoch, old.boot, s.epoch), IdentityBetween(s.epoch, boot, last),
         NEW d \in Direction
  PROVE  LET new == calculateDelta(TRUE, old, s.counter, boot)
             twice == r.epoch = s.epoch /\ old.boot # 0 /\ boot > s.epoch
         IN /\ ~twice => new.bytes[d] <= s.carried[d] - r.carried[d]
            /\ new.bytes[d] <= (s.carried[d] - r.carried[d]) + r.counter[d]
            /\ old.boot = r.epoch /\ boot = s.epoch /\ ~new.reset =>
                 new.bytes[d] = s.carried[d] - r.carried[d]
  <1> DEFINE new == calculateDelta(TRUE, old, s.counter, boot)
             twice == r.epoch = s.epoch /\ old.boot # 0 /\ boot > s.epoch
             Bounded(n) ==
               /\ ~twice => n.bytes[d] <= s.carried[d] - r.carried[d]
               /\ n.bytes[d] <= (s.carried[d] - r.carried[d]) + r.counter[d]
               /\ old.boot = r.epoch /\ boot = s.epoch /\ ~n.reset =>
                    n.bytes[d] = s.carried[d] - r.carried[d]
  <1>1. /\ s.carried[d] \in Nat /\ s.counter[d] \in Nat
        /\ r.carried[d] \in Nat /\ r.counter[d] \in Nat
        /\ r.epoch \in Nat /\ s.epoch \in Nat
        /\ boot \in Nat /\ old.boot \in Nat
    BY BoundAssumption DEF Reading, Bytes, Identity, Baseline
  <1>2. /\ r.carried[d] <= s.carried[d]
        /\ r.epoch = s.epoch =>
             s.carried[d] - r.carried[d] = s.counter[d] - r.counter[d]
        /\ r.epoch < s.epoch => s.counter[d] <= s.carried[d] - r.carried[d]
        /\ r.epoch <= s.epoch
    BY DEF Precedes
  <1>3. ASSUME bootChanged(old, boot) PROVE Bounded(new)
    <2>1. new.bytes[d] = s.counter[d] /\ new.reset
      BY <1>3 DEF calculateDelta
    <2>2. old.boot # 0 /\ boot # 0 /\ old.boot # boot
      BY <1>3 DEF bootChanged
    <2>3. r.epoch = s.epoch => boot > s.epoch
      BY <1>1, <2>2 DEF IdentityBetween
    <2> HIDE DEF new
    <2> QED BY <1>1, <1>2, <2>1, <2>2, <2>3
  <1>4. ASSUME ~bootChanged(old, boot), Regressed(old, s.counter) PROVE Bounded(new)
    <2>1. new.bytes[d] = 0 /\ new.reset
      BY <1>4 DEF calculateDelta, Zero
    <2> HIDE DEF new
    <2> QED BY <1>1, <1>2, <2>1
  <1>5. ASSUME ~bootChanged(old, boot), ~Regressed(old, s.counter) PROVE Bounded(new)
    <2>1. new.bytes[d] = s.counter[d] - r.counter[d]
      BY <1>5 DEF calculateDelta, Subtract
    <2>2. old.boot = r.epoch /\ boot = s.epoch => r.epoch = s.epoch
      BY <1>1, <1>2, <1>5 DEF bootChanged
    <2> HIDE DEF new
    <2> QED BY <1>1, <1>2, <2>1, <2>2
  <1> QED BY <1>3, <1>4, <1>5

-----------------------------------------------------------------------------
(* The accounting invariant *)

LEMMA InitAccounting == Init => AccountingInv
  <1> SUFFICES ASSUME Init PROVE AccountingInv
    OBVIOUS
  <1>1. Exclusion
    BY DEF Init, Exclusion, Holding
  <1>2. ASSUME NEW c \in Credential PROVE RowInv(c)
    BY DEF Init, RowInv, NoOrigin, Zero
  <1>3. ASSUME NEW p \in Collector, NEW c \in Credential PROVE SnapInv(p, c)
    BY DEF Init, SnapInv
  <1> QED BY <1>1, <1>2, <1>3, InitTyped DEF AccountingInv

\* The lock keeps every other collector out of the cycle.
LEMMA ExclusionStep ==
  ASSUME AccountingInv, [Next]_vars PROVE Exclusion'
  <1> USE DEF AccountingInv, Exclusion, Holding, TypeOK
  <1>1. CASE UNCHANGED vars
    BY <1>1 DEF vars
  <1>2. ASSUME NEW c \in Credential, NEW d \in Direction, Carry(c, d) PROVE Exclusion'
    BY <1>2 DEF Carry
  <1>3. CASE Restart \/ SetClock
    BY <1>3 DEF Restart, SetClock
  <1>4. CASE OwnerAcquire \/ OwnerRelease
    BY <1>4, CollectorAssumption DEF OwnerAcquire, OwnerRelease
  <1>5. ASSUME NEW c \in Credential, AddCredential(c) \/ DisableCredential(c)
        PROVE  Exclusion'
    BY <1>5 DEF AddCredential, DisableCredential, OwnerSetsRow
  <1>6. ASSUME NEW p \in Collector, SyncCredentials(p) \/ BeginCycle(p) \/ Crash(p)
        PROVE  Exclusion'
    BY <1>6, CollectorAssumption DEF SyncCredentials, BeginCycle, Crash, Goto
  <1>7. ASSUME NEW p \in Collector, Cycle(p) PROVE Exclusion'
    BY <1>7, CollectorAssumption DEF Cycle, QueryStats, CollectFails, ReadProcessIdentity,
         RecordSnapshot, RejectStale, RecordFailure, WriteFails, EndCycle, Goto
  <1> QED BY <1>1, <1>2, <1>3, <1>4, <1>5, <1>6, <1>7 DEF Next

accountVars == <<epoch, counter, carried, known, baseline, billed, origin, rebilled, inexact>>

\* A step that touches neither the counters nor the accounts, and puts no new
\* reading into a collector's memory, keeps the invariant.
LEMMA FrameStep ==
  ASSUME AccountingInv, TypeOK', Exclusion', UNCHANGED accountVars,
         \A p \in Collector :
           \/ pc'[p] \notin {"queried", "observed"}
           \/ pc'[p] = pc[p] /\ snap'[p] = snap[p]
  PROVE  AccountingInv'
  <1>1. ASSUME NEW c \in Credential PROVE RowInv(c)'
    BY DEF AccountingInv, RowInv, accountVars, Recorded, Live, Precedes, IdentityBetween
  <1>2. ASSUME NEW p \in Collector, NEW c \in Credential PROVE SnapInv(p, c)'
    BY DEF AccountingInv, SnapInv, accountVars, Recorded, Read, Live, Precedes,
           IdentityBetween
  <1> QED BY <1>1, <1>2 DEF AccountingInv

\* Whatever moves the live counters forward keeps every reading behind them.
LEMMA LiveStep ==
  ASSUME AccountingInv, TypeOK', Exclusion', epoch' >= epoch,
         UNCHANGED <<known, baseline, billed, origin, rebilled, inexact, pc, snap>>,
         \A c \in Credential, a \in Reading :
           Precedes(a, Live(c)) => Precedes(a, Live(c)')
  PROVE  AccountingInv'
  <1>1. epoch \in Nat /\ epoch' \in Nat
    BY BoundAssumption DEF AccountingInv, TypeOK
  <1>2. ASSUME NEW first \in Nat, NEW boot \in Nat, IdentityBetween(first, boot, epoch)
        PROVE  IdentityBetween(first, boot, epoch')
    BY <1>1, <1>2 DEF IdentityBetween
  <1>3. ASSUME NEW c \in Credential PROVE RowInv(c)'
    <2>1. Recorded(c) \in Reading /\ Recorded(c)' = Recorded(c)
      BY BoundAssumption DEF AccountingInv, TypeOK, Recorded, Reading, Origin, Baseline,
                             Identity
    <2>2. c \in known => Precedes(Recorded(c)', Live(c)')
      BY <2>1 DEF AccountingInv, RowInv
    <2>3. c \in known => IdentityBetween(origin'[c].epoch, baseline'[c].boot, epoch')
      BY <1>2, BoundAssumption DEF AccountingInv, RowInv, TypeOK, Origin, Baseline, Identity
    <2> QED BY <2>2, <2>3 DEF AccountingInv, RowInv
  <1>4. ASSUME NEW p \in Collector, NEW c \in Credential PROVE SnapInv(p, c)'
    <2> DEFINE s == snap[p]
    <2>1. /\ Read(c, s) \in Reading
          /\ s' = s
          /\ Recorded(c)' = Recorded(c)
          /\ s.epoch \in Nat /\ s.boot \in Nat
      <3>1. s \in Snapshot
        BY DEF AccountingInv, TypeOK
      <3>2. Read(c, s) \in Reading
        BY ReadingsTyped DEF AccountingInv
      <3>3. s.epoch \in Nat /\ s.boot \in Nat
        BY <3>1, BoundAssumption DEF Snapshot, Identity
      <3>4. s' = s /\ Recorded(c)' = Recorded(c)
        BY DEF Recorded
      <3> QED BY <3>2, <3>3, <3>4
    <2>2. pc[p] \in {"queried", "observed"} => Precedes(Read(c, s), Live(c)')
      BY <2>1 DEF AccountingInv, SnapInv
    <2>3. pc[p] = "observed" => IdentityBetween(s.epoch, s.boot, epoch')
      BY <2>1, <1>2 DEF AccountingInv, SnapInv
    <2> QED BY <2>1, <2>2, <2>3 DEF AccountingInv, SnapInv, Read, IdentityBetween
  <1> QED BY <1>3, <1>4 DEF AccountingInv

LEMMA CarryStep ==
  ASSUME AccountingInv, NEW c \in Credential, NEW d \in Direction, Carry(c, d)
  PROVE  AccountingInv'
  <1>1. TypeOK' /\ Exclusion'
    BY ProxyTyped, ExclusionStep DEF AccountingInv, Next
  <1>2. ASSUME NEW x \in Credential, NEW a \in Reading, Precedes(a, Live(x))
        PROVE  Precedes(a, Live(x)')
    <2>1. Live(x) \in Reading /\ Live(x)' \in Reading
      BY <1>1, BoundAssumption DEF AccountingInv, TypeOK, Live, Reading
    <2>2. CASE x = c
      <3>1. /\ Live(x)'.epoch = Live(x).epoch
            /\ Live(x)'.counter = [Live(x).counter EXCEPT ![d] = @ + 1]
            /\ Live(x)'.carried = [Live(x).carried EXCEPT ![d] = @ + 1]
        BY <2>2 DEF Carry, Live, AccountingInv, TypeOK
      <3> QED BY <1>2, <2>1, <3>1, PrecedesCarry
    <2>3. CASE x # c
      BY <1>2, <2>3 DEF Carry, Live, AccountingInv, TypeOK
    <2> QED BY <2>2, <2>3
  <1>3. epoch' >= epoch
    BY BoundAssumption DEF Carry, AccountingInv, TypeOK
  <1> QED BY <1>1, <1>2, <1>3, LiveStep DEF Carry, dbVars, ledgerVars

LEMMA RestartStep ==
  ASSUME AccountingInv, Restart PROVE AccountingInv'
  <1>1. TypeOK' /\ Exclusion'
    BY ProxyTyped, ExclusionStep DEF AccountingInv, Next
  <1>2. ASSUME NEW x \in Credential, NEW a \in Reading, Precedes(a, Live(x))
        PROVE  Precedes(a, Live(x)')
    <2>1. Live(x) \in Reading /\ Live(x)' \in Reading
      BY <1>1, BoundAssumption DEF AccountingInv, TypeOK, Live, Reading
    <2>2. /\ Live(x)'.epoch = Live(x).epoch + 1
          /\ Live(x)'.counter = Zero
          /\ Live(x)'.carried = Live(x).carried
      BY DEF Restart, Live
    <2> QED BY <1>2, <2>1, <2>2, PrecedesRestart
  <1>3. epoch' >= epoch
    BY BoundAssumption DEF Restart, AccountingInv, TypeOK
  <1> QED BY <1>1, <1>2, <1>3, LiveStep DEF Restart, dbVars, ledgerVars

LEMMA QueryStep ==
  ASSUME AccountingInv, NEW p \in Collector, QueryStats(p) PROVE AccountingInv'
  <1>1. TypeOK' /\ Exclusion'
    BY CollectTyped, ExclusionStep DEF AccountingInv, Next, Cycle
  <1>2. /\ UNCHANGED <<epoch, counter, carried, known, baseline, billed, origin, rebilled,
                       inexact>>
        /\ snap'[p].epoch = epoch
        /\ snap'[p].counter = counter
        /\ snap'[p].carried = carried
        /\ pc'[p] = "queried"
        /\ \A q \in Collector \ {p} : pc'[q] = pc[q] /\ snap'[q] = snap[q]
    BY DEF QueryStats, Goto, proxyVars, dbVars, ledgerVars, AccountingInv, TypeOK, Snapshot
  <1>3. ASSUME NEW c \in Credential PROVE RowInv(c)'
    BY <1>2 DEF AccountingInv, RowInv, Recorded, Live, Precedes, IdentityBetween
  <1>4. ASSUME NEW q \in Collector, NEW c \in Credential PROVE SnapInv(q, c)'
    <2>1. CASE q # p
      BY <1>2, <2>1 DEF AccountingInv, SnapInv, Read, Recorded, Live, Precedes,
                        IdentityBetween
    <2>2. CASE q = p
      <3>1. Read(c, snap'[p]) = Live(c) /\ Live(c)' = Live(c) /\ Recorded(c)' = Recorded(c)
        BY <1>2 DEF Read, Live, Recorded
      <3>2. Precedes(Live(c), Live(c))
        BY ReadingsTyped, PrecedesItself DEF AccountingInv
      <3>3. c \in known => Precedes(Recorded(c), Live(c)) /\ baseline[c].boot <= epoch
        BY BoundAssumption DEF AccountingInv, RowInv, IdentityBetween, TypeOK
      <3>4. Precedes(Read(c, snap[p])', Live(c)')
        BY <3>1, <3>2 DEF Read
      <3>5. c \in known => Precedes(Recorded(c)', Read(c, snap[p])')
        BY <3>1, <3>3 DEF Read
      <3>6. epoch > 0
        BY BoundAssumption DEF AccountingInv, TypeOK
      <3> QED BY <1>2, <2>2, <3>3, <3>4, <3>5, <3>6 DEF SnapInv
    <2> QED BY <2>1, <2>2
  <1> QED BY <1>1, <1>3, <1>4 DEF AccountingInv

LEMMA IdentityStep ==
  ASSUME AccountingInv, NEW p \in Collector, ReadProcessIdentity(p) PROVE AccountingInv'
  <1>1. TypeOK' /\ Exclusion'
    BY CollectTyped, ExclusionStep DEF AccountingInv, Next, Cycle
  <1>2. /\ UNCHANGED <<epoch, counter, carried, known, baseline, billed, origin, rebilled,
                       inexact>>
        /\ snap'[p].epoch = snap[p].epoch
        /\ snap'[p].counter = snap[p].counter
        /\ snap'[p].carried = snap[p].carried
        /\ snap'[p].boot = 0 \/ snap'[p].boot = epoch
        /\ pc[p] = "queried"
        /\ \A q \in Collector \ {p} : pc'[q] = pc[q] /\ snap'[q] = snap[q]
    BY DEF ReadProcessIdentity, Goto, proxyVars, dbVars, ledgerVars, AccountingInv, TypeOK,
           Snapshot
  <1>3. ASSUME NEW c \in Credential PROVE RowInv(c)'
    BY <1>2 DEF AccountingInv, RowInv, Recorded, Live, Precedes, IdentityBetween
  <1>4. ASSUME NEW q \in Collector, NEW c \in Credential PROVE SnapInv(q, c)'
    <2>1. CASE q # p
      BY <1>2, <2>1 DEF AccountingInv, SnapInv, Read, Recorded, Live, Precedes,
                        IdentityBetween
    <2>2. CASE q = p
      <3>1. Read(c, snap'[p]) = Read(c, snap[p])
        BY <1>2 DEF Read
      <3>2. Live(c)' = Live(c) /\ Recorded(c)' = Recorded(c)
        BY <1>2 DEF Live, Recorded
      <3>3. Precedes(Read(c, snap[p]), Live(c)) /\ snap[p].epoch > 0
        BY <1>2 DEF AccountingInv, SnapInv
      <3>4. IdentityBetween(snap'[p].epoch, snap'[p].boot, epoch')
        BY <1>2, <3>3, BoundAssumption
        DEF IdentityBetween, Precedes, Read, Live, AccountingInv, TypeOK
      <3>5. Read(c, snap[p])' = Read(c, snap[p])
        BY <3>1 DEF Read
      <3> QED BY <1>2, <2>2, <3>2, <3>3, <3>4, <3>5 DEF AccountingInv, SnapInv
    <2> QED BY <2>1, <2>2
  <1> QED BY <1>1, <1>3, <1>4 DEF AccountingInv

\* What an observed snapshot is about to bill, told by the bytes between the
\* recorded reading and its own.
LEMMA OutcomeBound ==
  ASSUME AccountingInv, NEW p \in Collector, pc[p] = "observed",
         NEW c \in known, c \in snap[p].mapped, NEW d \in Direction
  PROVE  LET s == snap[p]
             new == Outcome(c, s)
         IN /\ ~Rebills(c, s) => new.bytes[d] <= s.carried[c][d] - origin[c].carried[d]
            /\ new.bytes[d] <=
                 (s.carried[c][d] - origin[c].carried[d]) + baseline[c].counter[d]
            /\ baseline[c].boot = origin[c].epoch /\ s.boot = s.epoch /\ ~new.reset =>
                 new.bytes[d] = s.carried[c][d] - origin[c].carried[d]
  <1> DEFINE s == snap[p]
             new == Outcome(c, s)
             r == Recorded(c)
             t == Read(c, s)
  <1>1. /\ s \in Snapshot /\ baseline[c] \in Baseline /\ c \in Credential
        /\ r \in Reading /\ t \in Reading
    BY ReadingsTyped DEF AccountingInv, TypeOK
  <1>2. /\ origin[c].epoch > 0
        /\ IdentityBetween(origin[c].epoch, baseline[c].boot, s.epoch)
        /\ Precedes(r, t)
        /\ IdentityBetween(s.epoch, s.boot, epoch)
    <2>1. /\ Precedes(r, t) /\ baseline[c].boot <= s.epoch
          /\ IdentityBetween(s.epoch, s.boot, epoch)
      BY <1>1 DEF AccountingInv, SnapInv
    <2>2. origin[c].epoch > 0 /\ IdentityBetween(origin[c].epoch, baseline[c].boot, epoch)
      BY <1>1 DEF AccountingInv, RowInv
    <2> QED BY <2>1, <2>2 DEF IdentityBetween
  <1>3. new = calculateDelta(TRUE, baseline[c], t.counter, s.boot)
    BY DEF Outcome, Read, calculateDelta
  <1>4. Rebills(c, s) <=> r.epoch = t.epoch /\ baseline[c].boot # 0 /\ s.boot > t.epoch
    BY DEF Rebills, Recorded, Read
  <1>5. /\ r.epoch = origin[c].epoch /\ r.counter = baseline[c].counter
        /\ r.carried = origin[c].carried
        /\ t.epoch = s.epoch /\ t.carried = s.carried[c]
    BY DEF Recorded, Read
  <1>6. s.boot \in Identity /\ epoch \in Nat
    BY <1>1, BoundAssumption DEF Snapshot, AccountingInv, TypeOK
  <1> HIDE DEF new, r, t, s
  <1>7. LET twice == r.epoch = t.epoch /\ baseline[c].boot # 0 /\ s.boot > t.epoch
        IN /\ ~twice => new.bytes[d] <= t.carried[d] - r.carried[d]
           /\ new.bytes[d] <= (t.carried[d] - r.carried[d]) + r.counter[d]
           /\ baseline[c].boot = r.epoch /\ s.boot = t.epoch /\ ~new.reset =>
                new.bytes[d] = t.carried[d] - r.carried[d]
    BY <1>1, <1>2, <1>3, <1>5, <1>6, DeltaBound
  <1> QED BY <1>4, <1>5, <1>7 DEF new, s

\* The heart of the argument: one committed observation bills at most the bytes
\* between the recorded reading and the snapshot's.
LEMMA RecordedRow ==
  ASSUME AccountingInv, NEW p \in Collector, RecordSnapshot(p), TypeOK',
         NEW c \in Credential, c \in listEnabledCredentials \cap snap[p].mapped
  PROVE  RowInv(c)'
  <1> DEFINE s == snap[p]
             new == Outcome(c, s)
             r == Recorded(c)
             t == Read(c, s)
  <1>1. /\ s \in Snapshot /\ baseline[c] \in Baseline
        /\ r \in Reading /\ t \in Reading /\ new \in Sample
    BY ReadingsTyped, OutcomeTyped DEF AccountingInv, TypeOK
  <1>2. /\ Precedes(t, Live(c)) /\ s.epoch > 0
        /\ IdentityBetween(s.epoch, s.boot, epoch)
        /\ c \in known => Precedes(r, t) /\ baseline[c].boot <= s.epoch
    BY DEF AccountingInv, SnapInv, RecordSnapshot
  <1>3. /\ c \in known'
        /\ origin'[c].epoch = s.epoch
        /\ origin'[c].carried = s.carried[c]
        /\ origin'[c].base = IF origin[c].epoch = 0 THEN s.carried[c] ELSE origin[c].base
        /\ baseline'[c].counter = s.counter[c]
        /\ baseline'[c].boot = s.boot
        /\ UNCHANGED <<epoch, counter, carried>>
    BY DEF RecordSnapshot, proxyVars
  <1>4. ASSUME NEW d \in Direction
        PROVE  /\ billed'[c][d] = billed[c][d] + new.bytes[d]
               /\ rebilled'[c][d] =
                    IF Rebills(c, s) THEN rebilled[c][d] + baseline[c].counter[d]
                                     ELSE rebilled[c][d]
    BY DEF RecordSnapshot, Add
  <1>5. c \notin inexact' => c \notin inexact /\ ~new.reset /\ s.boot = s.epoch
    BY DEF RecordSnapshot
  <1>6. Recorded(c)' = t /\ Live(c)' = Live(c)
    BY <1>3 DEF Recorded, Read, Live
  <1>7. ASSUME NEW d \in Direction
        PROVE  /\ billed[c][d] \in Nat /\ rebilled[c][d] \in Nat
               /\ baseline[c].counter[d] \in Nat
               /\ s.carried[c][d] \in Nat /\ origin[c].carried[d] \in Nat
               /\ origin[c].base[d] \in Nat /\ new.bytes[d] \in Nat
    BY <1>1 DEF AccountingInv, TypeOK, Bytes, Baseline, Origin, Snapshot, Sample
  <1>8. CASE c \notin known
    <2>1. /\ origin[c].epoch = 0
          /\ \A d \in Direction : billed[c][d] = 0 /\ rebilled[c][d] = 0
      BY <1>8 DEF AccountingInv, RowInv
    <2>2. new = NeutralSample
      BY <1>8 DEF Outcome, calculateDelta
    <2>3. ASSUME NEW d \in Direction
          PROVE  /\ billed'[c][d] = 0
                 /\ rebilled'[c][d] = 0
                 /\ origin'[c].base[d] = origin'[c].carried[d]
                 /\ origin'[c].carried[d] \in Nat
      BY <1>3, <1>4, <1>7, <1>8, <2>1, <2>2 DEF NeutralSample, Zero, Rebills
    <2> QED BY <1>2, <1>3, <1>5, <1>6, <1>8, <2>3 DEF RowInv
  <1>9. CASE c \in known
    <2>1. /\ origin[c].epoch > 0
          /\ \A d \in Direction : billed[c][d] <= origin[c].carried[d] + rebilled[c][d]
      BY <1>9 DEF AccountingInv, RowInv
    <2>2. ASSUME NEW d \in Direction
          PROVE  /\ ~Rebills(c, s) => new.bytes[d] <= s.carried[c][d] - origin[c].carried[d]
                 /\ new.bytes[d] <=
                      (s.carried[c][d] - origin[c].carried[d]) + baseline[c].counter[d]
                 /\ baseline[c].boot = origin[c].epoch /\ s.boot = s.epoch /\ ~new.reset =>
                      new.bytes[d] = s.carried[c][d] - origin[c].carried[d]
      BY <1>9, OutcomeBound DEF RecordSnapshot
    <2>5. ASSUME NEW d \in Direction
          PROVE  billed'[c][d] <= origin'[c].carried[d] + rebilled'[c][d]
      <3> HIDE DEF new, r, t, s
      <3> QED BY <1>3, <1>4, <1>7, <2>1, <2>2 DEF s
    <2>6. c \notin inexact' =>
            /\ baseline'[c].boot = origin'[c].epoch
            /\ \A d \in Direction :
                 billed'[c][d] = origin'[c].carried[d] - origin'[c].base[d]
      <3> SUFFICES ASSUME c \notin inexact', NEW d \in Direction
                   PROVE  /\ baseline'[c].boot = origin'[c].epoch
                          /\ billed'[c][d] = origin'[c].carried[d] - origin'[c].base[d]
        BY <1>3, <1>5, <1>9
      <3>1. c \notin inexact /\ ~new.reset /\ s.boot = s.epoch
        BY <1>5, <1>9
      <3>2. /\ baseline[c].boot = origin[c].epoch
            /\ billed[c][d] = origin[c].carried[d] - origin[c].base[d]
        BY <3>1, <1>9 DEF AccountingInv, RowInv
      <3>3. new.bytes[d] = s.carried[c][d] - origin[c].carried[d]
        BY <2>2, <3>1, <3>2
      <3>4. origin'[c].base[d] = origin[c].base[d]
        BY <1>3, <2>1
      <3> HIDE DEF new, s
      <3> QED BY <1>3, <1>4, <1>7, <3>1, <3>2, <3>3, <3>4 DEF s
    <2> QED BY <1>2, <1>3, <1>6, <2>5, <2>6 DEF RowInv
  <1> QED BY <1>8, <1>9

LEMMA RecordStep ==
  ASSUME AccountingInv, NEW p \in Collector, RecordSnapshot(p) PROVE AccountingInv'
  <1>1. TypeOK' /\ Exclusion'
    BY RecordTyped, ExclusionStep DEF AccountingInv, Next, Cycle
  <1>2. ASSUME NEW c \in Credential PROVE RowInv(c)'
    <2>1. CASE c \in listEnabledCredentials \cap snap[p].mapped
      BY <1>1, <2>1, RecordedRow
    <2>2. CASE c \notin listEnabledCredentials \cap snap[p].mapped
      <3>1. /\ c \in known' <=> c \in known
            /\ c \in inexact' <=> c \in inexact
            /\ baseline'[c] = baseline[c] /\ origin'[c] = origin[c]
            /\ billed'[c] = billed[c] /\ rebilled'[c] = rebilled[c]
            /\ UNCHANGED <<epoch, counter, carried>>
        BY <2>2 DEF RecordSnapshot, proxyVars
      <3> QED BY <3>1 DEF AccountingInv, RowInv, Recorded, Live, Precedes, IdentityBetween
    <2> QED BY <2>1, <2>2
  <1>3. ASSUME NEW q \in Collector, NEW c \in Credential PROVE SnapInv(q, c)'
    <2>1. pc'[q] \notin {"queried", "observed"}
      BY DEF AccountingInv, Exclusion, Holding, RecordSnapshot, Goto, TypeOK
    <2> QED BY <2>1 DEF SnapInv
  <1> QED BY <1>1, <1>2, <1>3 DEF AccountingInv

LEMMA OtherStep ==
  ASSUME AccountingInv,
         \/ SetClock \/ OwnerAcquire \/ OwnerRelease
         \/ \E c \in Credential : AddCredential(c) \/ DisableCredential(c)
         \/ \E p \in Collector :
              \/ SyncCredentials(p) \/ BeginCycle(p) \/ CollectFails(p)
              \/ RejectStale(p) \/ RecordFailure(p) \/ WriteFails(p)
              \/ EndCycle(p) \/ Crash(p)
  PROVE  AccountingInv'
  <1>1. Next
    BY DEF Next, Cycle
  <1>2. TypeOK' /\ Exclusion'
    BY <1>1, StepTyped, ExclusionStep DEF AccountingInv
  <1>3. UNCHANGED accountVars
    BY DEF accountVars, SetClock, OwnerAcquire, OwnerRelease, AddCredential,
           DisableCredential, OwnerSetsRow, SyncCredentials, BeginCycle, CollectFails,
           RejectStale, RecordFailure, WriteFails, EndCycle, Crash, proxyVars, dbVars,
           ledgerVars
  <1>4. ASSUME NEW q \in Collector
        PROVE  \/ pc'[q] \notin {"queried", "observed"}
               \/ pc'[q] = pc[q] /\ snap'[q] = snap[q]
    BY DEF SetClock, OwnerAcquire, OwnerRelease, AddCredential,
           DisableCredential, OwnerSetsRow, SyncCredentials, BeginCycle, CollectFails,
           RejectStale, RecordFailure, WriteFails, EndCycle, Crash, Goto, Forget,
           AccountingInv, TypeOK
  <1> QED BY <1>2, <1>3, <1>4, FrameStep

LEMMA AccountingStep == AccountingInv /\ [Next]_vars => AccountingInv'
  <1> SUFFICES ASSUME AccountingInv, [Next]_vars PROVE AccountingInv'
    OBVIOUS
  <1>1. CASE UNCHANGED vars
    <2>1. TypeOK' /\ Exclusion'
      BY StepTyped, ExclusionStep DEF AccountingInv
    <2> QED
      BY <1>1, <2>1, FrameStep DEF vars, accountVars, proxyVars, dbVars, ledgerVars
  <1>2. CASE Next
    BY <1>2, CarryStep, RestartStep, QueryStep, IdentityStep, RecordStep, OtherStep
    DEF Next, Cycle
  <1> QED BY <1>1, <1>2

\* The readings of the counters that the lock keeps in order: live traffic, the
\* snapshot in memory and the collector_state row, with at most one cycle.
THEOREM AccountingCorrect == Spec => []AccountingInv
  BY InitAccounting, AccountingStep, PTL DEF Spec

\* RecordSnapshot never bills more than sing-box carried, except the counters
\* of a process that was replaced between the query and the identity read.
THEOREM NeverOverBills == Spec => []NoOverBilling
  <1>1. AccountingInv => NoOverBilling
    <2> SUFFICES ASSUME AccountingInv, NEW c \in Credential, NEW d \in Direction
                 PROVE  billed[c][d] <= carried[c][d] + rebilled[c][d]
      BY DEF NoOverBilling
    <2>1. /\ billed[c][d] \in Nat /\ carried[c][d] \in Nat /\ rebilled[c][d] \in Nat
          /\ origin[c].carried[d] \in Nat
      BY DEF AccountingInv, TypeOK, Bytes, Origin
    <2>2. CASE c \in known
      <3>1. /\ origin[c].carried[d] <= carried[c][d]
            /\ billed[c][d] <= origin[c].carried[d] + rebilled[c][d]
        BY <2>2 DEF AccountingInv, RowInv, Precedes, Recorded, Live
      <3> QED BY <2>1, <3>1
    <2>3. CASE c \notin known
      BY <2>1, <2>3 DEF AccountingInv, RowInv
    <2> QED BY <2>2, <2>3
  <1> QED BY <1>1, AccountingCorrect, PTL

\* Gaps, skipped cycles, stale snapshots and crashes lose no traffic: unless a
\* reset was flagged or an identity was lost, billing is exact.
THEOREM UnflaggedBillingIsExact == Spec => []UnflaggedIsExact
  <1>1. AccountingInv => UnflaggedIsExact
    BY DEF AccountingInv, RowInv, UnflaggedIsExact, TypeOK
  <1> QED BY <1>1, AccountingCorrect, PTL

-----------------------------------------------------------------------------
(* The detailed store implements the ledger *)

LEMMA LedgerInit == Init => Ledger!Init
  BY DEF Init, Ledger!Init, Ledger!Nothing, Zero, NoOrigin

\* A committed snapshot settles the next interval of every account it covers.
LEMMA LedgerSettles ==
  ASSUME AccountingInv, AccountingInv', NEW p \in Collector, RecordSnapshot(p)
  PROVE  Ledger!Settle(listEnabledCredentials \cap snap[p].mapped)
  <1> DEFINE s == snap[p]
             C == listEnabledCredentials \cap s.mapped
  <1>1. C \subseteq Credential /\ \A c \in C : row[c] = "enabled"
    BY DEF listEnabledCredentials
  <1>2. /\ [c \in Credential |-> origin[c].carried]' \in [Credential -> Ledger!Bytes]
        /\ billed' \in [Credential -> Ledger!Bytes]
        /\ rebilled' \in [Credential -> Ledger!Bytes]
    BY DEF AccountingInv, TypeOK, Origin, Bytes, Ledger!Bytes
  <1>3. /\ known' = known \cup C
        /\ inexact \subseteq inexact' /\ inexact' \subseteq inexact \cup C
        /\ UNCHANGED <<row, carried>>
    BY DEF RecordSnapshot, proxyVars
  <1>4. ASSUME NEW c \in Credential \ C
        PROVE  origin'[c] = origin[c] /\ billed'[c] = billed[c] /\ rebilled'[c] = rebilled[c]
    BY DEF RecordSnapshot
  <1>5. ASSUME NEW c \in C, NEW d \in Direction PROVE Ledger!SettleInterval(c, d)
    <2> DEFINE new == Outcome(c, s)
    <2>1. c \in Credential /\ c \in s.mapped /\ pc[p] = "observed"
      BY <1>1 DEF RecordSnapshot
    <2>2. /\ billed[c][d] \in Nat /\ rebilled[c][d] \in Nat
          /\ baseline[c].counter[d] \in Nat /\ carried[c][d] \in Nat
          /\ s.carried[c][d] \in Nat /\ origin[c].carried[d] \in Nat
          /\ new.bytes[d] \in Nat
      <3>1. s \in Snapshot /\ new \in Sample
        BY <2>1, OutcomeTyped DEF AccountingInv, TypeOK
      <3> QED BY <2>1, <3>1 DEF AccountingInv, TypeOK, Bytes, Baseline, Origin, Snapshot, Sample
    <2>3. /\ origin'[c].carried = s.carried[c]
          /\ billed'[c][d] = billed[c][d] + new.bytes[d]
          /\ rebilled'[c][d] = IF Rebills(c, s) THEN rebilled[c][d] + baseline[c].counter[d]
                                               ELSE rebilled[c][d]
      BY <2>1 DEF RecordSnapshot, Add
    <2>4. /\ s.carried[c][d] <= carried[c][d]
          /\ c \in known => origin[c].carried[d] <= s.carried[c][d]
      BY <2>1 DEF AccountingInv, SnapInv, Precedes, Recorded, Read, Live
    <2>5. CASE c \notin known
      <3>1. new.bytes[d] = 0 /\ ~Rebills(c, s)
        BY <2>1, <2>5 DEF Outcome, calculateDelta, NeutralSample, Zero, Rebills
      <3> HIDE DEF new, s, C
      <3> QED BY <2>1, <2>2, <2>3, <2>4, <2>5, <3>1 DEF Ledger!SettleInterval
    <2>6. CASE c \in known
      <3>1. /\ ~Rebills(c, s) => new.bytes[d] <= s.carried[c][d] - origin[c].carried[d]
            /\ new.bytes[d] <=
                 (s.carried[c][d] - origin[c].carried[d]) + baseline[c].counter[d]
            /\ baseline[c].boot = origin[c].epoch /\ s.boot = s.epoch /\ ~new.reset =>
                 new.bytes[d] = s.carried[c][d] - origin[c].carried[d]
        BY <2>1, <2>6, OutcomeBound
      <3>2. c \notin inexact' =>
              ~Rebills(c, s) /\ new.bytes[d] = s.carried[c][d] - origin[c].carried[d]
        <4> SUFFICES ASSUME c \notin inexact'
                     PROVE  ~Rebills(c, s) /\
                            new.bytes[d] = s.carried[c][d] - origin[c].carried[d]
          OBVIOUS
        <4>1. c \notin inexact /\ ~new.reset /\ s.boot = s.epoch
          BY <2>1 DEF RecordSnapshot
        <4>2. baseline[c].boot = origin[c].epoch
          BY <2>1, <2>6, <4>1 DEF AccountingInv, RowInv
        <4>3. s.epoch \in Nat
          BY BoundAssumption DEF AccountingInv, TypeOK, Snapshot, Identity
        <4>4. ~Rebills(c, s)
          BY <4>1, <4>3 DEF Rebills
        <4> QED BY <3>1, <4>1, <4>2, <4>4
      <3> HIDE DEF new, s, C
      <3> QED BY <2>1, <2>2, <2>3, <2>4, <2>6, <3>1, <3>2 DEF Ledger!SettleInterval
    <2> QED BY <2>5, <2>6
  <1> HIDE DEF C, s
  <1> QED BY <1>1, <1>2, <1>3, <1>4, <1>5 DEF Ledger!Settle, C, s

\* Owner commands and the collector's start change rows only, one way.
LEMMA LedgerRows ==
  ASSUME TypeOK, TypeOK',
         \/ \E c \in Credential : AddCredential(c) \/ DisableCredential(c)
         \/ \E p \in Collector : SyncCredentials(p)
  PROVE  Ledger!ChangeRows
  <1>1. UNCHANGED <<carried, known, billed, origin, rebilled, inexact>>
    BY DEF AddCredential, DisableCredential, OwnerSetsRow, SyncCredentials, proxyVars,
           ledgerVars
  <1>2. ASSUME NEW c \in Credential
        PROVE  \/ row'[c] = row[c]
               \/ row[c] = "absent" /\ row'[c] = "enabled"
               \/ row[c] = "enabled" /\ row'[c] = "revoked"
    BY DEF AddCredential, DisableCredential, OwnerSetsRow, SyncCredentials, TypeOK
  <1> QED BY <1>1, <1>2 DEF Ledger!ChangeRows, TypeOK

LEMMA LedgerStep ==
  ASSUME AccountingInv, AccountingInv', [Next]_vars
  PROVE  [Ledger!Next]_(Ledger!vars)
  <1> DEFINE Silent == UNCHANGED <<row, carried, known, origin, billed, rebilled, inexact>>
  <1>1. CASE UNCHANGED vars
    BY <1>1 DEF vars, proxyVars, dbVars, ledgerVars, Ledger!vars
  <1>2. ASSUME NEW c \in Credential, NEW d \in Direction, Carry(c, d)
        PROVE  Ledger!Next
    <2>1. Ledger!Carry(c, d)
      BY <1>2 DEF Carry, dbVars, ledgerVars, Ledger!Carry
    <2> QED BY <2>1 DEF Ledger!Next
  <1>3. ASSUME \/ \E c \in Credential : AddCredential(c) \/ DisableCredential(c)
               \/ \E p \in Collector : SyncCredentials(p)
        PROVE  Ledger!Next
    BY <1>3, LedgerRows DEF AccountingInv, Ledger!Next
  <1>4. ASSUME NEW p \in Collector, RecordSnapshot(p) PROVE Ledger!Next
    <2>1. listEnabledCredentials \cap snap[p].mapped \in SUBSET Credential
      BY DEF listEnabledCredentials
    <2>2. Ledger!Settle(listEnabledCredentials \cap snap[p].mapped)
      BY <1>4, LedgerSettles
    <2>3. \E C \in SUBSET Credential : Ledger!Settle(C)
      BY <2>1, <2>2, Zenon DEF Ledger!Settle, Ledger!SettleInterval
    <2> QED BY <2>3 DEF Ledger!Next
  <1>5. CASE Restart \/ SetClock \/ OwnerAcquire \/ OwnerRelease
    <2>1. Silent
      BY <1>5 DEF Restart, SetClock, OwnerAcquire, OwnerRelease, proxyVars, dbVars, ledgerVars
    <2> QED BY <2>1 DEF Ledger!vars
  <1>6. ASSUME NEW p \in Collector,
               \/ BeginCycle(p) \/ QueryStats(p) \/ CollectFails(p)
               \/ ReadProcessIdentity(p) \/ RejectStale(p) \/ RecordFailure(p)
               \/ WriteFails(p) \/ EndCycle(p) \/ Crash(p)
        PROVE  UNCHANGED Ledger!vars
    <2>1. Silent
      BY <1>6 DEF BeginCycle, QueryStats, CollectFails, ReadProcessIdentity, RejectStale,
                  RecordFailure, WriteFails, EndCycle, Crash, proxyVars, dbVars, ledgerVars
    <2> QED BY <2>1 DEF Ledger!vars
  <1> QED BY <1>1, <1>2, <1>3, <1>4, <1>5, <1>6 DEF Next, Cycle

\* TrafficAccounting implements UsageLedger: every byte sing-box carried is
\* settled at most once, exactly in unflagged accounts, never in revoked ones.
THEOREM LedgerImplemented == Spec => ImplementsLedger
  <1>1. Init => Ledger!Init
    BY LedgerInit
  <1>2. AccountingInv /\ AccountingInv' /\ [Next]_vars => [Ledger!Next]_(Ledger!vars)
    BY LedgerStep
  <1> QED BY <1>1, <1>2, AccountingCorrect, PTL DEF Spec, ImplementsLedger, Ledger!Spec

=============================================================================
