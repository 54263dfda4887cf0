---------------------------- MODULE AlertsProofs ----------------------------
(* Theorems about HostEvidence and Alerts, for every value of their constants. *)
EXTENDS Alerts, FiniteSums

-----------------------------------------------------------------------------
(* Lemmas about values *)

\* The bucket of a second is a second that is not after it.
LEMMA BucketTyped ==
  ASSUME NEW t \in Second PROVE Bucket(t) \in Second /\ Bucket(t) <= t
  <1>1. t % SecondsPerMinute \in 0 .. t
    BY HostBoundAssumption DEF Second
  <1> QED BY <1>1, HostBoundAssumption DEF Bucket, Second

\* So is the start of a period of any length.
LEMMA PeriodStart ==
  ASSUME NEW t \in Second, NEW n \in Nat \ {0} PROVE t - (t % n) \in Second
  <1>1. t % n \in 0 .. t
    BY DEF Second
  <1> QED BY <1>1, HostBoundAssumption DEF Second

LEMMA SecondNat == \A t \in Second : t \in Nat
  BY HostBoundAssumption DEF Second

LEMMA SecondsFinite == \A S \in SUBSET Second : IsFiniteSet(S)
  <1>1. IsFiniteSet(Second)
    BY FS_Interval, HostBoundAssumption DEF Second
  <1> QED BY <1>1, FS_Subset

\* A set of seconds has a last one.
LEMMA MaxSecond ==
  ASSUME NEW S \in SUBSET Second, S # {}
  PROVE  Max(S) \in S /\ \A t \in S : t <= Max(S)
  <1> DEFINE P == {s \in SUBSET S : s = {} \/ \E m \in s : \A t \in s : t <= m}
  <1>1. {} \in P
    OBVIOUS
  <1>2. ASSUME NEW s \in SUBSET S, NEW x \in s, s \ {x} \in P
        PROVE  s \in P
    <2>1. CASE s \ {x} = {}
      <3>1. \A t \in s : t <= x
        BY <2>1, HostBoundAssumption DEF Second
      <3> QED BY <3>1
    <2>2. CASE s \ {x} # {}
      <3>1. PICK m \in s \ {x} : \A t \in s \ {x} : t <= m
        BY <1>2, <2>2
      <3>2. m \in Nat /\ x \in Nat /\ \A t \in s : t \in Nat
        BY HostBoundAssumption DEF Second
      <3>3. CASE x <= m
        BY <3>1, <3>2, <3>3
      <3>4. CASE ~(x <= m)
        <4>1. \A t \in s : t <= x
          BY <3>1, <3>2, <3>4
        <4> QED BY <4>1
      <3> QED BY <3>3, <3>4
    <2> QED BY <2>1, <2>2
  <1>3. S \in P
    <2> HIDE DEF P
    <2> QED BY <1>1, <1>2, SecondsFinite, ElementInduction
  <1>4. \E m \in S : \A t \in S : t <= m
    BY <1>3
  <1>5. \E m \in S : \A t \in S : m >= t
    BY <1>4, HostBoundAssumption DEF Second
  <1>6. Max(S) \in S /\ \A t \in S : Max(S) >= t
    BY <1>5 DEF Max
  <1> QED BY <1>6, HostBoundAssumption DEF Second

-----------------------------------------------------------------------------
(* Type correctness.  It needs that what a baseline of this boot recorded is *)
(* not more than the counter shows.                                          *)

ReadingOrder ==
  /\ counter <= carried
  /\ hasBase => /\ base.boot <= boot
                /\ base.boot = boot => base.value <= counter

TypeInv == TypeOK /\ ReadingOrder

\* A minute's growth of the host's counter is never negative.
LEMMA HostDeltaTyped ==
  ASSUME state.value \in Nat, NEW current \in Nat, NEW id
  PROVE  safeCounterDelta(current, id) \in Nat
  BY DEF safeCounterDelta

LEMMA HostMergeTyped ==
  ASSUME NEW old \in HostRow, NEW rx \in Nat, NEW missing \in Reading
  PROVE  MergeHost(old, [rx |-> rx, ok |-> missing = {}, missing |-> missing]) \in HostRow
  <1>1. old.rx + rx \in Nat /\ (old.ok /\ missing = {}) \in BOOLEAN
    BY DEF HostRow
  <1> QED BY <1>1 DEF MergeHost, HostRow

LEMMA MergedFlags ==
  ASSUME NEW old, NEW new
  PROVE  /\ MergeHost(old, new).missing = new.missing
         /\ MergeHost(old, new).ok <=> old.ok /\ new.ok
  BY DEF MergeHost

\* The rows of a reading.
LEMMA HostSnapshotTyped ==
  ASSUME TypeOK, NEW missing \in Reading, RecordHostSnapshot(missing)
  PROVE  HostTypeOK'
  <1> DEFINE b == Bucket(now)
             id == IF "boot_id" \in missing THEN 0 ELSE boot
             valid == "netdev" \notin missing
             rx == IF valid THEN safeCounterDelta(counter, id) ELSE 0
  <1>1. b \in Second /\ now \in Second
    BY BucketTyped DEF TypeOK
  <1>2. /\ counter \in Bytes /\ carried \in Bytes
        /\ boot \in 1 .. MaxBoot /\ HostTypeOK
    BY DEF TypeOK
  <1>3. id \in 0 .. MaxBoot
    BY <1>2, HostBoundAssumption
  <1>4. rx \in Nat
    <2>1. state.value \in Nat /\ counter \in Nat
      BY <1>2, HostBoundAssumption DEF HostTypeOK, Bytes
    <2> QED BY <2>1, HostDeltaTyped
  <1>5. /\ state' \in [value : Bytes, boot : 0 .. MaxBoot] /\ hasState' \in BOOLEAN
        /\ origin' \in [first : Bytes, last : Bytes]
    <2>1. RecordState(id, valid)
      BY DEF RecordHostSnapshot
    <2> HIDE DEF id, valid
    <2>2. CASE valid
      <3>1. /\ hasState' = TRUE
            /\ state' = [value |-> counter, boot |-> id]
            /\ origin' = [first |-> IF hasState THEN origin.first ELSE carried,
                          last  |-> carried]
        BY <2>1, <2>2 DEF RecordState
      <3>2. (IF hasState THEN origin.first ELSE carried) \in Bytes
        BY <1>2 DEF HostTypeOK
      <3> QED BY <1>2, <1>3, <3>1, <3>2
    <2>3. CASE ~valid
      <3>1. UNCHANGED <<hasState, state, origin>>
        BY <2>1, <2>3 DEF RecordState
      <3> QED BY <1>2, <3>1 DEF HostTypeOK
    <2> QED BY <2>2, <2>3
  <1>7. hosted' = hosted \cup {b}
    BY DEF RecordHostSnapshot
  <1>8. /\ host' = [host EXCEPT ![b] =
                      MergeHost(@, [rx |-> rx, ok |-> missing = {}, missing |-> missing])]
        /\ host' \in [Second -> HostRow]
    <2>1. host[b] \in HostRow
      BY <1>1, <1>2 DEF HostTypeOK
    <2>2. host' = [host EXCEPT ![b] =
                      MergeHost(@, [rx |-> rx, ok |-> missing = {}, missing |-> missing])]
      BY DEF RecordHostSnapshot
    <2>3. MergeHost(host[b], [rx |-> rx, ok |-> missing = {}, missing |-> missing])
            \in HostRow
      BY <1>4, <2>1, HostMergeTyped
    <2> HIDE DEF b, rx
    <2> QED BY <1>1, <1>2, <2>2, <2>3 DEF HostTypeOK
  <1>9. \A h \in Second \ hosted' : host'[h] = NoHostRow
    BY <1>1, <1>2, <1>7, <1>8 DEF HostTypeOK
  <1>10. /\ gapEvents' \subseteq Gap /\ reports' \subseteq Gap
         /\ late' \subseteq hosted' /\ late' \subseteq Second
    BY <1>1, <1>2, <1>7 DEF RecordHostSnapshot, HostTypeOK, Gap
  <1>11. observed' \subseteq Second /\ vnstat' \in [Second -> Bytes]
    BY <1>1, <1>2 DEF RecordHostSnapshot, HostTypeOK
  <1>12. hosted' \subseteq Second
    BY <1>1, <1>2, <1>7 DEF HostTypeOK
  <1> HIDE DEF b, id, valid, rx
  <1> QED BY <1>5, <1>8, <1>9, <1>10, <1>11, <1>12 DEF HostTypeOK

\* The row of an observation of the users' traffic.
LEMMA InsertTyped ==
  ASSUME TypeOK, NEW bytes \in Nat, NEW ok \in BOOLEAN, Insert(bytes, ok)
  PROVE  sampled' \subseteq Second /\ sample' \in [Second -> Sample]
  <1>1. Bucket(now) \in Second
    BY BucketTyped DEF TypeOK
  <1>2. sample[Bucket(now)] \in Sample
    BY <1>1 DEF TypeOK
  <1>3. Merge(sample[Bucket(now)], [bytes |-> bytes, ok |-> ok]) \in Sample
    <2>1. /\ sample[Bucket(now)].bytes + bytes \in Nat
          /\ (sample[Bucket(now)].ok /\ ok) \in BOOLEAN
      BY <1>2 DEF Sample
    <2> QED BY <2>1 DEF Merge, Sample
  <1>4. sample' = [sample EXCEPT ![Bucket(now)] = Merge(@, [bytes |-> bytes, ok |-> ok])]
    BY DEF Insert
  <1> QED BY <1>1, <1>3, <1>4 DEF Insert, TypeOK

\* The bytes an observation bills.
LEMMA BilledTyped ==
  ASSUME TypeInv
  PROVE  (IF ~hasBase THEN 0
          ELSE IF base.boot # boot THEN counter ELSE counter - base.value) \in Nat
  BY HostBoundAssumption DEF TypeInv, TypeOK, ReadingOrder, Bytes

\* The elements of a concatenation.
LEMMA Elements ==
  ASSUME NEW T, NEW s1 \in Seq(T), NEW s2 \in Seq(T), NEW s3 \in Seq(T),
         NEW s4 \in Seq(T), NEW s5 \in Seq(T),
         NEW i \in 1 .. Len(s1 \o s2 \o s3 \o s4 \o s5)
  PROVE  (s1 \o s2 \o s3 \o s4 \o s5)[i] \in T
  <1>1. s1 \o s2 \o s3 \o s4 \o s5 \in Seq(T)
    OBVIOUS
  <1> QED BY <1>1

\* The period a volume check is about, and what it holds of.
Cycle == billingCycleStart(now)
Hour == now - (now % HourSeconds)
QuotaCheck == [key |-> Key("quota", Cycle), holds |-> UserBytes(Cycle, now + 1) >= QuotaBytes]
UserCheck == [key |-> Key("user", Hour), holds |-> UserBytes(Hour, now + 1) >= UserBytesLimit]

\* EvaluateAlerts sets the quota of the current cycle, the user's bytes of the
\* current hour, and alerts of other kinds.
LEMMA ChecksMade ==
  ASSUME NEW i \in 1 .. Len(Checks)
  PROVE  \/ Checks[i] = QuotaCheck
         \/ Checks[i] = UserCheck
         \/ \E kind \in {"difference", "failures", "spike"}, start \in {0, Cycle, Hour} :
              Checks[i].key = Key(kind, start)
  <1> DEFINE usage == MonthUsage(Cycle, now + 1)
             x2 == [key |-> Key("difference", Cycle), holds |-> Differs(usage)]
             x3 == [key |-> Key("failures", 0), holds |-> consecutiveFailures >= Consecutive]
             x5 == [key |-> Key("spike", Hour), holds |-> Spike]
             c2 == usage.available
             c4 == Complete(Hour, now + 1) # {}
             c5 == Complete(now - (HistoryHours + 1) * HourSeconds, now + 1) # {}
             T == {QuotaCheck, x2, x3, UserCheck, x5}
  <1>1. usage.user = UserBytes(Cycle, now + 1)
    BY DEF MonthUsage
  <1>2. Checks = <<QuotaCheck>>
                   \o (IF c2 THEN <<x2>> ELSE <<>>)
                   \o <<x3>>
                   \o (IF c4 THEN <<UserCheck>> ELSE <<>>)
                   \o (IF c5 THEN <<x5>> ELSE <<>>)
    BY <1>1, Zenon DEF Checks, QuotaCheck, UserCheck, Cycle, Hour
  <1>3. /\ x2.key = Key("difference", Cycle)
        /\ x3.key = Key("failures", 0)
        /\ x5.key = Key("spike", Hour)
    OBVIOUS
  <1> HIDE DEF x2, x3, x5, c2, c4, c5
  <1>4. Checks[i] \in T
    BY <1>2, Elements
  <1> QED BY <1>3, <1>4

LEMMA ChecksTyped ==
  ASSUME TypeOK, NEW i \in 1 .. Len(Checks) PROVE Checks[i].key \in AlertKey
  <1>1. {0, Cycle, Hour} \subseteq Second
    BY PeriodStart, AlertAssumption, HostBoundAssumption
       DEF Cycle, Hour, billingCycleStart, TypeOK, Second
  <1>2. \A kind \in {"quota", "difference", "user", "spike", "failures"},
           start \in {0, Cycle, Hour} : Key(kind, start) \in AlertKey
    BY <1>1 DEF AlertKey, Key
  <1>3. QuotaCheck.key = Key("quota", Cycle) /\ UserCheck.key = Key("user", Hour)
    BY DEF QuotaCheck, UserCheck
  <1> QED BY <1>2, <1>3, ChecksMade

LEMMA TypesStart == Init => TypeInv
  <1>1. 0 \in Second /\ 0 \in Bytes /\ 1 \in 1 .. MaxBoot /\ 0 \in 0 .. MaxBoot
        /\ 0 \in 0 .. MaxCycles
    BY HostBoundAssumption, AlertAssumption DEF Second, Bytes
  <1>2. NoSample \in Sample /\ NoHostRow \in HostRow
    BY DEF NoSample, Sample, NoHostRow, HostRow
  <1> SUFFICES ASSUME Init PROVE TypeInv
    OBVIOUS
  <1>3. /\ state \in [value : Bytes, boot : 0 .. MaxBoot]
        /\ origin \in [first : Bytes, last : Bytes]
        /\ base \in [value : Bytes, boot : 0 .. MaxBoot, at : Second]
    BY <1>1 DEF Init, HostInit
  <1>4. /\ host \in [Second -> HostRow] /\ \A b \in Second : host[b] = NoHostRow
        /\ vnstat \in [Second -> Bytes]
        /\ sample \in [Second -> Sample]
    BY <1>1, <1>2 DEF Init, HostInit
  <1>5. HostTypeOK
    BY <1>3, <1>4 DEF Init, HostInit, HostTypeOK
  <1>6. TypeOK
    BY <1>1, <1>3, <1>4, <1>5 DEF Init, TypeOK
  <1> QED BY <1>6, HostBoundAssumption DEF Init, TypeInv, ReadingOrder

LEMMA TypesStep == TypeInv /\ [Next]_vars => TypeInv'
  <1> SUFFICES ASSUME TypeInv, [Next]_vars PROVE TypeInv'
    OBVIOUS
  <1> USE DEF TypeInv
  <1>1. CASE Carry
    <2>1. counter' \in Bytes /\ carried' \in Bytes /\ counter' <= carried'
      BY <1>1, HostBoundAssumption DEF Carry, TypeOK, ReadingOrder, Bytes
    <2>2. ReadingOrder'
      BY <1>1, <2>1, HostBoundAssumption
         DEF Carry, TypeOK, ReadingOrder, Bytes, hostTables, traffic
    <2> QED BY <1>1, <2>1, <2>2 DEF Carry, TypeOK, HostTypeOK, hostTables, traffic
  <1>2. CASE SetClock
    BY <1>2 DEF SetClock, TypeOK, HostTypeOK, ReadingOrder, hostTables, traffic
  <1>3. CASE Reboot
    <2>1. boot' \in 1 .. MaxBoot /\ counter' \in Bytes /\ ReadingOrder'
      BY <1>3, HostBoundAssumption DEF Reboot, TypeOK, ReadingOrder, Bytes, hostTables, traffic
    <2> QED BY <1>3, <2>1 DEF Reboot, TypeOK, HostTypeOK, hostTables, traffic
  <1>4. CASE BeginCycle /\ (RecordSnapshot \/ RecordFailure \/ RecordsNothing)
    <2>1. pc' \in {"idle", "host", "alerts"} /\ cycles' \in 0 .. MaxCycles
      BY <1>4, AlertAssumption DEF BeginCycle, TypeOK
    <2>2. CASE RecordSnapshot
      <3> DEFINE bytes == IF ~hasBase THEN 0
                          ELSE IF base.boot # boot THEN counter ELSE counter - base.value
      <3>1. bytes \in Nat /\ Insert(bytes, TRUE)
        BY <2>2, BilledTyped DEF RecordSnapshot
      <3>2. sampled' \subseteq Second /\ sample' \in [Second -> Sample]
        BY <3>1, InsertTyped
      <3>3. /\ base' \in [value : Bytes, boot : 0 .. MaxBoot, at : Second]
            /\ hasBase' = TRUE /\ base'.boot = boot /\ base'.value = counter
        BY <2>2, HostBoundAssumption DEF RecordSnapshot, TypeOK
      <3>4. ReadingOrder'
        BY <2>2, <3>3, HostBoundAssumption DEF RecordSnapshot, ReadingOrder, TypeOK, world, Bytes
      <3> HIDE DEF bytes
      <3> QED BY <2>1, <2>2, <3>2, <3>3, <3>4
              DEF RecordSnapshot, TypeOK, HostTypeOK, world, hostTables
    <2>3. CASE RecordFailure
      <3>1. sampled' \subseteq Second /\ sample' \in [Second -> Sample]
        BY <2>3, InsertTyped DEF RecordFailure
      <3> QED BY <2>1, <2>3, <3>1
              DEF RecordFailure, TypeOK, HostTypeOK, ReadingOrder, world, hostTables
    <2>4. CASE RecordsNothing
      BY <2>1, <2>4 DEF RecordsNothing, TypeOK, HostTypeOK, ReadingOrder, world,
                        hostTables, traffic
    <2> QED BY <1>4, <2>2, <2>3, <2>4
  <1>5. CASE ObserveHost
    <2>1. HostTypeOK'
      BY <1>5, HostSnapshotTyped DEF ObserveHost, hostTables, HostTypeOK, TypeOK
    <2> QED BY <1>5, <2>1 DEF ObserveHost, TypeOK, ReadingOrder, world, traffic
  <1>6. CASE EvaluateAlerts
    <2>1. PICK n \in 0 .. Len(Checks) : setAlerts({Checks[i] : i \in 1 .. n})
      BY <1>6 DEF EvaluateAlerts
    <2>2. \A i \in 1 .. n : Checks[i].key \in AlertKey
      <3>1. \A i \in 1 .. n : i \in 1 .. Len(Checks)
        BY <2>1
      <3> QED BY <3>1, ChecksTyped
    <2>3. active' \subseteq AlertKey
      BY <2>1, <2>2 DEF setAlerts, TypeOK
    <2> QED BY <1>6, <2>3
            DEF EvaluateAlerts, TypeOK, HostTypeOK, ReadingOrder, world, hostTables, traffic
  <1>7. CASE Crash
    BY <1>7 DEF Crash, TypeOK, HostTypeOK, ReadingOrder, world, hostTables, traffic
  <1>8. CASE UNCHANGED vars
    BY <1>8 DEF vars, TypeOK, HostTypeOK, ReadingOrder, world, hostTables, traffic
  <1> QED BY <1>1, <1>2, <1>3, <1>4, <1>5, <1>6, <1>7, <1>8
          DEF Next, RecordSnapshot, RecordFailure, RecordsNothing

\* Every table of the host and of the traffic keeps its shape.
THEOREM AlertsTyped == Spec => []TypeOK
  <1>1. TypeInv => TypeOK
    BY DEF TypeInv
  <1> QED BY <1>1, TypesStart, TypesStep, PTL DEF Spec

-----------------------------------------------------------------------------
(* Host evidence *)

\* The last reading was taken in this boot, and the counter has grown by what
\* was carried since; or in an earlier one, and all the counter shows was
\* carried since.
ReadingInv ==
  /\ origin.first <= origin.last /\ origin.last <= carried
  /\ boot = 1 => counter = carried
  /\ ~hasState => origin.first = origin.last
  /\ hasState => \/ counter - state.value = carried - origin.last
                 \/ counter <= carried - origin.last
  /\ hasState /\ boot = 1 => state.value = origin.last /\ state.boot \in {0, 1}

HostBytesInv ==
  /\ HostBytes \in Nat
  /\ ~hasState => HostBytes = 0
  /\ HostBytesWithinCarried
  /\ HostBytesAreExact

HostInv == TypeInv /\ ReadingInv /\ HostBytesInv

\* A minute's row adds its delta to what the rows add up to.
LEMMA HostBytesGrow ==
  ASSUME TypeInv, NEW missing \in Reading, RecordHostSnapshot(missing)
  PROVE  LET id == IF "boot_id" \in missing THEN 0 ELSE boot
         IN HostBytes' = HostBytes + IF "netdev" \in missing THEN 0
                                     ELSE safeCounterDelta(counter, id)
  <1> DEFINE b == Bucket(now)
             id == IF "boot_id" \in missing THEN 0 ELSE boot
             rx == IF "netdev" \notin missing THEN safeCounterDelta(counter, id) ELSE 0
             f == [h \in Second |-> host[h].rx]
             g == [h \in Second |-> host'[h].rx]
  <1>1. b \in Second /\ HostTypeOK /\ HostTypeOK'
    BY BucketTyped, HostSnapshotTyped DEF TypeInv, TypeOK
  <1>2. hosted' = hosted \cup {b}
    BY DEF RecordHostSnapshot
  <1>3. host' = [host EXCEPT ![b] =
                   MergeHost(@, [rx |-> rx, ok |-> missing = {}, missing |-> missing])]
    BY DEF RecordHostSnapshot
  <1>4. rx \in Nat
    <2>1. state.value \in Nat /\ counter \in Nat
      BY HostBoundAssumption DEF TypeInv, TypeOK, HostTypeOK, Bytes
    <2> QED BY <2>1, HostDeltaTyped
  <1> HIDE DEF b, rx
  <1>5. host'[b].rx = host[b].rx + rx /\ \A h \in Second \ {b} : host'[h] = host[h]
    BY <1>1, <1>3 DEF MergeHost, HostTypeOK
  <1>6. \A h \in Second : host[h].rx \in Nat /\ host'[h].rx \in Nat
    BY <1>1 DEF HostTypeOK, HostRow
  <1>7. b \notin hosted => host[b].rx = 0
    BY <1>1 DEF HostTypeOK, NoHostRow
  <1>8. hosted \subseteq Second /\ IsFiniteSet(hosted)
    BY <1>1, SecondsFinite DEF HostTypeOK
  <1>9. /\ \A h \in hosted \cup {b} : f[h] \in Nat /\ g[h] \in Nat
        /\ \A h \in hosted \ {b} : f[h] = g[h]
        /\ b \notin hosted => f[b] = 0
        /\ g[b] - f[b] = rx
    BY <1>1, <1>4, <1>5, <1>6, <1>7, <1>8
  <1>10. SumFunctionOnSet(g, hosted \cup {b}) = SumFunctionOnSet(f, hosted) + rx
    <2> HIDE DEF f, g
    <2>1. SumFunctionOnSet(g, hosted \cup {b}) = SumFunctionOnSet(f, hosted) + (g[b] - f[b])
      BY <1>8, <1>9, SumWritten
    <2> QED BY <1>9, <2>1
  <1>11. HostBytes' = HostBytes + rx
    BY <1>2, <1>10 DEF HostBytes
  <1> QED BY <1>11 DEF rx

LEMMA HostStarts == Init => HostInv
  <1> SUFFICES ASSUME Init PROVE HostInv
    OBVIOUS
  <1>1. HostBytes = 0
    BY SumEmpty DEF Init, HostInit, HostBytes
  <1>2. ReadingInv
    BY DEF Init, HostInit, ReadingInv
  <1>3. HostBytesInv
    BY <1>1 DEF Init, HostInit, HostBytesInv, HostBytesWithinCarried, HostBytesAreExact
  <1> QED BY <1>2, <1>3, TypesStart DEF HostInv

LEMMA HostObserved ==
  ASSUME HostInv, NEW missing \in Reading, RecordHostSnapshot(missing), UNCHANGED world
  PROVE  ReadingInv' /\ HostBytesInv'
  <1> DEFINE id == IF "boot_id" \in missing THEN 0 ELSE boot
             delta == safeCounterDelta(counter, id)
  <1> USE DEF HostInv
  <1>1. /\ counter \in Nat /\ carried \in Nat /\ boot \in Nat /\ boot # 0
        /\ state.value \in Nat /\ state.boot \in Nat
        /\ origin.first \in Nat /\ origin.last \in Nat /\ hasState \in BOOLEAN
        /\ counter <= carried
    BY HostBoundAssumption DEF TypeInv, TypeOK, HostTypeOK, Bytes, ReadingOrder
  <1>2. UNCHANGED <<counter, carried, boot>>
    BY DEF world
  <1>3. CASE "netdev" \in missing
    <2>1. HostBytes' = HostBytes
      BY <1>3, HostBytesGrow DEF HostBytesInv
    <2>2. UNCHANGED <<hasState, state, origin>>
      BY <1>3 DEF RecordHostSnapshot, RecordState
    <2> QED BY <1>2, <2>1, <2>2
            DEF ReadingInv, HostBytesInv, HostBytesWithinCarried, HostBytesAreExact
  <1>4. CASE "netdev" \notin missing
    <2>1. HostBytes' = HostBytes + delta
      BY <1>4, HostBytesGrow
    <2>2. /\ hasState' = TRUE
          /\ state' = [value |-> counter, boot |-> id]
          /\ origin' = [first |-> IF hasState THEN origin.first ELSE carried,
                        last  |-> carried]
      BY <1>4 DEF RecordHostSnapshot, RecordState
    <2>3. /\ state'.value = counter /\ state'.boot = id /\ origin'.last = carried
          /\ origin'.first = IF hasState THEN origin.first ELSE carried
      BY <2>2
    <2>4. ReadingInv'
      BY <1>1, <1>2, <2>2, <2>3 DEF ReadingInv
    <2>5. delta \in Nat /\ (~hasState => delta = 0)
      BY <1>1 DEF safeCounterDelta
    <2>6. hasState => delta <= carried - origin.last
      BY <1>1 DEF safeCounterDelta, ReadingInv
    <2>7. hasState /\ boot = 1 => delta = carried - origin.last
      BY <1>1 DEF safeCounterDelta, ReadingInv
    <2> HIDE DEF delta, id
    <2>8. HostBytesWithinCarried' /\ HostBytesAreExact'
      BY <1>1, <1>2, <2>1, <2>3, <2>5, <2>6, <2>7
         DEF HostBytesInv, ReadingInv, HostBytesWithinCarried, HostBytesAreExact
    <2> QED BY <2>1, <2>2, <2>4, <2>5, <2>8 DEF HostBytesInv
  <1> QED BY <1>3, <1>4

LEMMA HostStep == HostInv /\ [Next]_vars => HostInv'
  <1> SUFFICES ASSUME HostInv, [Next]_vars PROVE HostInv'
    OBVIOUS
  <1>1. TypeInv'
    BY TypesStep DEF HostInv
  <1>2. /\ counter \in Nat /\ carried \in Nat /\ boot \in Nat /\ boot # 0
        /\ state.value \in Nat /\ origin.first \in Nat /\ origin.last \in Nat
        /\ counter <= carried
    BY HostBoundAssumption DEF HostInv, TypeInv, TypeOK, HostTypeOK, Bytes, ReadingOrder
  <1>3. CASE UNCHANGED hostTables
    <2>1. HostBytes' = HostBytes /\ UNCHANGED <<state, hasState, origin>>
      BY <1>3 DEF hostTables, HostBytes
    <2>2. CASE UNCHANGED <<counter, carried, boot>>
      BY <1>1, <2>1, <2>2
         DEF HostInv, ReadingInv, HostBytesInv, HostBytesWithinCarried, HostBytesAreExact
    <2>3. CASE Carry
      BY <1>1, <1>2, <2>1, <2>3
         DEF Carry, HostInv, ReadingInv, HostBytesInv, HostBytesWithinCarried, HostBytesAreExact
    <2>4. CASE Reboot
      BY <1>1, <1>2, <2>1, <2>4
         DEF Reboot, HostInv, ReadingInv, HostBytesInv, HostBytesWithinCarried, HostBytesAreExact
    <2> QED BY <2>2, <2>3, <2>4
            DEF Next, vars, world, SetClock, RecordSnapshot, RecordFailure, RecordsNothing,
                ObserveHost, EvaluateAlerts, Crash
  <1>4. CASE ObserveHost /\ \E missing \in Reading : RecordHostSnapshot(missing)
    <2>1. ReadingInv' /\ HostBytesInv'
      BY <1>4, HostObserved DEF ObserveHost
    <2> QED BY <1>1, <2>1 DEF HostInv
  <1> QED BY <1>3, <1>4
          DEF Next, vars, Carry, SetClock, Reboot, RecordSnapshot, RecordFailure,
              RecordsNothing, ObserveHost, EvaluateAlerts, Crash

\* System samples never add up to more than the host received between the
\* first and the last reading.
THEOREM HostNeverOvercounts == Spec => []HostBytesWithinCarried
  <1>1. HostInv => HostBytesWithinCarried
    BY DEF HostInv, HostBytesInv
  <1> QED BY <1>1, HostStarts, HostStep, PTL DEF Spec

\* Until the host boots anew they add up to exactly that.
THEOREM HostCountsExactly == Spec => []HostBytesAreExact
  <1>1. HostInv => HostBytesAreExact
    BY DEF HostInv, HostBytesInv
  <1> QED BY <1>1, HostStarts, HostStep, PTL DEF Spec

-----------------------------------------------------------------------------
(* Evidence of gaps, and health *)

\* The reports are those of recorded minutes, and a minute that is missing a
\* source has reported it; a gap is announced; a complete minute was seen by
\* vnStat in it.
ReportsInv ==
  /\ \A r \in reports : r.at \in hosted
  /\ \A b \in hosted : host[b].missing # {} =>
                       [at |-> b, missing |-> host[b].missing] \in reports

EvidenceInv ==
  /\ ReportsInv
  /\ GapIsAnnounced
  /\ \A b \in hosted : host[b].ok => \E t \in observed : b <= t

\* A complete minute of the traffic is behind the baseline.
BaseInv == \A b \in sampled : sample[b].ok => hasBase /\ b <= base.at

LEMMA EvidenceRecorded ==
  ASSUME TypeOK, EvidenceInv, NEW missing \in Reading, RecordHostSnapshot(missing)
  PROVE  EvidenceInv'
  <1> DEFINE b == Bucket(now)
             id == IF "boot_id" \in missing THEN 0 ELSE boot
             valid == "netdev" \notin missing
             rx == IF valid THEN safeCounterDelta(counter, id) ELSE 0
             new == [rx |-> rx, ok |-> missing = {}, missing |-> missing]
             gap == [at |-> b, missing |-> missing]
  <1>1. b \in Second /\ now \in Second /\ b <= now /\ HostTypeOK /\ HostTypeOK'
    BY BucketTyped, HostSnapshotTyped DEF TypeOK
  <1>2. hosted' = hosted \cup {b} /\ hosted \subseteq Second
    BY <1>1 DEF RecordHostSnapshot, HostTypeOK
  <1>3. host' = [host EXCEPT ![b] = MergeHost(@, new)]
    BY DEF RecordHostSnapshot
  <1>4. /\ gapEvents \subseteq gapEvents'
        /\ missing # {} /\ missing # Previous(b, missing) => gap \in gapEvents'
    BY DEF RecordHostSnapshot
  <1>5. observed \subseteq observed' /\ (missing = {} => now \in observed')
    BY DEF RecordHostSnapshot
  <1>6. new.missing = missing /\ (new.ok <=> missing = {})
    OBVIOUS
  <1>7. /\ reports' = IF missing # {} THEN reports \cup {gap} ELSE reports
        /\ late \subseteq late'
        /\ (\E h \in hosted : h > b) => b \in late'
    BY DEF RecordHostSnapshot
  <1>8. gap.at = b /\ gap.missing = missing /\ gap = [at |-> b, missing |-> missing]
    OBVIOUS
  <1> HIDE DEF b, new, gap
  <1>9. /\ \A h \in Second \ {b} : host'[h] = host[h]
        /\ host'[b].missing = missing
        /\ host'[b].ok <=> host[b].ok /\ missing = {}
    <2>1. host[b] \in HostRow
      BY <1>1 DEF HostTypeOK
    <2>2. host'[b] = MergeHost(host[b], new)
      BY <1>1, <1>3 DEF HostTypeOK
    <2>3. host'[b].missing = missing /\ (host'[b].ok <=> host[b].ok /\ missing = {})
      BY <1>6, <2>2, MergedFlags
    <2>4. \A h \in Second \ {b} : host'[h] = host[h]
      BY <1>1, <1>3 DEF HostTypeOK
    <2> QED BY <2>3, <2>4
  <1>10. ReportsInv'
    <2>1. \A r \in reports' : r.at \in hosted'
      BY <1>2, <1>7, <1>8 DEF EvidenceInv, ReportsInv
    <2>2. \A h \in hosted' : host'[h].missing # {} =>
                             [at |-> h, missing |-> host'[h].missing] \in reports'
      <3>1. ASSUME NEW h \in hosted', host'[h].missing # {}
            PROVE  [at |-> h, missing |-> host'[h].missing] \in reports'
        <4>1. CASE h = b
          BY <1>7, <1>8, <1>9, <3>1, <4>1
        <4>2. CASE h # b
          <5>1. h \in hosted /\ host'[h] = host[h]
            BY <1>2, <1>9, <4>2
          <5> QED BY <1>7, <3>1, <5>1 DEF EvidenceInv, ReportsInv
        <4> QED BY <4>1, <4>2
      <3> QED BY <3>1
    <2> QED BY <2>1, <2>2 DEF ReportsInv
  <1>11. GapIsAnnounced'
    <2> DEFINE Announces(e, r) ==
          /\ e.missing = r.missing
          /\ e.at <= r.at
          /\ \A h \in hosted' : e.at <= h /\ h < r.at =>
                                host'[h].missing = r.missing \/ h \in late'
    <2>1. ASSUME NEW r \in reports PROVE \E e \in gapEvents' : Announces(e, r)
      <3>1. PICK e \in gapEvents :
                   /\ e.missing = r.missing
                   /\ e.at <= r.at
                   /\ \A h \in hosted : e.at <= h /\ h < r.at =>
                                        host[h].missing = r.missing \/ h \in late
        BY <2>1 DEF EvidenceInv, GapIsAnnounced
      <3>2. r.at \in hosted
        BY <2>1 DEF EvidenceInv, ReportsInv
      <3>3. ASSUME NEW h \in hosted', e.at <= h, h < r.at
            PROVE  host'[h].missing = r.missing \/ h \in late'
        <4>1. CASE h = b
          BY <1>7, <3>2, <3>3, <4>1, <1>1, <1>2 DEF Second
        <4>2. CASE h # b
          BY <1>2, <1>7, <1>9, <3>1, <3>3, <4>2
        <4> QED BY <4>1, <4>2
      <3>4. Announces(e, r)
        BY <3>1, <3>3
      <3> HIDE DEF Announces
      <3> QED BY <1>4, <3>4
    <2>2. ASSUME missing # {} PROVE \E e \in gapEvents' : Announces(e, gap)
      <3>1. CASE missing # Previous(b, missing)
        <4>1. gap \in gapEvents'
          BY <1>4, <2>2, <3>1
        <4>2. Announces(gap, gap)
          BY <1>1, <1>2, <1>8 DEF Second
        <4> HIDE DEF Announces
        <4> QED BY <4>1, <4>2
      <3>2. CASE missing = Previous(b, missing)
        <4> DEFINE earlier == {h \in hosted : h < b}
                   g == Max(earlier)
        <4>1. earlier # {} /\ missing = host[g].missing
          BY <2>2, <3>2 DEF Previous
        <4>2. g \in hosted /\ g < b /\ \A h \in earlier : h <= g
          <5>1. g \in earlier /\ \A h \in earlier : h <= g
            BY <1>2, <4>1, MaxSecond
          <5> HIDE DEF g
          <5> QED BY <5>1
        <4>3. \A h \in hosted : h < b => h <= g
          BY <4>2
        <4> HIDE DEF g, earlier
        <4> DEFINE last == [at |-> g, missing |-> missing]
        <4>4. last \in reports /\ last.at = g /\ last.missing = missing
          BY <2>2, <4>1, <4>2 DEF EvidenceInv, ReportsInv
        <4> HIDE DEF last
        <4>5. PICK e \in gapEvents :
                     /\ e.missing = missing
                     /\ e.at <= g
                     /\ \A h \in hosted : e.at <= h /\ h < g =>
                                          host[h].missing = missing \/ h \in late
          BY <4>4 DEF EvidenceInv, GapIsAnnounced
        <4>6. e.at \in Nat /\ g \in Nat /\ b \in Nat
          BY <1>1, <1>2, <4>2, SecondNat DEF HostTypeOK, Gap
        <4>7. e.at <= b
          BY <4>2, <4>5, <4>6
        <4>8. ASSUME NEW h \in hosted', e.at <= h, h < b
              PROVE  host'[h].missing = missing \/ h \in late'
          <5>1. h \in hosted /\ h \in Nat /\ h # b /\ host'[h] = host[h]
            BY <1>1, <1>2, <1>9, <4>6, <4>8, SecondNat
          <5>2. CASE h = g
            BY <4>1, <5>1, <5>2
          <5>3. CASE h < g
            BY <1>7, <4>5, <4>8, <5>1, <5>3
          <5>4. h = g \/ h < g
            BY <4>3, <4>6, <4>8, <5>1
          <5> QED BY <5>2, <5>3, <5>4
        <4>9. Announces(e, gap)
          BY <1>8, <4>5, <4>7, <4>8
        <4> HIDE DEF Announces
        <4> QED BY <1>4, <4>9
      <3> QED BY <3>1, <3>2
    <2>3. \A r \in reports' : \E e \in gapEvents' : Announces(e, r)
      <3> HIDE DEF Announces
      <3> QED BY <1>7, <2>1, <2>2
    <2> QED BY <2>3 DEF GapIsAnnounced
  <1>12. \A h \in hosted' : host'[h].ok => \E t \in observed' : h <= t
    BY <1>1, <1>2, <1>5, <1>9 DEF EvidenceInv
  <1> QED BY <1>10, <1>11, <1>12 DEF EvidenceInv

\* What the traffic tables hold after an observation.
LEMMA BaseRecorded ==
  ASSUME TypeOK, BaseInv, NEW bytes \in Nat, NEW ok \in BOOLEAN, Insert(bytes, ok),
         \/ ok /\ hasBase' = TRUE /\ base'.at = now /\ (hasBase => now >= base.at)
         \/ ~ok /\ UNCHANGED <<hasBase, base>>
  PROVE  BaseInv'
  <1> DEFINE b == Bucket(now)
  <1>1. b \in Second /\ now \in Second /\ b <= now /\ sampled \subseteq Second
    BY BucketTyped DEF TypeOK
  <1>2. sampled' = sampled \cup {b}
    BY DEF Insert
  <1>3. sample' = [sample EXCEPT ![b] = Merge(@, [bytes |-> bytes, ok |-> ok])]
    BY DEF Insert
  <1> HIDE DEF b
  <1>4. /\ \A m \in Second \ {b} : sample'[m] = sample[m]
        /\ sample'[b].ok => ok
    BY <1>1, <1>3 DEF Merge, TypeOK
  <1>5. base.at \in Second
    BY DEF TypeOK
  <1> QED BY <1>1, <1>2, <1>4, <1>5, HostBoundAssumption DEF BaseInv, Second

EvidenceAndBase == TypeInv /\ EvidenceInv /\ BaseInv

LEMMA EvidenceStarts == Init => EvidenceAndBase
  BY TypesStart
     DEF Init, HostInit, EvidenceAndBase, EvidenceInv, ReportsInv, GapIsAnnounced, BaseInv

LEMMA EvidenceStep == EvidenceAndBase /\ [Next]_vars => EvidenceAndBase'
  <1> SUFFICES ASSUME EvidenceAndBase, [Next]_vars PROVE EvidenceAndBase'
    OBVIOUS
  <1>1. TypeInv'
    BY TypesStep DEF EvidenceAndBase
  <1>2. EvidenceInv'
    <2>1. CASE UNCHANGED hostTables
      BY <2>1 DEF EvidenceAndBase, EvidenceInv, ReportsInv, GapIsAnnounced, hostTables
    <2>2. CASE \E missing \in Reading : RecordHostSnapshot(missing)
      BY <2>2, EvidenceRecorded DEF EvidenceAndBase, TypeInv
    <2> QED BY <2>1, <2>2
            DEF Next, vars, Carry, SetClock, Reboot, RecordSnapshot, RecordFailure,
                RecordsNothing, ObserveHost, EvaluateAlerts, Crash
  <1>3. BaseInv'
    <2>1. CASE UNCHANGED traffic
      BY <2>1 DEF EvidenceAndBase, BaseInv, traffic
    <2>2. CASE RecordSnapshot
      <3> DEFINE bytes == IF ~hasBase THEN 0
                          ELSE IF base.boot # boot THEN counter ELSE counter - base.value
      <3>1. bytes \in Nat /\ Insert(bytes, TRUE)
        BY <2>2, BilledTyped DEF RecordSnapshot, EvidenceAndBase
      <3>2. hasBase' = TRUE /\ base'.at = now /\ (hasBase => now >= base.at)
        BY <2>2 DEF RecordSnapshot
      <3> HIDE DEF bytes
      <3> QED BY <3>1, <3>2, BaseRecorded DEF EvidenceAndBase, TypeInv
    <2>3. CASE RecordFailure
      <3>1. Insert(0, FALSE) /\ UNCHANGED <<hasBase, base>>
        BY <2>3 DEF RecordFailure
      <3> QED BY <3>1, BaseRecorded DEF EvidenceAndBase, TypeInv
    <2> QED BY <2>1, <2>2, <2>3
            DEF Next, vars, Carry, SetClock, Reboot, RecordsNothing, ObserveHost,
                EvaluateAlerts, Crash
  <1> QED BY <1>1, <1>2, <1>3 DEF EvidenceAndBase

\* Every incomplete reading is announced: an event names the sources it missed,
\* and since that event the minutes missed the same ones.
THEOREM EveryGapIsAnnounced == Spec => []GapIsAnnounced
  <1>1. EvidenceAndBase => GapIsAnnounced
    BY DEF EvidenceAndBase, EvidenceInv
  <1> QED BY <1>1, EvidenceStarts, EvidenceStep, PTL DEF Spec

LEMMA HealthFollows == EvidenceAndBase => HealthIsTrue
  <1> SUFFICES ASSUME EvidenceAndBase PROVE HealthIsTrue
    OBVIOUS
  <1>1. /\ sampled \subseteq Second /\ hosted \subseteq Second /\ observed \subseteq Second
        /\ now \in Nat /\ base.at \in Nat
    BY HostBoundAssumption DEF EvidenceAndBase, TypeInv, TypeOK, HostTypeOK, Second
  <1>2. ASSUME Fresh(sampled), LatestComplete(sampled, sample)
        PROVE  hasBase /\ base.at > now - FreshSeconds
    <2>1. /\ Max(sampled) \in sampled /\ Max(sampled) > now - FreshSeconds
          /\ sample[Max(sampled)].ok
      BY <1>1, <1>2, MaxSecond DEF Fresh, LatestComplete
    <2>2. hasBase /\ Max(sampled) <= base.at
      BY <2>1 DEF EvidenceAndBase, BaseInv
    <2>3. Max(sampled) \in Nat
      BY <1>1, <2>1, SecondNat
    <2> QED BY <1>1, <2>1, <2>2, <2>3, AlertAssumption
  <1>3. ASSUME Fresh(hosted), LatestComplete(hosted, host)
        PROVE  Fresh(observed)
    <2>1. /\ Max(hosted) \in hosted /\ Max(hosted) > now - FreshSeconds
          /\ host[Max(hosted)].ok
      BY <1>1, <1>3, MaxSecond DEF Fresh, LatestComplete
    <2>2. PICK t \in observed : Max(hosted) <= t
      BY <2>1 DEF EvidenceAndBase, EvidenceInv
    <2>3. t <= Max(observed) /\ Max(observed) \in observed
      BY <1>1, <2>2, MaxSecond
    <2>4. t \in Nat /\ Max(hosted) \in Nat /\ Max(observed) \in Nat
      BY <1>1, <2>1, <2>2, <2>3, SecondNat
    <2>5. Max(observed) > now - FreshSeconds
      BY <1>1, <2>1, <2>2, <2>3, <2>4, AlertAssumption
    <2> QED BY <2>2, <2>5 DEF Fresh
  <1>4. /\ Health.trafficFresh = Fresh(sampled)
        /\ Health.statsAPI = LatestComplete(sampled, sample)
        /\ Health.systemFresh = Fresh(hosted)
        /\ Health.system = LatestComplete(hosted, host)
        /\ Health.vnstat = Fresh(observed)
    BY DEF Health
  <1> QED BY <1>2, <1>3, <1>4, Zenon DEF HealthIsTrue

\* What Health reports well is so in the other tables.
THEOREM HealthTellsTheTruth == Spec => []HealthIsTrue
  <1> QED BY HealthFollows, EvidenceStarts, EvidenceStep, PTL DEF Spec

-----------------------------------------------------------------------------
(* Alerts on volumes.  An alert that is active was raised by bytes that the  *)
(* rows from the start of its period on still hold, flagged or not.          *)

SampleBytes == [b \in Second |-> sample[b].bytes]
From(start) == {b \in sampled : b >= start}
BytesFrom(start) == SumFunctionOnSet(SampleBytes, From(start))

VolumeInv ==
  \A key \in active :
    /\ key.kind = "quota" => BytesFrom(key.start) >= QuotaBytes
    /\ key.kind = "user" => BytesFrom(key.start) >= UserBytesLimit

AlertInv == TypeInv /\ VolumeInv

LEMMA SampleBytesTyped ==
  ASSUME TypeOK
  PROVE  /\ \A b \in Second : SampleBytes[b] \in Nat
         /\ \A start : From(start) \subseteq Second /\ IsFiniteSet(From(start))
  BY SecondsFinite DEF TypeOK, Sample, SampleBytes, From

\* Rows only gain bytes.
LEMMA BytesFromGrow ==
  ASSUME TypeOK, TypeOK', NEW start,
         UNCHANGED <<sampled, sample>>
           \/ \E bytes \in Nat, ok \in BOOLEAN : Insert(bytes, ok)
  PROVE  BytesFrom(start)' >= BytesFrom(start) /\ BytesFrom(start) \in Nat
  <1>1. /\ \A b \in Second : SampleBytes[b] \in Nat /\ SampleBytes'[b] \in Nat
        /\ From(start) \subseteq Second /\ IsFiniteSet(From(start))
        /\ From(start)' \subseteq Second /\ IsFiniteSet(From(start)')
    <2>1. /\ \A b \in Second : SampleBytes'[b] \in Nat
          /\ From(start)' \subseteq Second
      BY DEF TypeOK, Sample, SampleBytes, From
    <2> QED BY <2>1, SampleBytesTyped, SecondsFinite
  <1>2. From(start) \subseteq From(start)'
    BY DEF Insert, From
  <1>3. \A b \in Second : SampleBytes[b] <= SampleBytes'[b]
    <2>1. CASE UNCHANGED sample
      BY <1>1, <2>1 DEF SampleBytes
    <2>2. ASSUME NEW bytes \in Nat, NEW ok \in BOOLEAN, Insert(bytes, ok)
          PROVE  \A b \in Second : SampleBytes[b] <= SampleBytes'[b]
      <3>1. sample' = [sample EXCEPT ![Bucket(now)] = Merge(@, [bytes |-> bytes, ok |-> ok])]
        BY <2>2 DEF Insert
      <3>2. ASSUME NEW b \in Second PROVE SampleBytes[b] <= SampleBytes'[b]
        <4>1. CASE b = Bucket(now)
          <5>1. sample'[b].bytes = sample[b].bytes + bytes
            BY <3>1, <4>1 DEF Merge, TypeOK
          <5>2. sample[b].bytes \in Nat
            BY DEF TypeOK, Sample
          <5> QED BY <5>1, <5>2 DEF SampleBytes
        <4>2. CASE b # Bucket(now)
          <5>1. sample'[b] = sample[b]
            BY <3>1, <4>2 DEF TypeOK
          <5> QED BY <1>1, <5>1 DEF SampleBytes
        <4> QED BY <4>1, <4>2
      <3> QED BY <3>2
    <2> QED BY <2>1, <2>2
  <1>4. SumFunctionOnSet(SampleBytes, From(start)) <= SumFunctionOnSet(SampleBytes', From(start))
    BY <1>1, <1>3, SumMonotone
  <1>5. SumFunctionOnSet(SampleBytes', From(start)) <= SumFunctionOnSet(SampleBytes', From(start)')
    BY <1>1, <1>2, SumSubset
  <1>6. /\ SumFunctionOnSet(SampleBytes, From(start)) \in Nat
        /\ SumFunctionOnSet(SampleBytes', From(start)) \in Nat
        /\ SumFunctionOnSet(SampleBytes', From(start)') \in Nat
    BY <1>1, SumType
  <1> QED BY <1>4, <1>5, <1>6 DEF BytesFrom

\* The user's bytes of a period up to now, beside all the rows hold from its
\* start on: they differ by rows that are incomplete or lie ahead.
LEMMA UserBytesOf ==
  ASSUME TypeOK, NEW start
  PROVE  /\ UserBytes(start, now + 1) <= BytesFrom(start)
         /\ UserBytes(start, now + 1) \in Nat /\ BytesFrom(start) \in Nat
         /\ (\A b \in From(start) : sample[b].bytes = 0 \/ (sample[b].ok /\ b <= now)) =>
              UserBytes(start, now + 1) = BytesFrom(start)
  <1> DEFINE C == Complete(start, now + 1)
             rest == From(start) \ C
  <1>1. /\ C \subseteq From(start) /\ rest \subseteq From(start)
        /\ From(start) = C \cup rest /\ C \cap rest = {}
    <2>1. \A b \in sampled : start <= b <=> b >= start
      BY DEF TypeOK
    <2> QED BY <2>1 DEF Complete, From
  <1>2. UserBytes(start, now + 1) = SumFunctionOnSet(SampleBytes, C)
    BY DEF UserBytes, SampleBytes
  <1>3. /\ \A b \in Second : SampleBytes[b] \in Nat
        /\ From(start) \subseteq Second /\ IsFiniteSet(From(start))
    BY SampleBytesTyped
  <1>4. ASSUME \A b \in From(start) : sample[b].bytes = 0 \/ (sample[b].ok /\ b <= now)
        PROVE  \A b \in rest : SampleBytes[b] = 0
    <2>1. SUFFICES ASSUME NEW b \in rest PROVE sample[b].bytes = 0
      BY <1>3 DEF SampleBytes
    <2>2. b \in Nat /\ now \in Nat /\ b \in sampled /\ start <= b
      <3>1. b \in sampled /\ b \in Second /\ b >= start
        BY <1>1, <1>3 DEF From
      <3>2. now \in Second
        BY DEF TypeOK
      <3> QED BY <3>1, <3>2, SecondNat
    <2>3. ~(sample[b].ok /\ b < now + 1)
      BY <2>1, <2>2 DEF Complete
    <2> QED BY <1>1, <1>4, <2>2, <2>3
  <1> HIDE DEF C, rest
  <1>5. IsFiniteSet(C) /\ IsFiniteSet(rest)
    BY <1>1, <1>3, FS_Subset
  <1>6. /\ \A b \in From(start) : SampleBytes[b] \in Nat
        /\ \A b \in C \cup rest : SampleBytes[b] \in Nat
        /\ \A b \in C : SampleBytes[b] \in Nat
    BY <1>1, <1>3
  <1>7. /\ SumFunctionOnSet(SampleBytes, C) \in Nat
        /\ SumFunctionOnSet(SampleBytes, From(start)) \in Nat
    BY <1>3, <1>5, <1>6, SumType
  <1>8. SumFunctionOnSet(SampleBytes, C) <= SumFunctionOnSet(SampleBytes, From(start))
    BY <1>1, <1>3, <1>6, SumSubset
  <1>9. SumFunctionOnSet(SampleBytes, From(start)) =
          SumFunctionOnSet(SampleBytes, C) + SumFunctionOnSet(SampleBytes, rest)
    BY <1>1, <1>5, <1>6, SumUnion
  <1>10. (\A b \in rest : SampleBytes[b] = 0) => SumFunctionOnSet(SampleBytes, rest) = 0
    BY <1>5, SumZero
  <1> QED BY <1>2, <1>4, <1>7, <1>8, <1>9, <1>10 DEF BytesFrom

LEMMA VolumeChecks ==
  /\ QuotaCheck.key = Key("quota", Cycle) /\ UserCheck.key = Key("user", Hour)
  /\ QuotaCheck.holds <=> UserBytes(Cycle, now + 1) >= QuotaBytes
  /\ UserCheck.holds <=> UserBytes(Hour, now + 1) >= UserBytesLimit
  BY DEF QuotaCheck, UserCheck

LEMMA KeyFields == \A kind, start : Key(kind, start).kind = kind /\ Key(kind, start).start = start
  BY DEF Key

\* A check on a volume is one of the two.
LEMMA VolumeCheck ==
  ASSUME NEW i \in 1 .. Len(Checks)
  PROVE  /\ Checks[i].key.kind = "quota" => Checks[i] = QuotaCheck
         /\ Checks[i].key.kind = "user" => Checks[i] = UserCheck
  BY ChecksMade, VolumeChecks, KeyFields

LEMMA AlertsStart == Init => AlertInv
  BY TypesStart DEF Init, AlertInv, VolumeInv

LEMMA AlertsStep == AlertInv /\ [Next]_vars => AlertInv'
  <1> SUFFICES ASSUME AlertInv, [Next]_vars PROVE AlertInv'
    OBVIOUS
  <1>1. TypeInv /\ TypeInv' /\ TypeOK /\ TypeOK'
    BY TypesStep DEF AlertInv, TypeInv
  <1>2. CASE UNCHANGED active
    <2>1. UNCHANGED <<sampled, sample>>
            \/ \E bytes \in Nat, ok \in BOOLEAN : Insert(bytes, ok)
      <3>1. CASE RecordSnapshot
        <4> DEFINE bytes == IF ~hasBase THEN 0
                            ELSE IF base.boot # boot THEN counter ELSE counter - base.value
        <4>1. bytes \in Nat /\ Insert(bytes, TRUE)
          BY <1>1, <3>1, BilledTyped DEF RecordSnapshot
        <4> HIDE DEF bytes
        <4> QED BY <4>1
      <3>2. CASE RecordFailure
        <4>1. Insert(0, FALSE)
          BY <3>2 DEF RecordFailure
        <4> QED BY <4>1
      <3> QED BY <3>1, <3>2
              DEF Next, vars, traffic, Carry, SetClock, Reboot, RecordsNothing, ObserveHost,
                  EvaluateAlerts, Crash
    <2>2. \A start : BytesFrom(start)' >= BytesFrom(start) /\ BytesFrom(start) \in Nat
                     /\ BytesFrom(start)' \in Nat
      <3>1. \A start : BytesFrom(start)' >= BytesFrom(start) /\ BytesFrom(start) \in Nat
        BY <1>1, <2>1, BytesFromGrow
      <3>2. \A start : BytesFrom(start)' \in Nat
        <4>1. /\ \A b \in Second : SampleBytes'[b] \in Nat
              /\ \A start : From(start)' \subseteq Second /\ IsFiniteSet(From(start)')
          BY <1>1, SecondsFinite DEF TypeOK, Sample, SampleBytes, From
        <4>2. \A start : SumFunctionOnSet(SampleBytes', From(start)') \in Nat
          BY <4>1, SumType
        <4> QED BY <4>2 DEF BytesFrom
      <3> QED BY <3>1, <3>2
    <2>3. ASSUME NEW key \in active'
          PROVE  /\ key.kind = "quota" => BytesFrom(key.start)' >= QuotaBytes
                 /\ key.kind = "user" => BytesFrom(key.start)' >= UserBytesLimit
      BY <1>2, <2>2, AlertAssumption DEF AlertInv, VolumeInv
    <2> QED BY <1>1, <2>3 DEF AlertInv, VolumeInv
  <1>3. CASE EvaluateAlerts
    <2>1. PICK n \in 0 .. Len(Checks) : setAlerts({Checks[i] : i \in 1 .. n})
      BY <1>3 DEF EvaluateAlerts
    <2>2. \A start : BytesFrom(start)' = BytesFrom(start)
      BY <1>3 DEF EvaluateAlerts, traffic, BytesFrom, SampleBytes, From
    <2>3. ASSUME NEW key \in active'
          PROVE  /\ key.kind = "quota" => BytesFrom(key.start) >= QuotaBytes
                 /\ key.kind = "user" => BytesFrom(key.start) >= UserBytesLimit
      <3>1. CASE key \in active
        BY <3>1 DEF AlertInv, VolumeInv
      <3>2. CASE key \notin active
        <4>1. PICK i \in 1 .. n : key = Checks[i].key /\ Checks[i].holds
          BY <2>1, <2>3, <3>2 DEF setAlerts
        <4>2. i \in 1 .. Len(Checks)
          BY <2>1, <4>1
        <4>3. CASE key.kind = "quota"
          <5>1. Checks[i] = QuotaCheck
            BY <4>1, <4>2, <4>3, VolumeCheck
          <5>2. key.start = Cycle /\ UserBytes(Cycle, now + 1) >= QuotaBytes
            BY <4>1, <5>1, VolumeChecks, KeyFields
          <5> QED BY <1>1, <4>3, <5>2, UserBytesOf, AlertAssumption
        <4>4. CASE key.kind = "user"
          <5>1. Checks[i] = UserCheck
            BY <4>1, <4>2, <4>4, VolumeCheck
          <5>2. key.start = Hour /\ UserBytes(Hour, now + 1) >= UserBytesLimit
            BY <4>1, <5>1, VolumeChecks, KeyFields
          <5> QED BY <1>1, <4>4, <5>2, UserBytesOf, AlertAssumption
        <4> QED BY <4>3, <4>4
      <3> QED BY <3>1, <3>2
    <2> QED BY <1>1, <2>2, <2>3 DEF AlertInv, VolumeInv
  <1> QED BY <1>2, <1>3
          DEF Next, vars, Carry, SetClock, Reboot, RecordSnapshot, RecordFailure,
              RecordsNothing, ObserveHost, Crash

\* A step that clears an alert on a volume.
LEMMA ClearedBy ==
  ASSUME AlertInv, [Next]_vars, NEW key \in active \ active', key.kind \in {"quota", "user"}
  PROVE  \E b \in sampled : /\ key.start <= b
                           /\ sample[b].bytes > 0
                           /\ (~sample[b].ok \/ b > now)
  <1>1. TypeOK /\ key \in active
    BY DEF AlertInv, TypeInv
  <1>2. PICK n \in 0 .. Len(Checks) : setAlerts({Checks[i] : i \in 1 .. n})
    BY DEF Next, vars, Carry, SetClock, Reboot, RecordSnapshot, RecordFailure,
           RecordsNothing, ObserveHost, Crash, EvaluateAlerts
  <1>3. PICK i \in 1 .. n : key = Checks[i].key /\ ~Checks[i].holds
    BY <1>2 DEF setAlerts
  <1>4. i \in 1 .. Len(Checks)
    BY <1>2, <1>3
  <1>5. UserBytes(key.start, now + 1) # BytesFrom(key.start)
    <2>1. CASE key.kind = "quota"
      <3>1. Checks[i] = QuotaCheck
        BY <1>3, <1>4, <2>1, VolumeCheck
      <3>2. key.start = Cycle /\ ~(UserBytes(Cycle, now + 1) >= QuotaBytes)
        BY <1>3, <3>1, VolumeChecks, KeyFields
      <3>3. BytesFrom(key.start) >= QuotaBytes
        BY <2>1 DEF AlertInv, VolumeInv
      <3> QED BY <3>2, <3>3
    <2>2. CASE key.kind = "user"
      <3>1. Checks[i] = UserCheck
        BY <1>3, <1>4, <2>2, VolumeCheck
      <3>2. key.start = Hour /\ ~(UserBytes(Hour, now + 1) >= UserBytesLimit)
        BY <1>3, <3>1, VolumeChecks, KeyFields
      <3>3. BytesFrom(key.start) >= UserBytesLimit
        BY <2>2 DEF AlertInv, VolumeInv
      <3> QED BY <3>2, <3>3
    <2> QED BY <2>1, <2>2
  <1>6. PICK b \in From(key.start) : ~(sample[b].bytes = 0 \/ (sample[b].ok /\ b <= now))
    BY <1>1, <1>5, UserBytesOf
  <1>7. /\ b \in sampled /\ b \in Nat /\ now \in Nat /\ key.start \in Nat /\ b >= key.start
        /\ sample[b].bytes \in Nat
    <2>1. b \in sampled /\ b \in Second /\ now \in Second /\ key.start \in Second
          /\ b >= key.start
      BY <1>1, <1>6 DEF TypeOK, From, AlertKey
    <2>2. sample[b].bytes \in Nat
      BY <1>1, <2>1 DEF TypeOK, Sample
    <2> QED BY <2>1, <2>2, SecondNat
  <1> QED BY <1>6, <1>7

\* An alert on a volume that was raised is cleared in its period only when a
\* gap withdrew bytes, or the clock stands before a minute that was counted.
THEOREM VolumeAlertsStay == Spec => VolumeAlertStays
  <1>1. AlertInv /\ [Next]_vars =>
          [\A key \in active \ active' :
             key.kind \in {"quota", "user"} =>
               \E b \in sampled : /\ key.start <= b
                                 /\ sample[b].bytes > 0
                                 /\ (~sample[b].ok \/ b > now)]_vars
    BY ClearedBy
  <1> QED BY <1>1, AlertsStart, AlertsStep, PTL DEF Spec, VolumeAlertStays
=============================================================================
