---------------------------- MODULE SampleProofs ----------------------------
(* Theorems about the rows TrafficAccounting writes: what they add up to,    *)
(* what explains their flags, and what no later write may do to them.        *)
EXTENDS TrafficAccountingProofs, FiniteSums

-----------------------------------------------------------------------------
(* One write *)

\* A key without a row holds the neutral value.
NeutralRows == \A k \in Key \ sampled : sample[k] = NeutralSample

RowsOf(c) == {k \in sampled : k[2] = c}
BytesOf(d) == [k \in Key |-> sample[k].bytes[d]]

LEMMA RowsFinite ==
  ASSUME NEW c, NEW S \in SUBSET Key, \A k \in S : k[2] = c PROVE IsFiniteSet(S)
  <1>1. IsFiniteSet(Time)
    BY FS_Interval, BoundAssumption DEF Time
  <1>2. IsFiniteSet(Time \X {c})
    BY <1>1, FS_Singleton, FS_Product
  <1>3. S \subseteq Time \X {c}
    BY DEF Key
  <1> QED BY <1>2, <1>3, FS_Subset

LEMMA BytesTyped ==
  ASSUME sample \in [Key -> Sample], NEW d \in Direction
  PROVE  \A k \in Key : BytesOf(d)[k] \in Nat
  BY DEF Sample, Bytes, BytesOf

\* A write adds its bytes to what the credential's rows add up to.
LEMMA WriteAdds ==
  ASSUME TypeOK, NeutralRows, NEW t \in Time, NEW C \in SUBSET Credential,
         NEW new \in [C -> Sample], insertTrafficSamples(t, C, new),
         NEW c \in Credential, NEW d \in Direction
  PROVE  SampleTotal(c, d)' = SampleTotal(c, d) + IF c \in C THEN new[c].bytes[d] ELSE 0
  <1> DEFINE k0 == <<Bucket(t), c>>
             f == BytesOf(d)
             g == BytesOf(d)'
  <1>1. k0 \in Key /\ k0[1] = Bucket(t) /\ k0[2] = c
    BY BucketInTime DEF Key
  <1>2. sample \in [Key -> Sample] /\ sample' \in [Key -> Sample] /\ sampled' \subseteq Key
        /\ sampled \subseteq Key
    BY SamplesTyped DEF TypeOK
  <1>3. \A k \in Key : f[k] \in Nat /\ g[k] \in Nat
    BY <1>2, BytesTyped DEF Sample, Bytes, BytesOf
  <1>4. IsFiniteSet(RowsOf(c)) /\ RowsOf(c) \subseteq Key /\ RowsOf(c)' \subseteq Key
    BY <1>2, RowsFinite DEF RowsOf
  <1>5. SampleTotal(c, d) = SumFunctionOnSet(f, RowsOf(c))
        /\ SampleTotal(c, d)' = SumFunctionOnSet(g, RowsOf(c)')
    BY DEF SampleTotal, BytesOf, RowsOf
  <1>6. \A k \in Key : k[2] = c /\ k[1] = Bucket(t) => k = k0
    BY <1>1 DEF Key
  <1>7. SumFunctionOnSet(f, RowsOf(c)) \in Nat
    BY <1>3, <1>4, SumType
  <1>8. CASE c \in C
    <2>1. RowsOf(c)' = RowsOf(c) \cup {k0}
      <3>1. sampled' = sampled \cup ({Bucket(t)} \X C)
        BY DEF insertTrafficSamples
      <3>2. ASSUME NEW k PROVE k \in RowsOf(c)' <=> k \in RowsOf(c) \cup {k0}
        BY <1>1, <1>2, <1>6, <1>8, <3>1 DEF RowsOf
      <3> QED BY <3>2
    <2>2. \A k \in RowsOf(c) \ {k0} : f[k] = g[k]
      BY <1>2, <1>6 DEF RowsOf, BytesOf, insertTrafficSamples
    <2>3. sample'[k0] = Merge(sample[k0], new[c])
      BY <1>1, <1>8 DEF insertTrafficSamples
    <2>4. g[k0] = f[k0] + new[c].bytes[d]
      BY <1>1, <2>3 DEF BytesOf, Merge, Add
    <2>5. new[c].bytes[d] \in Nat
      BY <1>8 DEF Sample, Bytes
    <2>6. k0 \notin RowsOf(c) => f[k0] = 0
      BY <1>1 DEF RowsOf, NeutralRows, NeutralSample, Zero, BytesOf
    <2> HIDE DEF k0, f, g
    <2>7. SumFunctionOnSet(g, RowsOf(c) \cup {k0})
            = SumFunctionOnSet(f, RowsOf(c)) + (g[k0] - f[k0])
      BY <1>1, <1>3, <1>4, <2>2, <2>6, SumWritten
    <2>8. f[k0] \in Nat
      BY <1>1, <1>3
    <2>9. g[k0] - f[k0] = new[c].bytes[d]
      BY <2>4, <2>5, <2>8
    <2> QED BY <1>5, <1>8, <2>1, <2>7, <2>9
  <1>9. CASE c \notin C
    <2>1. RowsOf(c)' = RowsOf(c)
      <3>1. sampled' = sampled \cup ({Bucket(t)} \X C)
        BY DEF insertTrafficSamples
      <3> QED BY <1>9, <3>1 DEF RowsOf
    <2>2. \A k \in RowsOf(c) : f[k] = g[k]
      BY <1>2, <1>9 DEF RowsOf, BytesOf, insertTrafficSamples
    <2> HIDE DEF f, g
    <2>3. SumFunctionOnSet(f, RowsOf(c)) = SumFunctionOnSet(g, RowsOf(c))
      BY <1>3, <1>4, <2>2, SumSame
    <2> QED BY <1>5, <1>7, <1>9, <2>1, <2>3
  <1> QED BY <1>8, <1>9

\* A write leaves no value without a row.
LEMMA WriteKeepsNeutral ==
  ASSUME TypeOK, NeutralRows, NEW t \in Time, NEW C \in SUBSET Credential,
         NEW new \in [C -> Sample], insertTrafficSamples(t, C, new)
  PROVE  NeutralRows'
  <1>1. SUFFICES ASSUME NEW k \in Key, k \notin sampled' PROVE sample'[k] = NeutralSample
    BY DEF NeutralRows
  <1>2. k \notin sampled /\ ~(k[1] = Bucket(t) /\ k[2] \in C)
    BY <1>1 DEF insertTrafficSamples, Key
  <1> QED BY <1>2 DEF insertTrafficSamples, NeutralRows

\* The events that explain a row's flags.
Explained(E, k, value) ==
  /\ ~value.ok =>
       \E e \in E : Bucket(e.at) = k[1] /\ e.credential \in {k[2], "node"}
  /\ value.reset =>
       \E e \in E : /\ Bucket(e.at) = k[1]
                    /\ e.credential = k[2]
                    /\ e.category = "counter_reset"

LEMMA FlagsExplained == EveryFlagExplained <=> \A k \in sampled : Explained(events, k, sample[k])
  BY DEF EveryFlagExplained, Explained

LEMMA MergeParts ==
  ASSUME NEW old, NEW new
  PROVE  /\ Merge(old, new).bytes = Add(old.bytes, new.bytes)
         /\ Merge(old, new).ok <=> old.ok /\ new.ok
         /\ Merge(old, new).reset <=> old.reset \/ new.reset
  BY DEF Merge

\* A row whose flags were explained, merged with an observation whose flags are.
LEMMA MergeExplained ==
  ASSUME NEW E, NEW k, NEW old, NEW new, Explained(E, k, old), Explained(E, k, new)
  PROVE  Explained(E, k, Merge(old, new))
  BY MergeParts DEF Explained

\* A write of rows that events of the same minute explain.
LEMMA WriteExplained ==
  ASSUME TypeOK, NeutralRows, EveryFlagExplained,
         NEW t \in Time, NEW C \in SUBSET Credential,
         NEW new \in [C -> Sample], insertTrafficSamples(t, C, new),
         events \subseteq events',
         \A c \in C : Explained(events', <<Bucket(t), c>>, new[c])
  PROVE  EveryFlagExplained'
  <1>1. SUFFICES ASSUME NEW k \in sampled' PROVE Explained(events', k, sample'[k])
    <2>1. EveryFlagExplained' <=> \A k \in sampled' : Explained(events', k, sample'[k])
      BY DEF EveryFlagExplained, Explained
    <2> QED BY <2>1
  <1>2. k \in Key
    BY SamplesTyped
  <1>3. Explained(events', k, sample[k])
    <2>1. CASE k \in sampled
      <3>1. Explained(events, k, sample[k])
        BY <2>1, FlagsExplained
      <3> QED BY <3>1 DEF Explained
    <2>2. CASE k \notin sampled
      <3>1. sample[k].ok = TRUE /\ sample[k].reset = FALSE
        BY <1>2, <2>2 DEF NeutralRows, NeutralSample
      <3> QED BY <3>1 DEF Explained
    <2> QED BY <2>1, <2>2
  <1>4. CASE k[1] = Bucket(t) /\ k[2] \in C
    <2>1. sample'[k] = Merge(sample[k], new[k[2]])
      BY <1>2, <1>4 DEF insertTrafficSamples
    <2>2. k = <<Bucket(t), k[2]>>
      BY <1>2, <1>4 DEF Key
    <2>3. Explained(events', k, new[k[2]])
      BY <1>4, <2>2
    <2> QED BY <1>3, <2>1, <2>3, MergeExplained
  <1>5. CASE ~(k[1] = Bucket(t) /\ k[2] \in C)
    <2>1. sample'[k] = sample[k]
      BY <1>2, <1>5 DEF insertTrafficSamples
    <2> QED BY <1>3, <2>1
  <1> QED BY <1>4, <1>5

\* The events of a snapshot explain the rows it leaves.
LEMMA SnapshotExplained ==
  ASSUME NEW s, NEW c \in listEnabledCredentials
  PROVE  Explained(SnapshotEvents(s), <<Bucket(s.at), c>>, Outcome(c, s))
  <1> DEFINE k == <<Bucket(s.at), c>>
  <1>1. k[1] = Bucket(s.at) /\ k[2] = c
    OBVIOUS
  <1>2. CASE c \in s.mapped
    <2>1. ~Outcome(c, s).ok => Outcome(c, s).reset
      BY <1>2 DEF Outcome, calculateDelta, NeutralSample
    <2>2. ASSUME Outcome(c, s).reset
          PROVE  \E e \in SnapshotEvents(s) : /\ Bucket(e.at) = k[1]
                                              /\ e.credential = k[2]
                                              /\ e.category = "counter_reset"
      <3> DEFINE e == [category |-> "counter_reset", credential |-> c, at |-> s.at]
      <3>1. c \in {x \in listEnabledCredentials \cap s.mapped : Outcome(x, s).reset}
        BY <1>2, <2>2
      <3>2. e \in SnapshotEvents(s)
        BY <3>1 DEF SnapshotEvents
      <3> QED BY <1>1, <3>2
    <2> HIDE DEF k
    <2> QED BY <1>1, <2>1, <2>2 DEF Explained
  <1>3. CASE c \notin s.mapped
    <2>1. Outcome(c, s).ok = FALSE /\ Outcome(c, s).reset = FALSE
      BY <1>3 DEF Outcome, Gap
    <2> DEFINE e == [category |-> "missing_counter", credential |-> c, at |-> s.at]
    <2>2. e \in SnapshotEvents(s)
      BY <1>3 DEF SnapshotEvents
    <2>3. Bucket(e.at) = k[1] /\ e.credential = k[2]
      BY <1>1
    <2> HIDE DEF e, k
    <2> QED BY <1>1, <2>1, <2>2, <2>3 DEF Explained
  <1> QED BY <1>2, <1>3

-----------------------------------------------------------------------------
(* Every step *)

SampleInv == TypeOK /\ NeutralRows /\ SamplesHoldEveryDelta /\ EveryFlagExplained

LEMMA SamplesStart == Init => SampleInv
  <1> SUFFICES ASSUME Init PROVE SampleInv
    OBVIOUS
  <1>1. SamplesHoldEveryDelta
    <2>1. ASSUME NEW c \in Credential, NEW d \in Direction PROVE SampleTotal(c, d) = billed[c][d]
      <3>1. {k \in sampled : k[2] = c} = {}
        BY DEF Init
      <3>2. SampleTotal(c, d) = 0
        BY <3>1, SumEmpty DEF SampleTotal
      <3>3. billed[c][d] = 0
        BY DEF Init, Zero
      <3> QED BY <3>2, <3>3
    <2> QED BY <2>1 DEF SamplesHoldEveryDelta
  <1>2. NeutralRows /\ EveryFlagExplained
    BY DEF Init, NeutralRows, EveryFlagExplained
  <1> QED BY <1>1, <1>2, InitTyped DEF SampleInv

\* Steps that write no row.
LEMMA SamplesStay ==
  ASSUME SampleInv, UNCHANGED <<sampled, sample, events, billed>>
  PROVE  NeutralRows' /\ SamplesHoldEveryDelta' /\ EveryFlagExplained'
  <1>1. \A c, d : SampleTotal(c, d)' = SampleTotal(c, d)
    BY DEF SampleTotal
  <1> QED BY <1>1 DEF SampleInv, NeutralRows, SamplesHoldEveryDelta, EveryFlagExplained

LEMMA SnapshotWrites ==
  ASSUME SampleInv, NEW p \in Collector, RecordSnapshot(p)
  PROVE  NeutralRows' /\ SamplesHoldEveryDelta' /\ EveryFlagExplained'
  <1> DEFINE s == snap[p]
             C == listEnabledCredentials
             seen == C \cap s.mapped
             new == [c \in C |-> Outcome(c, s)]
  <1>1. s \in Snapshot /\ s.at \in Time /\ C \in SUBSET Credential /\ TypeOK /\ NeutralRows
    BY DEF SampleInv, TypeOK, Snapshot, listEnabledCredentials
  <1>2. new \in [C -> Sample] /\ \A c \in Credential : Outcome(c, s) \in Sample
    BY <1>1, OutcomeTyped
  <1>3. insertTrafficSamples(s.at, C, new)
    BY DEF RecordSnapshot
  <1>4. billed' = [c \in Credential |->
                     IF c \in seen THEN Add(billed[c], Outcome(c, s).bytes) ELSE billed[c]]
    BY DEF RecordSnapshot
  <1>5. events' = events \cup SnapshotEvents(s)
    BY DEF RecordSnapshot
  <1>6. \A c \in C : new[c] = Outcome(c, s)
    OBVIOUS
  <1>7. \A c \in C \ seen : Outcome(c, s) = Gap
    BY DEF Outcome
  <1> HIDE DEF C, s, new
  <1>8. NeutralRows'
    BY <1>1, <1>2, <1>3, WriteKeepsNeutral
  <1>9. /\ s.at \in Time /\ C \in SUBSET Credential /\ new \in [C -> Sample]
        /\ TypeOK /\ NeutralRows
    BY <1>1, <1>2
  <1>10. SamplesHoldEveryDelta'
    <2>1. ASSUME NEW c \in Credential, NEW d \in Direction
          PROVE  SampleTotal(c, d)' = billed'[c][d]
      <3>1. SampleTotal(c, d)' = SampleTotal(c, d) + IF c \in C THEN new[c].bytes[d] ELSE 0
        BY <1>3, <1>9, WriteAdds
      <3>2. SampleTotal(c, d) = billed[c][d] /\ billed[c][d] \in Nat
        BY <1>1 DEF SampleInv, SamplesHoldEveryDelta, TypeOK, Bytes
      <3>3. CASE c \in seen
        <4>1. billed'[c][d] = billed[c][d] + Outcome(c, s).bytes[d]
          BY <1>4, <3>3 DEF Add
        <4> QED BY <1>6, <3>1, <3>2, <3>3, <4>1
      <3>4. CASE c \in C \ seen
        <4>1. new[c].bytes[d] = 0
          BY <1>6, <1>7, <3>4 DEF Gap, Zero
        <4>2. billed'[c][d] = billed[c][d]
          BY <1>4, <3>4
        <4> QED BY <3>1, <3>2, <3>4, <4>1, <4>2
      <3>5. CASE c \notin C
        <4>1. billed'[c][d] = billed[c][d]
          BY <1>4, <3>5
        <4> QED BY <3>1, <3>2, <3>5, <4>1
      <3> QED BY <3>3, <3>4, <3>5
    <2> QED BY <2>1 DEF SamplesHoldEveryDelta
  <1>11. EveryFlagExplained'
    <2>1. \A c \in C : Explained(events', <<Bucket(s.at), c>>, new[c])
      <3>1. ASSUME NEW c \in C PROVE Explained(events', <<Bucket(s.at), c>>, new[c])
        <4>1. Explained(SnapshotEvents(s), <<Bucket(s.at), c>>, new[c])
          BY <1>6, SnapshotExplained DEF C
        <4> QED BY <1>5, <4>1 DEF Explained
      <3> QED BY <3>1
    <2>2. events \subseteq events' /\ EveryFlagExplained
      BY <1>5 DEF SampleInv
    <2> QED BY <1>1, <1>2, <1>3, <2>1, <2>2, WriteExplained
  <1> QED BY <1>8, <1>10, <1>11

LEMMA FailureWrites ==
  ASSUME SampleInv, NEW p \in Collector, RecordFailure(p)
  PROVE  NeutralRows' /\ SamplesHoldEveryDelta' /\ EveryFlagExplained'
  <1> DEFINE C == listEnabledCredentials
             new == [c \in C |-> Gap]
             e == [category |-> "collection_failed", credential |-> "node", at |-> clock]
  <1>1. clock \in Time /\ C \in SUBSET Credential /\ TypeOK /\ NeutralRows
    BY DEF SampleInv, TypeOK, listEnabledCredentials
  <1>2. new \in [C -> Sample]
    BY DefaultsTyped
  <1>3. insertTrafficSamples(clock, C, new)
    BY DEF RecordFailure
  <1>4. UNCHANGED billed /\ events' = events \cup {e}
    BY DEF RecordFailure, ledgerVars
  <1>5. \A c \in C : new[c] = Gap
    OBVIOUS
  <1>6. e.credential = "node" /\ e.at = clock
    OBVIOUS
  <1> HIDE DEF C, new, e
  <1>7. NeutralRows'
    BY <1>1, <1>2, <1>3, WriteKeepsNeutral
  <1>8. SamplesHoldEveryDelta'
    <2>1. ASSUME NEW c \in Credential, NEW d \in Direction
          PROVE  SampleTotal(c, d)' = billed'[c][d]
      <3>1. SampleTotal(c, d)' = SampleTotal(c, d) + IF c \in C THEN new[c].bytes[d] ELSE 0
        BY <1>1, <1>2, <1>3, WriteAdds
      <3>2. SampleTotal(c, d) = billed[c][d] /\ billed[c][d] \in Nat
        BY <1>1 DEF SampleInv, SamplesHoldEveryDelta, TypeOK, Bytes
      <3>3. c \in C => new[c].bytes[d] = 0
        BY <1>5 DEF Gap, Zero
      <3> QED BY <1>4, <3>1, <3>2, <3>3
    <2> QED BY <2>1 DEF SamplesHoldEveryDelta
  <1>9. EveryFlagExplained'
    <2>1. \A c \in C : Explained(events', <<Bucket(clock), c>>, new[c])
      BY <1>4, <1>5, <1>6 DEF Explained, Gap
    <2>2. events \subseteq events' /\ EveryFlagExplained
      BY <1>4 DEF SampleInv
    <2> QED BY <1>1, <1>2, <1>3, <2>1, <2>2, WriteExplained
  <1> QED BY <1>7, <1>8, <1>9

\* All other steps leave the rows, the events and the bills alone.
LEMMA OthersWriteNothing ==
  ASSUME [Next]_vars, \A p \in Collector : ~RecordSnapshot(p) /\ ~RecordFailure(p)
  PROVE  UNCHANGED <<sampled, sample, events, billed>>
  BY DEF Next, vars, dbVars, ledgerVars, Carry, Restart, SetClock, OwnerAcquire,
         AddCredential, DisableCredential, OwnerSetsRow, OwnerRelease, SyncCredentials,
         BeginCycle, Cycle, QueryStats, CollectFails, ReadProcessIdentity, RejectStale,
         WriteFails, EndCycle, Crash

LEMMA SamplesStep == SampleInv /\ [Next]_vars => SampleInv'
  <1> SUFFICES ASSUME SampleInv, [Next]_vars PROVE SampleInv'
    OBVIOUS
  <1>1. TypeOK'
    BY StepTyped DEF SampleInv
  <1>2. NeutralRows' /\ SamplesHoldEveryDelta' /\ EveryFlagExplained'
    BY SnapshotWrites, FailureWrites, OthersWriteNothing, SamplesStay
  <1> QED BY <1>1, <1>2 DEF SampleInv

\* The rows of a credential add up to every delta ever computed for it.
THEOREM SamplesAddUp == Spec => []SamplesHoldEveryDelta
  <1>1. SampleInv => SamplesHoldEveryDelta
    BY DEF SampleInv
  <1> QED BY <1>1, SamplesStart, SamplesStep, PTL DEF Spec

\* Every flag of a row has an event of its minute that tells why.
THEOREM FlagsAreExplained == Spec => []EveryFlagExplained
  <1>1. SampleInv => EveryFlagExplained
    BY DEF SampleInv
  <1> QED BY <1>1, SamplesStart, SamplesStep, PTL DEF Spec

-----------------------------------------------------------------------------
(* What a step may never do *)

\* Buckets are in the order of their times.
LEMMA BucketMonotone ==
  ASSUME NEW t \in Time, NEW u \in Time, t <= u
  PROVE  Bucket(t) <= Bucket(u)
  <1> DEFINE n == SecondsPerMinute
             q == t \div n
             r == u \div n
  <1>1. /\ t = n * q + (t % n) /\ 0 <= t % n /\ t % n < n /\ q \in Int
        /\ u = n * r + (u % n) /\ 0 <= u % n /\ u % n < n /\ r \in Int
        /\ n \in Nat /\ n > 0 /\ t \in Nat /\ u \in Nat
        /\ t % n \in Int /\ u % n \in Int
    BY BoundAssumption DEF Time
  <1> DEFINE a == t % n
             b == u % n
  <1> HIDE DEF q, r, a, b, n
  <1>2. n * q <= n * r
    <2>1. CASE q <= r
      BY <1>1, <2>1
    <2>2. CASE ~(q <= r)
      <3>1. q >= r + 1
        BY <1>1, <2>2
      <3>2. n * q >= n * r + n
        BY <1>1, <3>1
      <3> QED BY <1>1, <3>2
    <2> QED BY <2>1, <2>2
  <1>3. Bucket(t) = n * q /\ Bucket(u) = n * r
    BY <1>1 DEF Bucket, n
  <1> QED BY <1>2, <1>3

\* What a write does to a row.
LEMMA WriteEffect ==
  ASSUME TypeOK, NEW t \in Time, NEW C \in SUBSET Credential,
         NEW new \in [C -> Sample], insertTrafficSamples(t, C, new), NEW k \in Key
  PROVE  /\ k \in sampled => k \in sampled'
         /\ \/ sample'[k] = sample[k]
            \/ /\ k[1] = Bucket(t) /\ k[2] \in C
               /\ sample'[k] = Merge(sample[k], new[k[2]])
  BY DEF insertTrafficSamples

\* The two writers, as one write.
LEMMA Writers ==
  ASSUME TypeOK, [Next]_vars
  PROVE  \/ UNCHANGED <<sampled, sample>>
         \/ \E p \in Collector : /\ RecordSnapshot(p) /\ ~Stale(snap[p])
                                 /\ \E new \in [listEnabledCredentials -> Sample] :
                                      insertTrafficSamples(snap[p].at, listEnabledCredentials, new)
         \/ insertTrafficSamples(clock, listEnabledCredentials,
                                 [c \in listEnabledCredentials |-> Gap])
  <1>1. ASSUME NEW p \in Collector, RecordSnapshot(p)
        PROVE  /\ ~Stale(snap[p])
               /\ \E new \in [listEnabledCredentials -> Sample] :
                    insertTrafficSamples(snap[p].at, listEnabledCredentials, new)
    <2> DEFINE new == [c \in listEnabledCredentials |-> Outcome(c, snap[p])]
    <2>1. new \in [listEnabledCredentials -> Sample]
      BY OutcomeTyped DEF TypeOK, listEnabledCredentials
    <2>2. ~Stale(snap[p]) /\ insertTrafficSamples(snap[p].at, listEnabledCredentials, new)
      BY <1>1 DEF RecordSnapshot
    <2> HIDE DEF new
    <2> QED BY <2>1, <2>2
  <1>2. ASSUME NEW p \in Collector, RecordFailure(p)
        PROVE  insertTrafficSamples(clock, listEnabledCredentials,
                                    [c \in listEnabledCredentials |-> Gap])
    BY <1>2 DEF RecordFailure
  <1> QED BY <1>1, <1>2, OthersWriteNothing

LEMMA WriteErasesNothing ==
  ASSUME TypeOK, NEW t \in Time, NEW C \in SUBSET Credential,
         NEW new \in [C -> Sample], insertTrafficSamples(t, C, new), NEW k \in sampled
  PROVE  /\ k \in sampled'
         /\ \A d \in Direction : sample'[k].bytes[d] >= sample[k].bytes[d]
         /\ sample'[k].ok => sample[k].ok
         /\ sample[k].reset => sample'[k].reset
  <1>1. k \in Key /\ sample[k] \in Sample
    BY DEF TypeOK
  <1>2. CASE sample'[k] = sample[k]
    <2>1. \A d \in Direction : sample[k].bytes[d] \in Nat
      BY <1>1 DEF Sample, Bytes
    <2>2. k \in sampled'
      BY <1>1, WriteEffect
    <2> QED BY <1>2, <2>1, <2>2
  <1>3. CASE k[2] \in C /\ sample'[k] = Merge(sample[k], new[k[2]])
    <2>1. \A d \in Direction : sample'[k].bytes[d] = sample[k].bytes[d] + new[k[2]].bytes[d]
      <3>1. sample'[k].bytes = Add(sample[k].bytes, new[k[2]].bytes)
        BY <1>3, MergeParts
      <3> QED BY <3>1 DEF Add
    <2>2. \A d \in Direction : sample[k].bytes[d] \in Nat /\ new[k[2]].bytes[d] \in Nat
      BY <1>1, <1>3 DEF Sample, Bytes
    <2>3. \A d \in Direction : sample'[k].bytes[d] >= sample[k].bytes[d]
      BY <2>1, <2>2
    <2>4. k \in sampled'
      BY <1>1, WriteEffect
    <2> QED BY <1>3, <2>3, <2>4, MergeParts
  <1> QED BY <1>1, <1>2, <1>3, WriteEffect

\* No later write erases a row, its bytes, a gap or a reset flag.
THEOREM EvidenceStays == Spec => EvidenceIsNeverErased
  <1>1. TypeOK /\ [Next]_vars =>
          [\A k \in sampled :
             /\ k \in sampled'
             /\ \A d \in Direction : sample'[k].bytes[d] >= sample[k].bytes[d]
             /\ sample'[k].ok => sample[k].ok
             /\ sample[k].reset => sample'[k].reset]_vars
    <2> SUFFICES ASSUME TypeOK, [Next]_vars, NEW k \in sampled
                 PROVE  /\ k \in sampled'
                        /\ \A d \in Direction : sample'[k].bytes[d] >= sample[k].bytes[d]
                        /\ sample'[k].ok => sample[k].ok
                        /\ sample[k].reset => sample'[k].reset
      OBVIOUS
    <2>1. \A p \in Collector : snap[p].at \in Time
      BY DEF TypeOK, Snapshot
    <2>2. clock \in Time /\ listEnabledCredentials \in SUBSET Credential
      BY DEF TypeOK, listEnabledCredentials
    <2>3. [c \in listEnabledCredentials |-> Gap] \in [listEnabledCredentials -> Sample]
      BY DefaultsTyped
    <2>4. CASE UNCHANGED <<sampled, sample>>
      <3>1. \A d \in Direction : sample[k].bytes[d] \in Nat
        BY DEF TypeOK, Sample, Bytes
      <3> QED BY <2>4, <3>1
    <2> QED BY <2>1, <2>2, <2>3, <2>4, Writers, WriteErasesNothing
  <1> QED BY <1>1, TypeCorrect, PTL DEF Spec, EvidenceIsNeverErased

\* Once a minute was observed successfully no bytes go to an earlier one.
THEOREM MinutesAreSettled == Spec => NoBytesInEarlierMinutes
  <1>1. TypeOK /\ [Next]_vars =>
          [\A k \in Key, c \in known :
             k[1] < Bucket(baseline[c].at) => sample'[k].bytes = sample[k].bytes]_vars
    <2> SUFFICES ASSUME TypeOK, [Next]_vars, NEW k \in Key, NEW c \in known,
                        k[1] < Bucket(baseline[c].at)
                 PROVE  sample'[k].bytes = sample[k].bytes
      OBVIOUS
    <2>1. k[1] \in Nat /\ baseline[c].at \in Time
      BY BoundAssumption DEF TypeOK, Key, Time, Baseline
    <2>2. ASSUME NEW p \in Collector, RecordSnapshot(p), ~Stale(snap[p]),
                 NEW new \in [listEnabledCredentials -> Sample],
                 insertTrafficSamples(snap[p].at, listEnabledCredentials, new)
          PROVE  sample'[k].bytes = sample[k].bytes
      <3>1. snap[p].at \in Time /\ ~(snap[p].at <= baseline[c].at)
        BY <2>2 DEF TypeOK, Snapshot, Stale
      <3>2. baseline[c].at <= snap[p].at
        BY <2>1, <3>1, BoundAssumption DEF Time
      <3>3. Bucket(baseline[c].at) <= Bucket(snap[p].at)
        BY <2>1, <3>1, <3>2, BucketMonotone
      <3>4. Bucket(baseline[c].at) \in Time /\ Bucket(snap[p].at) \in Time
        BY <2>1, <3>1, BucketInTime
      <3>5. k[1] # Bucket(snap[p].at)
        BY <2>1, <3>3, <3>4, BoundAssumption DEF Time
      <3> QED BY <2>2, <3>5 DEF insertTrafficSamples
    <2>3. CASE insertTrafficSamples(clock, listEnabledCredentials,
                                    [x \in listEnabledCredentials |-> Gap])
      <3>1. CASE k[1] = Bucket(clock) /\ k[2] \in listEnabledCredentials
        <4>1. sample'[k].bytes = Add(sample[k].bytes, Zero)
          BY <2>3, <3>1, MergeParts DEF insertTrafficSamples, Gap
        <4>2. sample[k].bytes \in Bytes
          BY DEF TypeOK, Sample
        <4>3. Add(sample[k].bytes, Zero) = sample[k].bytes
          BY <4>2 DEF Add, Zero, Bytes
        <4> QED BY <4>1, <4>3
      <3>2. CASE ~(k[1] = Bucket(clock) /\ k[2] \in listEnabledCredentials)
        BY <2>3, <3>2 DEF insertTrafficSamples
      <3> QED BY <3>1, <3>2
    <2> QED BY <2>2, <2>3, Writers
  <1> QED BY <1>1, TypeCorrect, PTL DEF Spec, NoBytesInEarlierMinutes

\* A revoked credential stays revoked, and nothing more is billed to it.
THEOREM RevocationIsFinal == Spec => RevokedStaysRevoked
  <1>1. TypeOK /\ [Next]_vars =>
          [\A c \in Credential :
             row[c] = "revoked" => row'[c] = "revoked" /\ billed'[c] = billed[c]]_vars
    <2> SUFFICES ASSUME TypeOK, [Next]_vars, NEW c \in Credential, row[c] = "revoked"
                 PROVE  row'[c] = "revoked" /\ billed'[c] = billed[c]
      OBVIOUS
    <2>1. ASSUME NEW p \in Collector, RecordSnapshot(p)
          PROVE  row'[c] = "revoked" /\ billed'[c] = billed[c]
      BY <2>1 DEF RecordSnapshot, listEnabledCredentials
    <2>2. ASSUME NEW p \in Collector, RecordFailure(p)
          PROVE  row'[c] = "revoked" /\ billed'[c] = billed[c]
      BY <2>2 DEF RecordFailure, ledgerVars
    <2>3. CASE \A p \in Collector : ~RecordSnapshot(p) /\ ~RecordFailure(p)
      <3>1. billed' = billed
        BY <2>3, OthersWriteNothing
      <3>2. CASE UNCHANGED row
        BY <3>1, <3>2
      <3>3. ASSUME NEW x \in Credential, AddCredential(x) \/ DisableCredential(x)
            PROVE  row'[c] = "revoked"
        BY <3>3 DEF AddCredential, DisableCredential, OwnerSetsRow, TypeOK
      <3>4. ASSUME NEW p \in Collector, SyncCredentials(p)
            PROVE  row'[c] = "revoked"
        BY <3>4 DEF SyncCredentials
      <3> QED BY <2>3, <3>1, <3>2, <3>3, <3>4
              DEF Next, vars, dbVars, Carry, Restart, SetClock, OwnerAcquire, OwnerRelease,
                  BeginCycle, Cycle, QueryStats, CollectFails, ReadProcessIdentity,
                  RejectStale, WriteFails, EndCycle, Crash
    <2> QED BY <2>1, <2>2, <2>3
  <1> QED BY <1>1, TypeCorrect, PTL DEF Spec, RevokedStaysRevoked
=============================================================================
