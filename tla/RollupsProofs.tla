--------------------------- MODULE RollupsProofs ---------------------------
(* Theorems about Rollups, for every value of its constants. *)
EXTENDS Rollups, FiniteSums

-----------------------------------------------------------------------------
(* Inductive invariants *)

\* A key without a sample ever has a neutral archive.
ArchiveInv == \A k \in Key \ recorded : archive[k] = NoSample

TypeInv == TypeOK /\ ArchiveInv

\* Neither a sample nor a rollup holds more than was recorded.
RecordedInv ==
  /\ \A k \in Key : sample[k].bytes <= archive[k].bytes
  /\ \A r \in rolled : rollup[r].bytes <= AllBytes(archive, Period(r))

ClockInv == now <= latest /\ latest - MaxStep <= now

\* What was rolled up had ended.
EndedInv ==
  \A r \in rolled : \E m \in Minute : Start[r.kind][m] = r.start /\ End[r.kind][m] <= latest

\* A deleted minute does not come back; what is kept is what was recorded.
KeptInv ==
  /\ \A k \in recorded \ sampled : k[1] < latest - retention.minutes
  /\ \A k \in sampled : sample[k] = archive[k]

\* Samples are deleted from the oldest on.
DeletedFirst == \A k \in recorded \ sampled, j \in sampled : k[1] < j[1]

\* What the rollup of r would be had nothing been deleted.
Whole(r) == [bytes |-> OkBytes(archive, Period(r)), gaps |-> Gaps(archive, Period(r))]

\* While the samples of a period are kept, its rollup is complete.
RollupInv == \A r \in rolled : Intact(r.kind, Period(r)) => rollup[r] = Whole(r)

\* What is no longer as it was recorded has been rolled up.
CountedInv ==
  \A k \in recorded, kind \in Kind :
    \/ k \in sampled /\ sample[k] = archive[k]
    \/ RollupOf(kind, k) \in rolled
    \/ Start[kind][k[1]] < latest - retention.rollups

-----------------------------------------------------------------------------
(* Lemmas about values *)

LEMMA MinuteNat == \A m \in Minute : m \in Nat /\ m <= MaxMinute
  BY BoundAssumption DEF Minute

LEMMA KeysFinite == \A K \in SUBSET Key : IsFiniteSet(K)
  <1>1. IsFiniteSet(Minute)
    BY FS_Interval, BoundAssumption DEF Minute
  <1>2. IsFiniteSet(Key)
    BY <1>1, CredentialAssumption, FS_Product DEF Key
  <1> QED BY <1>2, FS_Subset

LEMMA PeriodIsKeys == \A r : Period(r) \in SUBSET Key
  BY DEF Period

\* A key belongs to the period of its own rollup, whose parts are the key's.
LEMMA RollupOfKey ==
  ASSUME NEW kind \in Kind, NEW k \in Key
  PROVE  /\ RollupOf(kind, k) \in RollupKey
         /\ RollupOf(kind, k).kind = kind
         /\ RollupOf(kind, k).start = Start[kind][k[1]]
         /\ RollupOf(kind, k).credential = k[2]
         /\ k \in Period(RollupOf(kind, k))
  <1>1. k[1] \in Minute /\ k[2] \in Credential
    BY DEF Key
  <1>2. Start[kind][k[1]] \in Minute
    BY <1>1, ZoneAssumption
  <1> QED BY <1>1, <1>2 DEF RollupOf, RollupKey, Period

\* ... and to no other.
LEMMA PeriodOfKey ==
  ASSUME NEW r \in RollupKey, NEW k \in Period(r)
  PROVE  k \in Key /\ r = RollupOf(r.kind, k)
  BY DEF Period, RollupOf, RollupKey

\* The sums of a table's samples.
LEMMA SumsTyped ==
  ASSUME NEW T \in [Key -> Sample], NEW K \in SUBSET Key
  PROVE  /\ OkBytes(T, K) \in Nat /\ AllBytes(T, K) \in Nat /\ Gaps(T, K) \in Nat
         /\ OkBytes(T, K) <= AllBytes(T, K)
  <1> DEFINE f == [k \in Key |-> T[k].bytes]
             ok == {k \in K : T[k].ok}
  <1>1. IsFiniteSet(K) /\ IsFiniteSet(ok) /\ IsFiniteSet({k \in K : ~T[k].ok})
    BY KeysFinite
  <1>2. \A k \in K : f[k] \in Nat
    BY DEF Sample
  <1>3. Gaps(T, K) \in Nat
    BY <1>1, FS_CardinalityType DEF Gaps
  <1>4. ok \in SUBSET K /\ \A k \in ok : f[k] \in Nat
    BY <1>2
  <1>5. OkBytes(T, K) = SumFunctionOnSet(f, ok) /\ AllBytes(T, K) = SumFunctionOnSet(f, K)
    BY DEF OkBytes, AllBytes
  <1> HIDE DEF f, ok
  <1>6. /\ SumFunctionOnSet(f, ok) \in Nat /\ SumFunctionOnSet(f, K) \in Nat
        /\ SumFunctionOnSet(f, ok) <= SumFunctionOnSet(f, K)
    BY <1>1, <1>2, <1>4, SumType, SumSubset
  <1> QED BY <1>3, <1>5, <1>6

\* They depend on the samples at K only.
LEMMA SumsAgree ==
  ASSUME NEW T \in [Key -> Sample], NEW U \in [Key -> Sample], NEW K \in SUBSET Key,
         \A k \in K : T[k] = U[k]
  PROVE  OkBytes(T, K) = OkBytes(U, K) /\ Gaps(T, K) = Gaps(U, K)
  <1> DEFINE f == [k \in Key |-> T[k].bytes]
             g == [k \in Key |-> U[k].bytes]
             ok == {k \in K : T[k].ok}
  <1>1. ok = {k \in K : U[k].ok} /\ {k \in K : ~T[k].ok} = {k \in K : ~U[k].ok}
    OBVIOUS
  <1>2. IsFiniteSet(ok)
    BY KeysFinite
  <1>3. \A k \in ok : f[k] \in Nat /\ f[k] = g[k]
    BY DEF Sample
  <1>4. OkBytes(T, K) = SumFunctionOnSet(f, ok) /\ OkBytes(U, K) = SumFunctionOnSet(g, ok)
    BY <1>1 DEF OkBytes
  <1>5. Gaps(T, K) = Gaps(U, K)
    BY <1>1 DEF Gaps
  <1> HIDE DEF f, g, ok
  <1>6. SumFunctionOnSet(f, ok) = SumFunctionOnSet(g, ok)
    BY <1>2, <1>3, SumSame
  <1> QED BY <1>4, <1>5, <1>6

\* Keys with neutral samples add nothing.
LEMMA SumsIgnore ==
  ASSUME NEW T \in [Key -> Sample], NEW K \in SUBSET Key, NEW L \in SUBSET K,
         \A k \in K \ L : T[k] = NoSample
  PROVE  OkBytes(T, K) = OkBytes(T, L) /\ Gaps(T, K) = Gaps(T, L)
  <1> DEFINE f == [k \in Key |-> T[k].bytes]
             ok == {k \in L : T[k].ok}
             rest == {k \in K \ L : T[k].ok}
  <1>1. \A k \in K \ L : T[k].ok = TRUE /\ T[k].bytes = 0
    BY DEF NoSample
  <1>2. {k \in K : T[k].ok} = ok \cup rest /\ {k \in K : ~T[k].ok} = {k \in L : ~T[k].ok}
    BY <1>1
  <1>3. ok \cap rest = {} /\ IsFiniteSet(ok) /\ IsFiniteSet(rest)
    BY KeysFinite
  <1>4. (\A k \in ok \cup rest : f[k] \in Nat) /\ \A k \in rest : f[k] = 0
    BY <1>1 DEF Sample
  <1>5. OkBytes(T, K) = SumFunctionOnSet(f, ok \cup rest) /\ OkBytes(T, L) = SumFunctionOnSet(f, ok)
    BY <1>2 DEF OkBytes
  <1>6. Gaps(T, K) = Gaps(T, L)
    BY <1>2 DEF Gaps
  <1> HIDE DEF f, ok, rest
  <1>7. SumFunctionOnSet(f, ok \cup rest) = SumFunctionOnSet(f, ok) + SumFunctionOnSet(f, rest)
    BY <1>3, <1>4, SumUnion
  <1>8. SumFunctionOnSet(f, rest) = 0 /\ SumFunctionOnSet(f, ok) \in Nat
    BY <1>3, <1>4, SumZero, SumType
  <1> QED BY <1>5, <1>6, <1>7, <1>8

\* More keys and larger samples have a larger sum.
LEMMA AllBytesGrow ==
  ASSUME NEW T \in [Key -> Sample], NEW U \in [Key -> Sample],
         NEW K \in SUBSET Key, NEW L \in SUBSET K,
         \A k \in L : T[k].bytes <= U[k].bytes
  PROVE  AllBytes(T, L) <= AllBytes(U, K)
  <1> DEFINE f == [k \in Key |-> T[k].bytes]
             g == [k \in Key |-> U[k].bytes]
  <1>1. IsFiniteSet(K) /\ IsFiniteSet(L)
    BY KeysFinite
  <1>2. (\A k \in K : f[k] \in Nat /\ g[k] \in Nat) /\ \A k \in L : f[k] <= g[k]
    BY DEF Sample
  <1>3. AllBytes(T, L) = SumFunctionOnSet(f, L) /\ AllBytes(U, K) = SumFunctionOnSet(g, K)
    BY DEF AllBytes
  <1> HIDE DEF f, g
  <1>4. SumFunctionOnSet(f, L) <= SumFunctionOnSet(g, L)
    BY <1>1, <1>2, SumMonotone
  <1>5. SumFunctionOnSet(g, L) <= SumFunctionOnSet(g, K)
    BY <1>1, <1>2, SumSubset
  <1>6. /\ SumFunctionOnSet(f, L) \in Nat /\ SumFunctionOnSet(g, L) \in Nat
        /\ SumFunctionOnSet(g, K) \in Nat
    BY <1>1, <1>2, SumType
  <1> QED BY <1>3, <1>4, <1>5, <1>6

-----------------------------------------------------------------------------
(* Lemmas about steps *)

\* Rollups are built for the closed periods of the samples.
LEMMA BuiltIs ==
  ASSUME NEW K \in SUBSET Key
  PROVE  /\ Built(K) \subseteq RollupKey
         /\ \A kind \in Kind, k \in K : Closed(kind, k[1]) => RollupOf(kind, k) \in Built(K)
         /\ \A r \in Built(K) : \E k \in K : /\ r.kind \in Kind /\ Closed(r.kind, k[1])
                                             /\ r = RollupOf(r.kind, k)
  <1>1. ASSUME NEW r \in Built(K)
        PROVE  /\ r \in RollupKey /\ r.kind \in Kind
               /\ \E k \in K : Closed(r.kind, k[1]) /\ r = RollupOf(r.kind, k)
    <2>1. PICK x \in Kind \X K : Closed(x[1], x[2][1]) /\ r = RollupOf(x[1], x[2])
      BY DEF Built
    <2>2. x[1] \in Kind /\ x[2] \in K
      OBVIOUS
    <2>3. r \in RollupKey /\ r.kind = x[1]
      BY <2>1, <2>2, RollupOfKey
    <2> QED BY <2>1, <2>2, <2>3
  <1>2. ASSUME NEW kind \in Kind, NEW k \in K, Closed(kind, k[1])
        PROVE  RollupOf(kind, k) \in Built(K)
    <2>1. <<kind, k>> \in {y \in Kind \X K : Closed(y[1], y[2][1])}
      BY <1>2
    <2>2. <<kind, k>>[1] = kind /\ <<kind, k>>[2] = k
      OBVIOUS
    <2> QED BY <2>1, <2>2 DEF Built
  <1> QED BY <1>1, <1>2

\* What an observation may be.
LEMMA ObservationIsSample == Observation \subseteq Sample
  <1>1. \A b \in 0 .. MaxBytes : [bytes |-> b, ok |-> TRUE] \in Sample
    BY BoundAssumption DEF Sample
  <1>2. [bytes |-> 0, ok |-> FALSE] \in Sample
    BY DEF Sample
  <1> QED BY <1>1, <1>2 DEF Observation

\* A step moves the clock, writes observations or maintains.
LEMMA Steps ==
  ASSUME TypeOK, [Next]_vars
  PROVE  \/ UNCHANGED vars
         \/ SetClock
         \/ /\ \E C \in SUBSET Credential : \E new \in [C -> Sample] : Insert(C, new)
            /\ UNCHANGED <<clock, rolled, rollup>> /\ last' \in Minute
         \/ Maintain
  <1>1. ASSUME NEW C \in SUBSET Credential, NEW new \in [C -> Observation],
               RecordSnapshot(C, new)
        PROVE  /\ \E n \in [C -> Sample] : Insert(C, n)
               /\ UNCHANGED <<clock, rolled, rollup>> /\ last' \in Minute
    <2>1. new \in [C -> Sample]
      BY ObservationIsSample
    <2> QED BY <1>1, <2>1 DEF RecordSnapshot, TypeOK
  <1>2. ASSUME NEW C \in SUBSET Credential, RecordFailure(C)
        PROVE  /\ \E n \in [C -> Sample] : Insert(C, n)
               /\ UNCHANGED <<clock, rolled, rollup>> /\ last' \in Minute
    <2> DEFINE new == [c \in C |-> [bytes |-> 0, ok |-> FALSE]]
    <2>1. new \in [C -> Sample]
      BY DEF Sample
    <2>2. Insert(C, new) /\ UNCHANGED <<clock, rolled, rollup>> /\ last' = last
      BY <1>2 DEF RecordFailure
    <2> HIDE DEF new
    <2> QED BY <2>1, <2>2 DEF TypeOK
  <1> QED BY <1>1, <1>2 DEF Next

LEMMA MergeTyped ==
  ASSUME NEW old \in Sample, NEW new \in Sample
  PROVE  /\ Merge(old, new) \in Sample
         /\ Merge(old, new).bytes = old.bytes + new.bytes
  BY DEF Merge, Sample

\* A write into a table.
LEMMA Writes ==
  ASSUME NEW T \in [Key -> Sample], NEW U, NEW C \in SUBSET Credential, NEW new \in [C -> Sample],
         U = [k \in Key |-> IF k \in {now} \X C THEN Merge(T[k], new[k[2]]) ELSE T[k]]
  PROVE  /\ U \in [Key -> Sample]
         /\ \A k \in Key : U[k].bytes >= T[k].bytes
         /\ \A k \in Key : k \notin {now} \X C => U[k] = T[k]
         /\ \A k \in Key : k \in {now} \X C => U[k] = Merge(T[k], new[k[2]])
  <1>1. \A k \in {now} \X C : k[2] \in C
    OBVIOUS
  <1>2. \A k \in Key : k \in {now} \X C => Merge(T[k], new[k[2]]) \in Sample
    BY <1>1, MergeTyped
  <1>3. U \in [Key -> Sample]
    BY <1>2
  <1>4. ASSUME NEW k \in Key PROVE U[k].bytes >= T[k].bytes
    <2>1. T[k].bytes \in Nat
      BY DEF Sample
    <2>2. CASE k \in {now} \X C
      <3>1. new[k[2]] \in Sample /\ U[k] = Merge(T[k], new[k[2]])
        BY <1>1, <2>2
      <3>2. new[k[2]].bytes \in Nat /\ U[k].bytes = T[k].bytes + new[k[2]].bytes
        BY <3>1, MergeTyped DEF Sample
      <3> QED BY <2>1, <3>2
    <2>3. CASE k \notin {now} \X C
      BY <2>1, <2>3
    <2> QED BY <2>2, <2>3
  <1> QED BY <1>3, <1>4

\* A write, table by table.
LEMMA InsertIs ==
  ASSUME TypeOK, NEW C \in SUBSET Credential, NEW new \in [C -> Sample], Insert(C, new)
  PROVE  LET written == {now} \X C IN
         /\ written \subseteq Key
         /\ sampled' = sampled \cup written /\ recorded' = recorded \cup written
         /\ late' = late \cup {x \in Kind \X written : now < latest}
         /\ sample' \in [Key -> Sample] /\ archive' \in [Key -> Sample]
         /\ \A k \in Key : archive'[k].bytes >= archive[k].bytes
         /\ \A k \in Key \ written : sample'[k] = sample[k] /\ archive'[k] = archive[k]
         /\ \A k \in written : /\ sample'[k] = Merge(sample[k], new[k[2]])
                               /\ archive'[k] = Merge(archive[k], new[k[2]])
  <1> DEFINE written == {now} \X C
  <1>1. written \subseteq Key
    BY DEF TypeOK, Key
  <1>2. /\ sampled' = sampled \cup written /\ recorded' = recorded \cup written
        /\ late' = late \cup {x \in Kind \X written : now < latest}
        /\ sample' = [k \in Key |-> IF k \in written THEN Merge(sample[k], new[k[2]]) ELSE sample[k]]
        /\ archive' = [k \in Key |-> IF k \in written THEN Merge(archive[k], new[k[2]]) ELSE archive[k]]
    BY DEF Insert
  <1>3. sample \in [Key -> Sample] /\ archive \in [Key -> Sample]
    BY DEF TypeOK
  <1>4. /\ sample' \in [Key -> Sample]
        /\ \A k \in Key : k \notin written => sample'[k] = sample[k]
        /\ \A k \in Key : k \in written => sample'[k] = Merge(sample[k], new[k[2]])
    BY <1>2, <1>3, Writes
  <1>5. /\ archive' \in [Key -> Sample]
        /\ \A k \in Key : archive'[k].bytes >= archive[k].bytes
        /\ \A k \in Key : k \notin written => archive'[k] = archive[k]
        /\ \A k \in Key : k \in written => archive'[k] = Merge(archive[k], new[k[2]])
    BY <1>2, <1>3, Writes
  <1> HIDE DEF written
  <1>6. /\ written \subseteq Key
        /\ sampled' = sampled \cup written /\ recorded' = recorded \cup written
        /\ late' = late \cup {x \in Kind \X written : now < latest}
        /\ sample' \in [Key -> Sample] /\ archive' \in [Key -> Sample]
        /\ \A k \in Key : archive'[k].bytes >= archive[k].bytes
        /\ \A k \in Key \ written : sample'[k] = sample[k] /\ archive'[k] = archive[k]
        /\ \A k \in written : /\ sample'[k] = Merge(sample[k], new[k[2]])
                              /\ archive'[k] = Merge(archive[k], new[k[2]])
    BY <1>1, <1>2, <1>4, <1>5
  <1> QED BY <1>6 DEF written

LEMMA ValueTyped ==
  ASSUME TypeOK, NEW r, NEW K \in SUBSET Key
  PROVE  /\ Value(r, K) \in Rollup
         /\ Value(r, K).bytes = OkBytes(sample, Period(r) \cap K)
         /\ Value(r, K).gaps = Gaps(sample, Period(r) \cap K)
  <1>1. sample \in [Key -> Sample] /\ Period(r) \cap K \in SUBSET Key
    BY DEF TypeOK
  <1>2. /\ OkBytes(sample, Period(r) \cap K) \in Nat
        /\ Gaps(sample, Period(r) \cap K) \in Nat
    BY <1>1, SumsTyped
  <1> QED BY <1>2 DEF Value, Rollup

\* A maintenance, table by table.
LEMMA MaintainIs ==
  ASSUME TypeOK, Maintain
  PROVE  /\ rolled' \subseteq RollupKey /\ rollup' \in [RollupKey -> Rollup]
         /\ \A r \in RollupKey : r \in rolled' <=>
              r \in rolled \cup Built(sampled) /\ r.start >= now - retention.rollups
         /\ \A r \in RollupKey \ rolled' : rollup'[r] = NoRollup
         /\ \A r \in rolled' : r \in Built(sampled) => rollup'[r] = Value(r, sampled)
         /\ \A r \in rolled' : r \notin Built(sampled) => r \in rolled /\ rollup'[r] = rollup[r]
         /\ sampled' \subseteq sampled /\ sample' \in [Key -> Sample]
         /\ \A k \in sampled \ sampled' : ~(k[1] >= now - retention.minutes)
         /\ \A k \in sampled' : sample'[k] = sample[k]
         /\ \A k \in Key \ sampled' : sample'[k] = NoSample
         /\ late' = {x \in late : ~Closed(x[1], x[2][1])}
         /\ UNCHANGED <<clock, last, recorded, archive>>
  <1> DEFINE stored == {r \in rolled \cup Built(sampled) : r.start >= now - retention.rollups}
  <1>1. sampled \subseteq Key /\ rolled \subseteq RollupKey
    BY DEF TypeOK
  <1>2. Built(sampled) \subseteq RollupKey
    BY <1>1, BuiltIs
  <1>3. stored \subseteq RollupKey
    BY <1>1, <1>2
  <1>4. /\ rolled' = stored
        /\ rollup' = [r \in RollupKey |->
                        IF r \notin stored THEN NoRollup
                        ELSE IF r \in Built(sampled) THEN Value(r, sampled) ELSE rollup[r]]
    BY DEF Maintain, WriteRollups
  <1>5. NoRollup \in Rollup /\ NoSample \in Sample
    BY DEF NoRollup, Rollup, NoSample, Sample
  <1>6. \A r \in RollupKey : rollup[r] \in Rollup /\ Value(r, sampled) \in Rollup
    BY <1>1, ValueTyped DEF TypeOK
  <1>7. rollup' \in [RollupKey -> Rollup]
    BY <1>4, <1>5, <1>6
  <1>8. /\ sampled' = Kept
        /\ sample' = [k \in Key |-> IF k \in Kept THEN sample[k] ELSE NoSample]
    BY DEF Maintain, DeleteSamples
  <1>9. sample' \in [Key -> Sample] /\ sampled' \subseteq sampled
    BY <1>5, <1>8 DEF TypeOK, Kept
  <1>10. \A k \in sampled' : k \in Key /\ sample'[k] = sample[k]
    BY <1>1, <1>8, <1>9
  <1>11. /\ late' = {x \in late : ~Closed(x[1], x[2][1])}
         /\ UNCHANGED <<clock, last, recorded, archive>>
    BY DEF Maintain, Refreshed
  <1>12. \A k \in sampled \ sampled' : ~(k[1] >= now - retention.minutes)
    BY <1>8 DEF Kept
  <1>13. \A k \in Key \ sampled' : sample'[k] = NoSample
    BY <1>8
  <1>14. /\ rolled' \subseteq RollupKey
         /\ \A r \in RollupKey : r \in rolled' <=>
              r \in rolled \cup Built(sampled) /\ r.start >= now - retention.rollups
         /\ \A r \in RollupKey \ rolled' : rollup'[r] = NoRollup
    BY <1>3, <1>4
  <1>15. \A r \in rolled' : r \in Built(sampled) => rollup'[r] = Value(r, sampled)
    BY <1>3, <1>4
  <1>16. \A r \in rolled' : r \notin Built(sampled) => r \in rolled /\ rollup'[r] = rollup[r]
    BY <1>3, <1>4
  <1> QED BY <1>7, <1>9, <1>10, <1>11, <1>12, <1>13, <1>14, <1>15, <1>16

-----------------------------------------------------------------------------
(* Type correctness *)

LEMMA InitTyped == Init => TypeInv
  <1> SUFFICES ASSUME Init PROVE TypeInv
    OBVIOUS
  <1>1. NoRollup \in Rollup /\ NoSample \in Sample /\ 0 \in Minute
    BY BoundAssumption DEF NoRollup, Rollup, NoSample, Sample, Minute
  <1> QED BY <1>1 DEF Init, TypeInv, TypeOK, ArchiveInv

LEMMA NextTyped == TypeInv /\ [Next]_vars => TypeInv'
  <1> SUFFICES ASSUME TypeInv, [Next]_vars PROVE TypeInv'
    OBVIOUS
  <1> USE DEF TypeInv
  <1>1. CASE UNCHANGED vars
    BY <1>1 DEF TypeOK, ArchiveInv, vars, clock, tables, history
  <1>2. CASE SetClock
    <2>1. now' \in Minute /\ latest' \in Minute
      BY <1>2 DEF SetClock, TypeOK
    <2> QED BY <1>2, <2>1 DEF SetClock, TypeOK, ArchiveInv, tables, history
  <1>3. ASSUME NEW C \in SUBSET Credential, NEW new \in [C -> Sample], Insert(C, new),
               UNCHANGED <<clock, rolled, rollup>>, last' \in Minute
        PROVE  TypeInv'
    <2> DEFINE written == {now} \X C
    <2>1. /\ written \subseteq Key
          /\ sampled' = sampled \cup written /\ recorded' = recorded \cup written
          /\ late' = late \cup {x \in Kind \X written : now < latest}
          /\ sample' \in [Key -> Sample] /\ archive' \in [Key -> Sample]
          /\ \A k \in Key \ written : sample'[k] = sample[k] /\ archive'[k] = archive[k]
      BY <1>3, InsertIs
    <2> HIDE DEF written
    <2>2. sampled' \subseteq recorded' /\ recorded' \subseteq Key /\ late' \subseteq Kind \X recorded'
      BY <2>1 DEF TypeOK
    <2>3. /\ \A k \in Key \ sampled' : sample'[k] = NoSample
          /\ \A k \in Key \ recorded' : archive'[k] = NoSample
      BY <2>1 DEF TypeOK, ArchiveInv
    <2> QED BY <1>3, <2>1, <2>2, <2>3 DEF TypeOK, ArchiveInv, clock
  <1>4. CASE Maintain
    <2>1. late' \subseteq late /\ sampled' \subseteq sampled
      BY <1>4, MaintainIs
    <2>2. sampled' \subseteq recorded' /\ recorded' \subseteq Key /\ late' \subseteq Kind \X recorded'
      BY <1>4, <2>1, MaintainIs DEF TypeOK
    <2>3. /\ rolled' \subseteq RollupKey /\ rollup' \in [RollupKey -> Rollup]
          /\ \A r \in RollupKey \ rolled' : rollup'[r] = NoRollup
          /\ sample' \in [Key -> Sample] /\ \A k \in Key \ sampled' : sample'[k] = NoSample
          /\ UNCHANGED <<clock, last, recorded, archive>>
      BY <1>4, MaintainIs
    <2> QED BY <2>2, <2>3 DEF TypeOK, ArchiveInv, clock
  <1> QED BY <1>1, <1>2, <1>3, <1>4, Steps

LEMMA Typed == Spec => []TypeInv
  BY InitTyped, NextTyped, PTL DEF Spec

\* Every table keeps its shape, and a key without a row holds the neutral value.
THEOREM RollupsTyped == Spec => []TypeOK
  <1>1. TypeInv => TypeOK
    BY DEF TypeInv
  <1> QED BY <1>1, Typed, PTL

-----------------------------------------------------------------------------
(* Sums over the periods of several rollups *)

\* The minutes that the rollups R count.
Periods(R) == UNION {Period(r) : r \in R}

LEMMA PeriodsAreKeys == \A R : Periods(R) \in SUBSET Key
  BY DEF Periods, Period

LEMMA RollupsFinite ==
  ASSUME NEW kind, NEW R \in SUBSET RollupKey, \A r \in R : r.kind = kind
  PROVE  IsFiniteSet(R)
  <1> DEFINE f == [k \in Key |-> [kind |-> kind, start |-> k[1], credential |-> k[2]]]
             T == {f[k] : k \in Key}
  <1>1. f \in Surjection(Key, T)
    BY DEF Surjection
  <1>2. IsFiniteSet(Key)
    BY KeysFinite
  <1>3. IsFiniteSet(T)
    <2> HIDE DEF f, T
    <2> QED BY <1>1, <1>2, FS_Surjection
  <1>4. ASSUME NEW r \in R PROVE r \in T
    <2>1. r = [kind |-> kind, start |-> r.start, credential |-> r.credential]
      BY DEF RollupKey
    <2>2. <<r.start, r.credential>> \in Key
      BY DEF RollupKey, Key
    <2> QED BY <2>1, <2>2
  <1> QED BY <1>3, <1>4, FS_Subset

\* Periods of one kind have no minute in common.
LEMMA PeriodsApart ==
  ASSUME NEW kind, NEW r \in RollupKey, NEW s \in RollupKey, r.kind = kind, s.kind = kind, r # s
  PROVE  Period(r) \cap Period(s) = {}
  BY PeriodOfKey

LEMMA PartsAddUp ==
  ASSUME NEW T \in [Key -> Sample], NEW kind, NEW R \in SUBSET RollupKey,
         \A r \in R : r.kind = kind
  PROVE  /\ SumFunctionOnSet([r \in R |-> AllBytes(T, Period(r))], R) = AllBytes(T, Periods(R))
         /\ SumFunctionOnSet([r \in R |-> OkBytes(T, Period(r))], R) = OkBytes(T, Periods(R))
  <1> DEFINE f == [k \in Key |-> T[k].bytes]
             all == [r \in R |-> Period(r)]
             good == [r \in R |-> {k \in Period(r) : T[k].ok}]
             a == [r \in R |-> AllBytes(T, Period(r))]
             o == [r \in R |-> OkBytes(T, Period(r))]
             goodOnes == {k \in Periods(R) : T[k].ok}
  <1>1. IsFiniteSet(R)
    BY RollupsFinite
  <1>2. \A r \in R : /\ IsFiniteSet(all[r]) /\ a[r] = SumFunctionOnSet(f, all[r])
                     /\ IsFiniteSet(good[r]) /\ o[r] = SumFunctionOnSet(f, good[r])
    BY KeysFinite, PeriodIsKeys DEF AllBytes, OkBytes
  <1>3. \A r \in R : (\A x \in all[r] : f[x] \in Nat) /\ \A x \in good[r] : f[x] \in Nat
    BY PeriodIsKeys DEF Sample
  <1>4. \A r, s \in R : r # s => all[r] \cap all[s] = {} /\ good[r] \cap good[s] = {}
    BY PeriodsApart
  <1>5. /\ \A x : x \in Periods(R) <=> \E r \in R : x \in all[r]
        /\ \A x : x \in goodOnes <=> \E r \in R : x \in good[r]
    BY DEF Periods
  <1>6. /\ AllBytes(T, Periods(R)) = SumFunctionOnSet(f, Periods(R))
        /\ OkBytes(T, Periods(R)) = SumFunctionOnSet(f, goodOnes)
    BY DEF AllBytes, OkBytes
  <1> HIDE DEF f, all, good, a, o, goodOnes
  <1>7. SumFunctionOnSet(a, R) = SumFunctionOnSet(f, Periods(R))
    <2>1. Divides(all, R, Periods(R), f, a)
      BY <1>2, <1>3, <1>4, <1>5 DEF Divides
    <2> QED BY <1>1, <2>1, SumOfParts
  <1>8. SumFunctionOnSet(o, R) = SumFunctionOnSet(f, goodOnes)
    <2>1. Divides(good, R, goodOnes, f, o)
      BY <1>2, <1>3, <1>4, <1>5 DEF Divides
    <2> QED BY <1>1, <2>1, SumOfParts
  <1>9. SumFunctionOnSet(a, R) = AllBytes(T, Periods(R)) /\ SumFunctionOnSet(o, R) = OkBytes(T, Periods(R))
    BY <1>6, <1>7, <1>8
  <1> QED BY <1>9 DEF a, o

\* Sums over two sets that have no key in common.
LEMMA SumsSplit ==
  ASSUME NEW T \in [Key -> Sample], NEW K \in SUBSET Key, NEW L \in SUBSET Key, K \cap L = {}
  PROVE  /\ AllBytes(T, K \cup L) = AllBytes(T, K) + AllBytes(T, L)
         /\ OkBytes(T, K \cup L) = OkBytes(T, K) + OkBytes(T, L)
  <1> DEFINE f == [k \in Key |-> T[k].bytes]
             A == {k \in K : T[k].ok}
             B == {k \in L : T[k].ok}
  <1>1. IsFiniteSet(K) /\ IsFiniteSet(L) /\ IsFiniteSet(A) /\ IsFiniteSet(B)
    BY KeysFinite
  <1>2. /\ \A k \in K \cup L : f[k] \in Nat
        /\ \A k \in A \cup B : f[k] \in Nat
    BY DEF Sample
  <1>3. {k \in K \cup L : T[k].ok} = A \cup B /\ A \cap B = {}
    OBVIOUS
  <1>4. /\ AllBytes(T, K \cup L) = SumFunctionOnSet(f, K \cup L)
        /\ AllBytes(T, K) = SumFunctionOnSet(f, K) /\ AllBytes(T, L) = SumFunctionOnSet(f, L)
    BY DEF AllBytes
  <1>5. /\ OkBytes(T, K \cup L) = SumFunctionOnSet(f, A \cup B)
        /\ OkBytes(T, K) = SumFunctionOnSet(f, A) /\ OkBytes(T, L) = SumFunctionOnSet(f, B)
    BY <1>3 DEF OkBytes
  <1> HIDE DEF f, A, B
  <1>6. SumFunctionOnSet(f, K \cup L) = SumFunctionOnSet(f, K) + SumFunctionOnSet(f, L)
    BY <1>1, <1>2, SumUnion
  <1>7. SumFunctionOnSet(f, A \cup B) = SumFunctionOnSet(f, A) + SumFunctionOnSet(f, B)
    BY <1>1, <1>2, <1>3, SumUnion
  <1> QED BY <1>4, <1>5, <1>6, <1>7

-----------------------------------------------------------------------------
(* Nothing holds more than was recorded *)

LEMMA RecordedStep == TypeInv /\ RecordedInv /\ [Next]_vars => RecordedInv'
  <1> SUFFICES ASSUME TypeInv, RecordedInv, [Next]_vars PROVE RecordedInv'
    OBVIOUS
  <1> USE DEF TypeInv
  <1>1. /\ sample \in [Key -> Sample] /\ archive \in [Key -> Sample]
        /\ rolled \subseteq RollupKey /\ rollup \in [RollupKey -> Rollup]
    BY DEF TypeOK
  <1>2. \A k \in Key : sample[k].bytes \in Nat /\ archive[k].bytes \in Nat
    BY <1>1 DEF Sample
  <1>3. \A r \in RollupKey : rollup[r].bytes \in Nat
    BY <1>1 DEF Rollup
  <1>4. CASE UNCHANGED <<tables, history>>
    <2>1. UNCHANGED <<sample, archive, rolled, rollup>>
      BY <1>4 DEF tables, history
    <2> QED BY <2>1 DEF RecordedInv, AllBytes
  <1>5. ASSUME NEW C \in SUBSET Credential, NEW new \in [C -> Sample], Insert(C, new),
               UNCHANGED <<clock, rolled, rollup>>
        PROVE  RecordedInv'
    <2> DEFINE written == {now} \X C
    <2>1. /\ written \subseteq Key
          /\ archive' \in [Key -> Sample]
          /\ \A k \in Key : archive'[k].bytes >= archive[k].bytes
          /\ \A k \in Key \ written : sample'[k] = sample[k] /\ archive'[k] = archive[k]
          /\ \A k \in written : /\ sample'[k] = Merge(sample[k], new[k[2]])
                                /\ archive'[k] = Merge(archive[k], new[k[2]])
      BY <1>5, InsertIs
    <2>2. \A k \in written : k[2] \in C
      OBVIOUS
    <2> HIDE DEF written
    <2>3. ASSUME NEW k \in Key PROVE sample'[k].bytes <= archive'[k].bytes
      <3>1. sample[k].bytes <= archive[k].bytes
        BY DEF RecordedInv
      <3>2. CASE k \in written
        <4>1. new[k[2]] \in Sample /\ sample[k] \in Sample /\ archive[k] \in Sample
          BY <1>1, <2>2, <3>2
        <4>2. /\ sample'[k].bytes = sample[k].bytes + new[k[2]].bytes
              /\ archive'[k].bytes = archive[k].bytes + new[k[2]].bytes
          BY <2>1, <3>2, <4>1, MergeTyped
        <4>3. new[k[2]].bytes \in Nat
          BY <4>1 DEF Sample
        <4> QED BY <1>2, <3>1, <4>2, <4>3
      <3>3. CASE k \notin written
        BY <2>1, <3>1, <3>3
      <3> QED BY <3>2, <3>3
    <2>4. ASSUME NEW r \in rolled PROVE rollup[r].bytes <= AllBytes(archive', Period(r))
      <3>1. \A k \in Period(r) : archive[k].bytes <= archive'[k].bytes
        <4>1. \A k \in Key : archive'[k].bytes \in Nat
          BY <2>1 DEF Sample
        <4> QED BY <1>2, <2>1, <4>1, PeriodIsKeys
      <3>2. Period(r) \in SUBSET Key /\ Period(r) \in SUBSET Period(r)
        BY PeriodIsKeys
      <3>3. AllBytes(archive, Period(r)) <= AllBytes(archive', Period(r))
        BY <1>1, <2>1, <3>1, <3>2, AllBytesGrow
      <3>4. AllBytes(archive, Period(r)) \in Nat /\ AllBytes(archive', Period(r)) \in Nat
        BY <1>1, <2>1, <3>2, SumsTyped
      <3>5. rollup[r].bytes <= AllBytes(archive, Period(r)) /\ rollup[r].bytes \in Nat
        BY <1>1, <1>3 DEF RecordedInv
      <3> QED BY <3>3, <3>4, <3>5
    <2>5. \A r \in rolled' : rollup'[r].bytes <= AllBytes(archive', Period(r))
      BY <1>5, <2>4
    <2> QED BY <2>3, <2>5 DEF RecordedInv, AllBytes
  <1>6. CASE Maintain
    <2>1. /\ archive' = archive
          /\ \A k \in Key : k \in sampled' => sample'[k] = sample[k]
          /\ \A k \in Key : k \notin sampled' => sample'[k] = NoSample
      BY <1>6, MaintainIs
    <2>2. ASSUME NEW k \in Key PROVE sample'[k].bytes <= archive'[k].bytes
      <3>1. NoSample.bytes = 0
        BY DEF NoSample
      <3> QED BY <1>2, <2>1, <3>1 DEF RecordedInv
    <2>3. ASSUME NEW r \in rolled' PROVE rollup'[r].bytes <= AllBytes(archive, Period(r))
      <3>1. CASE r \in Built(sampled)
        <4> DEFINE K == Period(r) \cap sampled
        <4>1. sampled \in SUBSET Key /\ K \in SUBSET Key /\ K \in SUBSET Period(r)
              /\ Period(r) \in SUBSET Key
          BY PeriodIsKeys DEF TypeOK
        <4>2. rollup'[r].bytes = OkBytes(sample, K)
          BY <1>6, <3>1, <4>1, MaintainIs, ValueTyped
        <4>3. \A k \in K : sample[k].bytes <= archive[k].bytes
          BY <4>1 DEF RecordedInv
        <4> HIDE DEF K
        <4>4. AllBytes(sample, K) <= AllBytes(archive, Period(r))
          BY <1>1, <4>1, <4>3, AllBytesGrow
        <4>5. /\ OkBytes(sample, K) <= AllBytes(sample, K)
              /\ OkBytes(sample, K) \in Nat /\ AllBytes(sample, K) \in Nat
              /\ AllBytes(archive, Period(r)) \in Nat
          BY <1>1, <4>1, SumsTyped
        <4> QED BY <4>2, <4>4, <4>5
      <3>2. CASE r \notin Built(sampled)
        BY <1>6, <3>2, MaintainIs DEF RecordedInv
      <3> QED BY <3>1, <3>2
    <2> QED BY <2>1, <2>2, <2>3 DEF RecordedInv, AllBytes
  <1>7. (SetClock \/ UNCHANGED vars) => UNCHANGED <<tables, history>>
    BY DEF SetClock, vars
  <1> QED BY <1>4, <1>5, <1>6, <1>7, Steps

LEMMA Recorded == Spec => [](TypeInv /\ RecordedInv)
  <1>1. Init => RecordedInv
    BY DEF Init, RecordedInv, NoSample
  <1> QED BY <1>1, RecordedStep, Typed, PTL DEF Spec

LEMMA RolledTyped ==
  ASSUME TypeInv, NEW kind, NEW R \in SUBSET rolled, \A r \in R : r.kind = kind
  PROVE  /\ IsFiniteSet(R) /\ RolledBytes(R) \in Nat
         /\ \A r \in R : rollup[r].bytes \in Nat
  <1> DEFINE f == [r \in RollupKey |-> rollup[r].bytes]
  <1>1. R \in SUBSET RollupKey /\ IsFiniteSet(R)
    BY RollupsFinite DEF TypeInv, TypeOK
  <1>2. \A r \in R : f[r] \in Nat /\ rollup[r].bytes \in Nat
    BY <1>1 DEF TypeInv, TypeOK, Rollup
  <1>3. RolledBytes(R) = SumFunctionOnSet(f, R)
    BY DEF RolledBytes
  <1> HIDE DEF f
  <1> QED BY <1>1, <1>2, <1>3, SumType

\* Rollups R and samples K together, when none counts a minute of another.
LEMMA MixtureWithin ==
  ASSUME TypeInv, RecordedInv, NEW kind, NEW R \in SUBSET rolled, \A r \in R : r.kind = kind,
         NEW K \in SUBSET Key, K \cap Periods(R) = {},
         NEW L \in SUBSET Key, Periods(R) \cup K \subseteq L
  PROVE  RolledBytes(R) + OkBytes(sample, K) <= AllBytes(archive, L)
  <1> DEFINE f == [r \in RollupKey |-> rollup[r].bytes]
             g == [r \in R |-> AllBytes(archive, Period(r))]
             P == Periods(R)
  <1>1. /\ sample \in [Key -> Sample] /\ archive \in [Key -> Sample]
        /\ R \in SUBSET RollupKey /\ P \in SUBSET Key
    BY PeriodsAreKeys DEF TypeInv, TypeOK
  <1>2. \A r \in R : g[r] \in Nat /\ f[r] \in Nat /\ f[r] <= g[r]
    BY <1>1, SumsTyped, PeriodIsKeys, RolledTyped DEF RecordedInv
  <1>3. RolledBytes(R) = SumFunctionOnSet(f, R)
    BY DEF RolledBytes
  <1>4. SumFunctionOnSet(g, R) = AllBytes(archive, P)
    BY <1>1, PartsAddUp
  <1>5. IsFiniteSet(R) /\ RolledBytes(R) \in Nat
    BY RolledTyped
  <1>6. P \cap K = {} /\ P \cup K \in SUBSET L
    OBVIOUS
  <1>7. \A k \in P \cup K : archive[k].bytes <= archive[k].bytes
    BY <1>1 DEF Sample
  <1>8. \A k \in K : sample[k].bytes <= archive[k].bytes
    BY DEF RecordedInv
  <1> HIDE DEF f, g, P
  <1>9. SumFunctionOnSet(f, R) <= SumFunctionOnSet(g, R)
    BY <1>2, <1>5, SumMonotone
  <1>10. AllBytes(archive, P \cup K) = AllBytes(archive, P) + AllBytes(archive, K)
    BY <1>1, <1>6, SumsSplit
  <1>11. AllBytes(archive, P \cup K) <= AllBytes(archive, L)
    BY <1>1, <1>6, <1>7, AllBytesGrow
  <1>12. K \in SUBSET K /\ AllBytes(sample, K) <= AllBytes(archive, K)
    BY <1>1, <1>8, AllBytesGrow
  <1>13. OkBytes(sample, K) <= AllBytes(sample, K)
    BY <1>1, SumsTyped
  <1>14. /\ OkBytes(sample, K) \in Nat /\ AllBytes(sample, K) \in Nat
         /\ AllBytes(archive, K) \in Nat /\ AllBytes(archive, P) \in Nat
         /\ AllBytes(archive, L) \in Nat
    BY <1>1, SumsTyped
  <1> QED BY <1>3, <1>4, <1>5, <1>9, <1>10, <1>11, <1>12, <1>13, <1>14

\* ... and when they are complete and together count all there is.
LEMMA MixtureExact ==
  ASSUME TypeInv, NEW kind, NEW R \in SUBSET rolled, \A r \in R : r.kind = kind,
         \A r \in R : rollup[r].bytes = OkBytes(archive, Period(r)),
         NEW K \in SUBSET Key, K \cap Periods(R) = {}, \A k \in K : sample[k] = archive[k],
         NEW L \in SUBSET Key, Periods(R) \cup K \subseteq L,
         \A k \in L \ (Periods(R) \cup K) : archive[k] = NoSample
  PROVE  RolledBytes(R) + OkBytes(sample, K) = OkBytes(archive, L)
  <1> DEFINE f == [r \in RollupKey |-> rollup[r].bytes]
             g == [r \in R |-> OkBytes(archive, Period(r))]
             P == Periods(R)
  <1>1. /\ sample \in [Key -> Sample] /\ archive \in [Key -> Sample]
        /\ R \in SUBSET RollupKey /\ P \in SUBSET Key
    BY PeriodsAreKeys DEF TypeInv, TypeOK
  <1>2. \A r \in R : f[r] \in Nat /\ f[r] = g[r]
    BY <1>1, RolledTyped
  <1>3. RolledBytes(R) = SumFunctionOnSet(f, R)
    BY DEF RolledBytes
  <1>4. SumFunctionOnSet(g, R) = OkBytes(archive, P)
    BY <1>1, PartsAddUp
  <1>5. IsFiniteSet(R)
    BY RolledTyped
  <1>6. P \cap K = {} /\ P \cup K \in SUBSET L /\ \A k \in L \ (P \cup K) : archive[k] = NoSample
    OBVIOUS
  <1> HIDE DEF f, g, P
  <1>7. SumFunctionOnSet(f, R) = SumFunctionOnSet(g, R)
    BY <1>2, <1>5, SumSame
  <1>8. OkBytes(archive, P \cup K) = OkBytes(archive, P) + OkBytes(archive, K)
    BY <1>1, <1>6, SumsSplit
  <1>9. OkBytes(archive, L) = OkBytes(archive, P \cup K)
    BY <1>1, <1>6, SumsIgnore
  <1>10. OkBytes(sample, K) = OkBytes(archive, K)
    BY <1>1, SumsAgree
  <1> QED BY <1>3, <1>4, <1>7, <1>8, <1>9, <1>10

-----------------------------------------------------------------------------
(* Queries never exceed what was recorded *)

\* What Top adds up.
Raw(c, from, to) ==
  {k \in sampled \cap Span(c, from, to) : \A r \in HoursWithin(c, from, to) : ~Covers(r, k[1])}

LEMMA TopParts ==
  ASSUME TypeInv, RegularHours, NEW c \in Credential, NEW to \in Bound, NEW from \in 0 .. to - 1
  PROVE  LET R == HoursWithin(c, from, to)
             K == Raw(c, from, to)
         IN /\ Top(c, from, to) = RolledBytes(R) + OkBytes(sample, K)
            /\ R \in SUBSET rolled /\ (\A r \in R : r.kind = "hour")
            /\ K \in SUBSET Key /\ K \cap Periods(R) = {}
            /\ Span(c, from, to) \in SUBSET Key /\ Periods(R) \cup K \subseteq Span(c, from, to)
  <1> DEFINE R == HoursWithin(c, from, to)
             K == Raw(c, from, to)
  <1>1. Top(c, from, to) = RolledBytes(R) + OkBytes(sample, K)
    BY DEF Top, Raw
  <1>2. R \in SUBSET rolled /\ \A r \in R : r \in RollupKey /\ r.kind = "hour" /\ r.credential = c
                                            /\ r.start >= from /\ r.start + HourLength <= to
    BY DEF HoursWithin, TypeInv, TypeOK
  <1>3. Span(c, from, to) \in SUBSET Key
    BY DEF Span, Key
  <1>4. K \in SUBSET Span(c, from, to)
    BY DEF Raw
  <1>5. to \in Nat /\ from \in Nat
    BY BoundAssumption DEF Bound
  <1>6. ASSUME NEW r \in R, NEW k \in Period(r)
        PROVE  k \in Span(c, from, to) /\ Covers(r, k[1])
    <2>1. k \in Key /\ k[1] \in Minute /\ k[2] = c /\ Start["hour"][k[1]] = r.start
      BY <1>2 DEF Period, Key
    <2>2. r.start \in Nat /\ k[1] \in Nat /\ HourLength \in Nat
      BY <1>2, <2>1, MinuteNat, BoundAssumption DEF RollupKey
    <2>3. r.start <= k[1] /\ k[1] < r.start + HourLength
      BY <2>1 DEF RegularHours
    <2>4. k[1] \in from .. to - 1
      BY <1>2, <1>5, <2>2, <2>3
    <2>5. k = <<k[1], k[2]>>
      BY <2>1 DEF Key
    <2> QED BY <2>1, <2>3, <2>4, <2>5 DEF Span, Covers
  <1>7. K \cap Periods(R) = {} /\ Periods(R) \subseteq Span(c, from, to)
    BY <1>6 DEF Raw, Periods
  <1> HIDE DEF R, K
  <1>8. K \in SUBSET Key /\ Periods(R) \cup K \subseteq Span(c, from, to)
    BY <1>3, <1>4, <1>7
  <1> QED BY <1>1, <1>2, <1>3, <1>7, <1>8 DEF R, K

\* Top never reports more than was recorded in its range.
THEOREM TopIsWithinRecorded ==
  ASSUME RegularHours
  PROVE  Spec => []TopWithinRecorded
  <1>1. TypeInv /\ RecordedInv => TopWithinRecorded
    <2> SUFFICES ASSUME TypeInv, RecordedInv,
                        NEW c \in Credential, NEW to \in Bound, NEW from \in 0 .. to - 1
                 PROVE  Top(c, from, to) <= AllBytes(archive, Span(c, from, to))
      BY DEF TopWithinRecorded
    <2> DEFINE R == HoursWithin(c, from, to)
               K == Raw(c, from, to)
    <2>1. /\ Top(c, from, to) = RolledBytes(R) + OkBytes(sample, K)
          /\ R \in SUBSET rolled /\ (\A r \in R : r.kind = "hour")
          /\ K \in SUBSET Key /\ K \cap Periods(R) = {}
          /\ Span(c, from, to) \in SUBSET Key /\ Periods(R) \cup K \subseteq Span(c, from, to)
      BY TopParts
    <2> HIDE DEF R, K
    <2> QED BY <2>1, MixtureWithin
  <1> QED BY <1>1, Recorded, PTL

LEMMA TimelineParts ==
  ASSUME TypeInv, OneZone, NEW kind \in Kind, NEW from, NEW to
  PROVE  LET R == Buckets(kind, from, to)
             K == Uncovered(kind, from, to)
         IN /\ R \in SUBSET rolled /\ (\A r \in R : r.kind = kind)
            /\ K \in SUBSET Key /\ K \cap Periods(R) = {}
  <1>1. Buckets(kind, from, to) \in SUBSET rolled /\ \A r \in Buckets(kind, from, to) : r.kind = kind
    BY DEF Buckets
  <1>2. Uncovered(kind, from, to) \in SUBSET Key
    BY DEF Uncovered, TypeInv, TypeOK
  <1>3. ASSUME NEW r \in Buckets(kind, from, to), NEW k \in Period(r)
        PROVE  k \notin Uncovered(kind, from, to)
    BY <1>1, <1>3 DEF Period, Uncovered, OneZone
  <1> QED BY <1>1, <1>2, <1>3 DEF Periods

\* A timeline never shows more than was recorded from its start on.
THEOREM TimelineIsWithinRecorded ==
  ASSUME RegularPeriods, OneZone
  PROVE  Spec => []TimelineWithinRecorded
  <1>1. TypeInv /\ RecordedInv => TimelineWithinRecorded
    <2> SUFFICES ASSUME TypeInv, RecordedInv,
                        NEW kind \in Kind, NEW to \in Bound, NEW from \in 0 .. to - 1
                 PROVE  TimelineBytes(kind, from, to) <=
                          AllBytes(archive, {k \in Key : k[1] >= from})
      BY DEF TimelineWithinRecorded
    <2> DEFINE R == Buckets(kind, from, to)
               K == Uncovered(kind, from, to)
               L == {k \in Key : k[1] >= from}
    <2>1. /\ R \in SUBSET rolled /\ (\A r \in R : r.kind = kind)
          /\ K \in SUBSET Key /\ K \cap Periods(R) = {}
      BY TimelineParts
    <2>2. TimelineBytes(kind, from, to) = RolledBytes(R) + OkBytes(sample, K)
      BY DEF TimelineBytes
    <2>3. to \in Nat /\ from \in Nat
      BY BoundAssumption DEF Bound
    <2>4. ASSUME NEW r \in R, NEW k \in Period(r) PROVE k \in L
      <3>1. k \in Key /\ k[1] \in Minute /\ Start[kind][k[1]] = r.start /\ from <= r.start
        BY <2>1 DEF Period, Key, Buckets
      <3>2. r.start <= k[1] /\ r.start \in Nat /\ k[1] \in Nat
        BY <3>1, MinuteNat, ZoneAssumption DEF RegularPeriods
      <3> QED BY <2>3, <3>1, <3>2
    <2>5. Periods(R) \subseteq L
      BY <2>4 DEF Periods
    <2>6. K \subseteq L
      <3>1. \A k \in K : k \in Key /\ k[1] \in Minute /\ from <= k[1]
        BY <2>1 DEF Uncovered, Key
      <3> QED BY <2>3, <3>1, MinuteNat
    <2>7. L \in SUBSET Key /\ Periods(R) \cup K \subseteq L
      BY <2>5, <2>6
    <2> HIDE DEF R, K, L
    <2>8. TimelineBytes(kind, from, to) <= AllBytes(archive, L)
      BY <2>1, <2>2, <2>7, MixtureWithin
    <2> QED BY <2>8 DEF L
  <1> QED BY <1>1, Recorded, PTL

-----------------------------------------------------------------------------
(* What was rolled up had ended, by the latest time the clock ever showed *)

PastInv == TypeInv /\ ClockInv /\ EndedInv

\* The highest value h of a clock, after it shows t.
LEMMA HighestSoFar ==
  ASSUME NEW t \in Nat, NEW h \in Nat, NEW n \in Nat, t >= h - n,
         NEW new, new = IF t > h THEN t ELSE h
  PROVE  t <= new /\ new - n <= t /\ h <= new /\ new \in Nat
  <1>1. CASE t > h
    BY <1>1
  <1>2. CASE ~(t > h)
    BY <1>2
  <1> QED BY <1>1, <1>2

LEMMA PastStep == PastInv /\ [Next]_vars => (ClockInv /\ EndedInv)'
  <1> SUFFICES ASSUME PastInv, [Next]_vars PROVE (ClockInv /\ EndedInv)'
    OBVIOUS
  <1> USE DEF PastInv, TypeInv
  <1>1. now \in Nat /\ latest \in Nat /\ MaxStep \in Nat
    BY MinuteNat, BoundAssumption DEF TypeOK
  <1>2. \A r \in rolled : r \in RollupKey
    BY DEF TypeOK
  <1>3. \A kind \in Kind, m \in Minute : End[kind][m] \in Nat
    BY ZoneAssumption
  <1>4. CASE UNCHANGED <<clock, rolled>>
    BY <1>4 DEF clock, ClockInv, EndedInv
  <1>5. CASE SetClock
    <2>1. now' \in Nat /\ now' >= latest - MaxStep /\ rolled' = rolled
          /\ latest' = IF now' > latest THEN now' ELSE latest
      BY <1>5, MinuteNat DEF SetClock, tables
    <2>2. now' <= latest' /\ latest' - MaxStep <= now' /\ latest <= latest' /\ latest' \in Nat
      BY <1>1, <2>1, HighestSoFar
    <2>3. \A kind \in Kind, m \in Minute : End[kind][m] <= latest => End[kind][m] <= latest'
      BY <1>1, <1>3, <2>2
    <2>4. \A r \in rolled : r.kind \in Kind
      BY <1>2 DEF RollupKey
    <2> QED BY <2>1, <2>2, <2>3, <2>4 DEF ClockInv, EndedInv
  <1>6. CASE Maintain
    <2>1. UNCHANGED <<now, latest>> /\ rolled' \subseteq RollupKey
          /\ \A r \in rolled' : r \in rolled \/ r \in Built(sampled)
      BY <1>6, MaintainIs DEF clock
    <2>2. ASSUME NEW r \in Built(sampled)
          PROVE  \E m \in Minute : Start[r.kind][m] = r.start /\ End[r.kind][m] <= latest
      <3>1. sampled \in SUBSET Key
        BY DEF TypeOK
      <3>2. PICK k \in sampled : r.kind \in Kind /\ Closed(r.kind, k[1]) /\ r = RollupOf(r.kind, k)
        BY <3>1, BuiltIs
      <3>3. k \in Key /\ k[1] \in Minute
        BY <3>1 DEF Key
      <3>4. r.start = Start[r.kind][k[1]]
        BY <3>2, <3>3, RollupOfKey
      <3>5. End[r.kind][k[1]] <= now /\ now <= latest /\ End[r.kind][k[1]] \in Nat
        BY <1>3, <3>2, <3>3 DEF Closed, ClockInv
      <3>6. End[r.kind][k[1]] <= latest
        BY <1>1, <3>5
      <3> QED BY <3>3, <3>4, <3>6
    <2> QED BY <2>1, <2>2 DEF ClockInv, EndedInv
  <1>7. UNCHANGED vars => UNCHANGED <<clock, rolled>>
    BY DEF vars, tables
  <1> QED BY <1>4, <1>5, <1>6, <1>7, Steps

LEMMA Past == Spec => []PastInv
  <1>1. Init => ClockInv /\ EndedInv
    <2> SUFFICES ASSUME Init PROVE ClockInv /\ EndedInv
      OBVIOUS
    <2>1. now = 0 /\ latest = 0 /\ rolled = {}
      BY DEF Init
    <2> QED BY <2>1, BoundAssumption DEF ClockInv, EndedInv
  <1>2. PastInv /\ [Next]_vars => PastInv'
    BY PastStep, NextTyped DEF PastInv
  <1>3. Init => PastInv
    BY <1>1, InitTyped DEF PastInv
  <1> QED BY <1>2, <1>3, PTL DEF Spec

-----------------------------------------------------------------------------
(* Samples that are kept are what was recorded, when the clock is never    *)
(* stepped back further than samples are kept.                              *)

LEMMA KeptStep ==
  ASSUME StepsAreShort, PastInv, KeptInv, [Next]_vars
  PROVE  KeptInv'
  <1> USE DEF PastInv, TypeInv
  <1>1. now \in Nat /\ latest \in Nat /\ MaxStep \in Nat
    BY MinuteNat, BoundAssumption DEF TypeOK
  <1>2. retention.minutes \in Nat /\ MaxStep <= retention.minutes
    BY BoundAssumption DEF TypeOK, StepsAreShort
  <1>3. \A k \in recorded : k \in Key /\ k[1] \in Nat
    BY MinuteNat DEF TypeOK, Key
  <1>4. CASE UNCHANGED vars
    BY <1>4 DEF vars, clock, tables, history, KeptInv
  <1>5. CASE SetClock
    <2>1. now' \in Nat /\ latest' = IF now' > latest THEN now' ELSE latest
      BY <1>5, MinuteNat DEF SetClock
    <2>2. latest' \in Nat /\ latest <= latest'
      BY <1>1, <2>1
    <2>3. UNCHANGED <<retention, recorded, sampled, sample, archive>>
      BY <1>5 DEF SetClock, tables, history
    <2>4. \A k \in recorded \ sampled : k[1] < latest' - retention.minutes
      BY <1>1, <1>2, <1>3, <2>2 DEF KeptInv
    <2> QED BY <2>3, <2>4 DEF KeptInv
  <1>6. ASSUME NEW C \in SUBSET Credential, NEW new \in [C -> Sample], Insert(C, new),
               UNCHANGED <<clock, rolled, rollup>>
        PROVE  KeptInv'
    <2> DEFINE written == {now} \X C
    <2>1. /\ written \subseteq Key
          /\ sampled' = sampled \cup written /\ recorded' = recorded \cup written
          /\ \A k \in Key \ written : sample'[k] = sample[k] /\ archive'[k] = archive[k]
          /\ \A k \in written : /\ sample'[k] = Merge(sample[k], new[k[2]])
                                /\ archive'[k] = Merge(archive[k], new[k[2]])
      BY <1>6, InsertIs
    <2>2. \A k \in written : k[1] = now
      OBVIOUS
    <2> HIDE DEF written
    <2>3. ASSUME NEW k \in written PROVE sample[k] = archive[k]
      <3>1. k \notin recorded \ sampled
        <4>1. now >= latest - retention.minutes
          BY <1>1, <1>2 DEF ClockInv
        <4> QED BY <1>1, <1>2, <2>2, <4>1 DEF KeptInv
      <3>2. CASE k \in sampled
        BY <3>2 DEF KeptInv
      <3>3. CASE k \notin recorded
        BY <2>1, <3>3 DEF TypeOK, ArchiveInv
      <3> QED BY <3>1, <3>2, <3>3
    <2>4. \A k \in sampled' : sample'[k] = archive'[k]
      BY <1>3, <2>1, <2>3 DEF KeptInv, TypeOK
    <2>5. recorded' \ sampled' \subseteq recorded \ sampled /\ UNCHANGED <<retention, latest>>
      BY <1>6, <2>1 DEF clock
    <2> QED BY <2>4, <2>5 DEF KeptInv
  <1>7. CASE Maintain
    <2>1. /\ sampled' \subseteq sampled
          /\ \A k \in sampled \ sampled' : ~(k[1] >= now - retention.minutes)
          /\ \A k \in sampled' : sample'[k] = sample[k]
          /\ UNCHANGED <<retention, latest, recorded, archive>>
      BY <1>7, MaintainIs DEF clock
    <2>2. ASSUME NEW k \in recorded \ sampled' PROVE k[1] < latest - retention.minutes
      <3>1. CASE k \in sampled
        <4>1. ~(k[1] >= now - retention.minutes) /\ k[1] \in Nat /\ now <= latest
          BY <1>3, <2>1, <3>1 DEF ClockInv
        <4> QED BY <1>1, <1>2, <4>1
      <3>2. CASE k \notin sampled
        BY <3>2 DEF KeptInv
      <3> QED BY <3>1, <3>2
    <2> QED BY <2>1, <2>2 DEF KeptInv
  <1> QED BY <1>4, <1>5, <1>6, <1>7, Steps

LEMMA KeptAreExact ==
  ASSUME StepsAreShort
  PROVE  Spec => [](PastInv /\ KeptInv)
  <1>1. Init => KeptInv
    BY DEF Init, KeptInv
  <1>2. PastInv /\ KeptInv /\ [Next]_vars => KeptInv'
    BY KeptStep
  <1> QED BY <1>1, <1>2, Past, PTL DEF Spec

-----------------------------------------------------------------------------
(* While the samples of a period are kept its rollup is complete.           *)

LEMMA RollupStep ==
  ASSUME RegularPeriods, PastInv, KeptInv, RollupInv, [Next]_vars
  PROVE  RollupInv'
  <1> USE DEF PastInv, TypeInv
  <1>1. /\ sample \in [Key -> Sample] /\ archive \in [Key -> Sample]
        /\ rolled \subseteq RollupKey /\ sampled \in SUBSET Key /\ sampled \subseteq recorded
        /\ recorded \in SUBSET Key /\ late \subseteq Kind \X recorded
    BY DEF TypeOK
  <1>2. CASE UNCHANGED <<tables, history>>
    <2>1. UNCHANGED <<sampled, archive, rolled, rollup, recorded, late>>
      BY <1>2 DEF tables, history
    <2> QED BY <2>1 DEF RollupInv, Intact, AreKept, Whole, OkBytes, Gaps
  <1>3. ASSUME NEW C \in SUBSET Credential, NEW new \in [C -> Sample], Insert(C, new),
               UNCHANGED <<clock, rolled, rollup>>
        PROVE  RollupInv'
    <2> DEFINE written == {now} \X C
    <2>1. /\ written \subseteq Key
          /\ sampled' = sampled \cup written /\ recorded' = recorded \cup written
          /\ late' = late \cup {x \in Kind \X written : now < latest}
          /\ archive' \in [Key -> Sample]
          /\ \A k \in Key \ written : archive'[k] = archive[k]
      BY <1>3, InsertIs
    <2>2. \A k \in written : k[1] = now
      OBVIOUS
    <2> HIDE DEF written
    <2>3. ASSUME NEW r \in rolled, Intact(r.kind, Period(r))'
          PROVE  rollup[r] = [bytes |-> OkBytes(archive', Period(r)),
                              gaps |-> Gaps(archive', Period(r))]
      <3>1. r \in RollupKey /\ r.kind \in Kind
        BY <1>1 DEF RollupKey
      <3>2. /\ Period(r) \cap recorded' \subseteq sampled'
            /\ late' \cap ({r.kind} \X Period(r)) = {}
        BY <2>3 DEF Intact, AreKept
      <3>3. ASSUME NEW k \in written, k \in Period(r) PROVE FALSE
        <4>1. k \in Key /\ k[1] \in Minute /\ Start[r.kind][k[1]] = r.start
          BY <3>3 DEF Period, Key
        <4>2. PICK m \in Minute : Start[r.kind][m] = r.start /\ End[r.kind][m] <= latest
          BY DEF EndedInv
        <4>3. End[r.kind][k[1]] = End[r.kind][m] /\ k[1] < End[r.kind][k[1]]
          BY <3>1, <4>1, <4>2 DEF RegularPeriods
        <4>4. now \in Nat /\ latest \in Nat /\ End[r.kind][m] \in Nat /\ k[1] = now
          BY <2>2, <3>1, MinuteNat, ZoneAssumption DEF TypeOK
        <4>5. now < latest
          BY <4>2, <4>3, <4>4
        <4>6. <<r.kind, k>> \in late'
          BY <2>1, <3>1, <4>5
        <4> QED BY <3>2, <3>3, <4>6
      <3>4. Intact(r.kind, Period(r))
        BY <2>1, <3>2, <3>3 DEF Intact, AreKept
      <3>5. rollup[r] = [bytes |-> OkBytes(archive, Period(r)), gaps |-> Gaps(archive, Period(r))]
        BY <3>4 DEF RollupInv, Whole
      <3>6. Period(r) \in SUBSET Key /\ \A k \in Period(r) : archive[k] = archive'[k]
        BY <2>1, <3>3, PeriodIsKeys
      <3>7. /\ OkBytes(archive, Period(r)) = OkBytes(archive', Period(r))
            /\ Gaps(archive, Period(r)) = Gaps(archive', Period(r))
        BY <1>1, <2>1, <3>6, SumsAgree
      <3> QED BY <3>5, <3>7
    <2>4. rolled' = rolled /\ rollup' = rollup
      BY <1>3
    <2> QED BY <2>3, <2>4 DEF RollupInv, Intact, AreKept, Whole, OkBytes, Gaps
  <1>4. CASE Maintain
    <2>1. /\ \A r \in rolled' : r \in Built(sampled) => rollup'[r] = Value(r, sampled)
          /\ \A r \in rolled' : r \notin Built(sampled) => r \in rolled /\ rollup'[r] = rollup[r]
          /\ sampled' \subseteq sampled /\ rolled' \subseteq RollupKey
          /\ late' = {x \in late : ~Closed(x[1], x[2][1])}
          /\ UNCHANGED <<recorded, archive>>
      BY <1>4, MaintainIs
    <2>2. ASSUME NEW r \in rolled', Intact(r.kind, Period(r))'
          PROVE  rollup'[r] = Whole(r)
      <3>1. r \in RollupKey /\ r.kind \in Kind
        BY <2>1 DEF RollupKey
      <3>2. /\ Period(r) \cap recorded \subseteq sampled'
            /\ late' \cap ({r.kind} \X Period(r)) = {}
        BY <2>1, <2>2 DEF Intact, AreKept
      <3>3. CASE r \in Built(sampled)
        <4> DEFINE K == Period(r) \cap sampled
        <4>1. Period(r) \in SUBSET Key /\ K \in SUBSET Period(r) /\ K \in SUBSET Key
          BY PeriodIsKeys
        <4>2. /\ \A k \in K : sample[k] = archive[k]
              /\ \A k \in Period(r) \ K : archive[k] = NoSample
          BY <2>1, <3>2, <4>1 DEF KeptInv, ArchiveInv
        <4>3. rollup'[r] = [bytes |-> OkBytes(sample, K), gaps |-> Gaps(sample, K)]
          BY <2>1, <3>3 DEF Value
        <4> HIDE DEF K
        <4>4. OkBytes(sample, K) = OkBytes(archive, K) /\ Gaps(sample, K) = Gaps(archive, K)
          BY <1>1, <4>1, <4>2, SumsAgree
        <4>5. /\ OkBytes(archive, K) = OkBytes(archive, Period(r))
              /\ Gaps(archive, K) = Gaps(archive, Period(r))
          BY <1>1, <4>1, <4>2, SumsIgnore
        <4> QED BY <4>3, <4>4, <4>5 DEF Whole
      <3>4. CASE r \notin Built(sampled)
        <4>1. r \in rolled /\ rollup'[r] = rollup[r]
          BY <2>1, <3>4
        <4>2. ASSUME NEW k \in Period(r), <<r.kind, k>> \in late PROVE FALSE
          <5>1. k \in recorded /\ k \in Key
            BY <1>1, <4>2
          <5>2. k \in sampled
            BY <2>1, <3>2, <5>1
          <5>3. <<r.kind, k>> \in late => Closed(r.kind, k[1]) \/ <<r.kind, k>> \in late'
            BY <2>1
          <5>4. Closed(r.kind, k[1])
            BY <3>2, <4>2, <5>3
          <5>5. r = RollupOf(r.kind, k)
            BY <3>1, PeriodOfKey
          <5>6. r \in Built(sampled)
            BY <1>1, <3>1, <5>2, <5>4, <5>5, BuiltIs
          <5> QED BY <3>4, <5>6
        <4>3. late \cap ({r.kind} \X Period(r)) = {}
          BY <4>2
        <4>4. Intact(r.kind, Period(r))
          BY <2>1, <3>2, <4>3 DEF Intact, AreKept
        <4> QED BY <4>1, <4>4 DEF RollupInv
      <3> QED BY <3>3, <3>4
    <2>3. archive' = archive
      BY <2>1
    <2> QED BY <2>2, <2>3 DEF RollupInv, Intact, AreKept, Whole, OkBytes, Gaps
  <1>5. (SetClock \/ UNCHANGED vars) => UNCHANGED <<tables, history>>
    BY DEF SetClock, vars
  <1> QED BY <1>2, <1>3, <1>4, <1>5, Steps

ExactInv == PastInv /\ KeptInv /\ RollupInv

LEMMA Exact ==
  ASSUME RegularPeriods, StepsAreShort
  PROVE  Spec => []ExactInv
  <1>1. Init => RollupInv
    BY DEF Init, RollupInv
  <1>2. PastInv /\ KeptInv /\ RollupInv /\ [Next]_vars => RollupInv'
    BY RollupStep
  <1>3. PastInv /\ KeptInv /\ RollupInv => ExactInv
    BY DEF ExactInv
  <1> QED BY <1>1, <1>2, <1>3, KeptAreExact, PTL DEF Spec

-----------------------------------------------------------------------------
(* Queries are exact while the samples of their range are kept *)

LEMMA WholeParts ==
  \A r : Whole(r).bytes = OkBytes(archive, Period(r)) /\ Whole(r).gaps = Gaps(archive, Period(r))
  BY DEF Whole

\* While the samples of a range are kept, Top is the sum of its complete samples.
THEOREM TopIsExactWhileKept ==
  ASSUME RegularHours, RegularPeriods, StepsAreShort
  PROVE  Spec => []TopIsExact
  <1>1. ExactInv => TopIsExact
    <2> SUFFICES ASSUME ExactInv, NEW c \in Credential, NEW to \in Bound, NEW from \in 0 .. to - 1,
                        Intact("hour", Span(c, from, to))
                 PROVE  Top(c, from, to) = OkBytes(archive, Span(c, from, to))
      BY DEF TopIsExact
    <2> USE DEF ExactInv, PastInv, TypeInv
    <2> DEFINE R == HoursWithin(c, from, to)
               K == Raw(c, from, to)
               L == Span(c, from, to)
    <2>1. /\ Top(c, from, to) = RolledBytes(R) + OkBytes(sample, K)
          /\ R \in SUBSET rolled /\ (\A r \in R : r.kind = "hour")
          /\ K \in SUBSET Key /\ K \cap Periods(R) = {}
          /\ L \in SUBSET Key /\ Periods(R) \cup K \subseteq L
      BY TopParts
    <2>2. /\ L \cap recorded \subseteq sampled
          /\ late \cap ({"hour"} \X L) = {}
      BY DEF Intact, AreKept
    <2>3. \A r \in R : r \in RollupKey /\ r.credential = c
      BY DEF HoursWithin, TypeOK
    <2>4. \A k \in L : k \in Key /\ k[1] \in Minute /\ k[2] = c
      BY <2>1 DEF Span, Key
    <2>5. \A k \in K : k \in sampled
      BY DEF Raw
    <2>6. ASSUME NEW k \in L, k \in sampled, k \notin K
          PROVE  k \in Periods(R)
      <3>1. PICK r \in R : Covers(r, k[1])
        BY <2>6 DEF Raw
      <3>2. PICK m \in Minute : Start["hour"][m] = r.start
        BY <2>1 DEF EndedInv
      <3>3. Start["hour"][m] = Start["hour"][k[1]]
        BY <2>4, <3>1, <3>2 DEF RegularHours, Covers
      <3>4. k \in Period(r)
        BY <2>1, <2>3, <2>4, <3>2, <3>3 DEF Period
      <3> QED BY <3>4 DEF Periods
    <2> HIDE DEF R, K, L
    <2>7. ASSUME NEW r \in R PROVE rollup[r].bytes = OkBytes(archive, Period(r))
      <3>1. Period(r) \subseteq L
        BY <2>1 DEF Periods
      <3>2. Intact(r.kind, Period(r))
        BY <2>1, <2>2, <3>1 DEF Intact, AreKept
      <3>3. rollup[r] = Whole(r)
        BY <2>1, <3>2 DEF RollupInv
      <3> QED BY <3>3 DEF Whole
    <2>8. \A k \in K : sample[k] = archive[k]
      BY <2>5 DEF KeptInv
    <2>9. ASSUME NEW k \in L \ (Periods(R) \cup K) PROVE archive[k] = NoSample
      <3>1. k \notin recorded
        BY <2>2, <2>6
      <3> QED BY <2>4, <3>1 DEF ArchiveInv
    <2>10. RolledBytes(R) + OkBytes(sample, K) = OkBytes(archive, L)
      <3>1. TypeInv
        OBVIOUS
      <3> HIDE DEF ExactInv, PastInv, TypeInv
      <3>2. \A k \in L \ (Periods(R) \cup K) : archive[k] = NoSample
        BY <2>9
      <3> QED BY <2>1, <2>7, <2>8, <3>1, <3>2, MixtureExact
    <2> QED BY <2>1, <2>10 DEF L
  <1> QED BY <1>1, Exact, PTL

\* A period without gaps is one whose samples are all complete.
LEMMA NoGaps ==
  ASSUME NEW T, NEW K \in SUBSET Key
  PROVE  Gaps(T, K) = 0 <=> \A k \in K : T[k].ok
  <1>1. IsFiniteSet({k \in K : ~T[k].ok})
    BY KeysFinite
  <1>2. Gaps(T, K) = 0 <=> {k \in K : ~T[k].ok} = {}
    BY <1>1, FS_EmptySet DEF Gaps
  <1> QED BY <1>2

\* An entry of the timeline for a whole period whose samples are kept shows its
\* bytes, and shows it complete only when no credential had a gap.
THEOREM TimelineIsExactWhileKept ==
  ASSUME RegularPeriods, OneZone, StepsAreShort
  PROVE  Spec => []TimelineIsExact
  <1>1. ExactInv => TimelineIsExact
    <2> SUFFICES ASSUME ExactInv, NEW kind \in Kind, NEW s \in {Shown[kind][m] : m \in Minute},
                          Intact(kind, {k \in Key : Shown[kind][k[1]] = s}),
                          NEW to \in Bound, NEW from \in 0 .. to - 1,
                          \A k \in {k \in Key : Shown[kind][k[1]] = s} : from <= k[1] /\ k[1] < to
                   PROVE  LET L == {k \in Key : Shown[kind][k[1]] = s} IN
                          Entry(kind, from, to, s) =
                            [bytes |-> OkBytes(archive, L), ok |-> \A k \in L : archive[k].ok]
      BY DEF TimelineIsExact
    <2> USE DEF ExactInv, PastInv, TypeInv
    <2> DEFINE L == {k \in Key : Shown[kind][k[1]] = s}
               R == {r \in Buckets(kind, from, to) : r.start = s}
               K == {k \in Uncovered(kind, from, to) : Shown[kind][k[1]] = s}
    <2>2. Entry(kind, from, to, s) =
            [bytes |-> RolledBytes(R) + OkBytes(sample, K),
             ok |-> (\A r \in R : rollup[r].gaps = 0) /\ (\A k \in K : sample[k].ok)]
      BY DEF Entry
    <2>3. /\ R \in SUBSET rolled /\ (\A r \in R : r.kind = kind)
          /\ K \in SUBSET Key /\ K \cap Periods(R) = {}
      <3> DEFINE B == Buckets(kind, from, to)
                 U == Uncovered(kind, from, to)
      <3>1. /\ B \in SUBSET rolled /\ (\A r \in B : r.kind = kind)
            /\ U \in SUBSET Key /\ U \cap Periods(B) = {}
        BY TimelineParts
      <3>2. R \subseteq B /\ K \subseteq U
        OBVIOUS
      <3> HIDE DEF B, U, R, K
      <3>3. Periods(R) \subseteq Periods(B)
        BY <3>2 DEF Periods
      <3> QED BY <3>1, <3>2, <3>3
    <2>4. /\ L \cap recorded \subseteq sampled
          /\ late \cap ({kind} \X L) = {}
      BY DEF Intact, AreKept
    <2>5. \A r \in R : Period(r) \subseteq L
      BY <2>3 DEF Period, OneZone
    <2>6. L \in SUBSET Key /\ Periods(R) \cup K \subseteq L
      BY <2>3, <2>5 DEF Periods
    <2>7. \A k \in K : k \in sampled
      BY DEF Uncovered
    <2>8. ASSUME NEW k \in L, k \in sampled, k \notin K
          PROVE  k \in Periods(R)
      <3>1. k \in Key /\ Shown[kind][k[1]] = s /\ from <= k[1] /\ k[1] < to
        OBVIOUS
      <3>2. PICK r \in Buckets(kind, from, to) : r.credential = k[2] /\ r.start = s
        BY <2>8, <3>1 DEF Uncovered
      <3>3. r \in R /\ r.kind = kind
        BY <2>3, <3>2
      <3>4. k \in Period(r)
        BY <3>1, <3>2, <3>3 DEF Period, OneZone
      <3> QED BY <3>3, <3>4 DEF Periods
    <2> HIDE DEF R, K, L
    <2>9. ASSUME NEW r \in R PROVE rollup[r] = Whole(r)
      <3>1. Period(r) \subseteq L
        BY <2>5
      <3>2. Intact(r.kind, Period(r))
        BY <2>3, <2>4, <3>1 DEF Intact, AreKept
      <3> QED BY <2>3, <3>2 DEF RollupInv
    <2>10. \A k \in K : sample[k] = archive[k]
      BY <2>7 DEF KeptInv
    <2>11. ASSUME NEW k \in L \ (Periods(R) \cup K) PROVE archive[k] = NoSample
      <3>1. k \notin recorded
        BY <2>4, <2>8
      <3> QED BY <2>6, <3>1 DEF ArchiveInv
    <2>12. RolledBytes(R) + OkBytes(sample, K) = OkBytes(archive, L)
      <3>1. \A r \in R : rollup[r].bytes = OkBytes(archive, Period(r))
        BY <2>9, WholeParts
      <3>2. TypeInv
        OBVIOUS
      <3> HIDE DEF ExactInv, PastInv, TypeInv
      <3>3. \A k \in L \ (Periods(R) \cup K) : archive[k] = NoSample
        BY <2>11
      <3> QED BY <2>3, <2>6, <2>10, <3>1, <3>2, <3>3, MixtureExact
    <2>13. (\A r \in R : rollup[r].gaps = 0) /\ (\A k \in K : sample[k].ok)
             <=> \A k \in L : archive[k].ok
      <3>1. \A r \in R : rollup[r].gaps = 0 <=> \A k \in Period(r) : archive[k].ok
        <4>1. \A r \in R : rollup[r].gaps = Gaps(archive, Period(r))
          BY <2>9, WholeParts
        <4> QED BY <4>1, NoGaps, PeriodIsKeys
      <3>2. \A k \in K : sample[k].ok <=> archive[k].ok
        BY <2>10
      <3>3. \A k \in L \ (Periods(R) \cup K) : archive[k].ok
        BY <2>11 DEF NoSample
      <3>4. \A k : k \in Periods(R) <=> \E r \in R : k \in Period(r)
        BY DEF Periods
      <3> QED BY <2>6, <3>1, <3>2, <3>3, <3>4
    <2>14. Entry(kind, from, to, s) =
             [bytes |-> OkBytes(archive, L), ok |-> \A k \in L : archive[k].ok]
      BY <2>2, <2>12, <2>13
    <2> QED BY <2>14 DEF L
  <1> QED BY <1>1, Exact, PTL

-----------------------------------------------------------------------------
(* What is deleted has been rolled up, when samples outlive their periods *)

\* What a maintenance deletes it has rolled up, unless the rollup is expired.
LEMMA DeletedIsBuilt ==
  ASSUME SamplesOutlivePeriods, TypeInv, Maintain,
         NEW k \in sampled \ sampled', NEW kind \in Kind
  PROVE  /\ RollupOf(kind, k) \in Built(sampled)
         /\ Start[kind][k[1]] >= now - retention.rollups =>
              /\ RollupOf(kind, k) \in rolled'
              /\ rollup'[RollupOf(kind, k)] = Value(RollupOf(kind, k), sampled)
  <1> DEFINE r == RollupOf(kind, k)
  <1>1. sampled \in SUBSET Key /\ k \in Key /\ k[1] \in Minute
    BY DEF TypeInv, TypeOK, Key
  <1>2. now \in Nat /\ k[1] \in Nat /\ retention.minutes \in Nat /\ End[kind][k[1]] \in Nat
    BY <1>1, MinuteNat, BoundAssumption, ZoneAssumption DEF TypeInv, TypeOK
  <1>3. ~(k[1] >= now - retention.minutes)
    BY MaintainIs DEF TypeInv
  <1>4. End[kind][k[1]] <= k[1] + retention.minutes + 1
    BY <1>1 DEF SamplesOutlivePeriods, TypeInv, TypeOK
  <1>5. Closed(kind, k[1])
    BY <1>2, <1>3, <1>4 DEF Closed
  <1>6. r \in Built(sampled)
    BY <1>1, <1>5, BuiltIs
  <1>7. r \in RollupKey /\ r.start = Start[kind][k[1]]
    BY <1>1, RollupOfKey
  <1> HIDE DEF r
  <1>8. r.start >= now - retention.rollups => r \in rolled' /\ rollup'[r] = Value(r, sampled)
    BY <1>6, <1>7, MaintainIs DEF TypeInv
  <1> QED BY <1>6, <1>7, <1>8 DEF r

LEMMA CountedStep ==
  ASSUME SamplesOutlivePeriods, PastInv, CountedInv, [Next]_vars
  PROVE  CountedInv'
  <1> USE DEF PastInv, TypeInv
  <1>1. now \in Nat /\ latest \in Nat /\ retention.rollups \in Nat
    BY MinuteNat, BoundAssumption DEF TypeOK
  <1>2. \A k \in recorded, kind \in Kind : k \in Key /\ Start[kind][k[1]] \in Nat
    BY ZoneAssumption, MinuteNat DEF TypeOK, Key
  <1>3. CASE UNCHANGED vars
    BY <1>3 DEF vars, clock, tables, history, CountedInv
  <1>4. CASE SetClock
    <2>1. now' \in Nat /\ latest' = IF now' > latest THEN now' ELSE latest
      BY <1>4, MinuteNat DEF SetClock
    <2>2. latest' \in Nat /\ latest <= latest'
      BY <1>1, <2>1
    <2>3. UNCHANGED <<retention, recorded, sampled, sample, archive, rolled>>
      BY <1>4 DEF SetClock, tables, history
    <2>4. \A k \in recorded, kind \in Kind : Start[kind][k[1]] < latest - retention.rollups
                                               => Start[kind][k[1]] < latest' - retention.rollups
      BY <1>1, <1>2, <2>2
    <2> QED BY <2>3, <2>4 DEF CountedInv
  <1>5. ASSUME NEW C \in SUBSET Credential, NEW new \in [C -> Sample], Insert(C, new),
               UNCHANGED <<clock, rolled, rollup>>
        PROVE  CountedInv'
    <2> DEFINE written == {now} \X C
    <2>1. /\ written \subseteq Key
          /\ sampled' = sampled \cup written /\ recorded' = recorded \cup written
          /\ \A k \in Key \ written : sample'[k] = sample[k] /\ archive'[k] = archive[k]
          /\ \A k \in written : /\ sample'[k] = Merge(sample[k], new[k[2]])
                                /\ archive'[k] = Merge(archive[k], new[k[2]])
      BY <1>5, InsertIs
    <2> HIDE DEF written
    <2>2. UNCHANGED <<retention, latest, rolled>>
      BY <1>5 DEF clock
    <2>3. ASSUME NEW k \in recorded' PROVE k \in recorded \/ (k \in written /\ sample[k] = archive[k])
      BY <2>1, <2>3 DEF TypeOK, ArchiveInv
    <2>4. ASSUME NEW k \in recorded', sample[k] = archive[k], k \in sampled'
          PROVE  sample'[k] = archive'[k]
      <3>1. CASE k \in written
        BY <2>1, <2>4, <3>1
      <3>2. CASE k \notin written
        <4>1. k \in Key
          BY <2>1, <2>4 DEF TypeOK
        <4> QED BY <2>1, <2>4, <3>2, <4>1
      <3> QED BY <3>1, <3>2
    <2> QED BY <2>1, <2>2, <2>3, <2>4 DEF CountedInv
  <1>6. CASE Maintain
    <2>1. /\ \A k \in sampled' : sample'[k] = sample[k]
          /\ UNCHANGED <<retention, now, latest, recorded, archive>>
      BY <1>6, MaintainIs DEF clock
    <2>2. ASSUME NEW k \in recorded, NEW kind \in Kind,
                 RollupOf(kind, k) \in rolled \cup Built(sampled),
                 ~(Start[kind][k[1]] < latest - retention.rollups)
          PROVE  RollupOf(kind, k) \in rolled'
      <3>1. Start[kind][k[1]] >= now - retention.rollups
        BY <1>1, <1>2, <2>2 DEF ClockInv
      <3>2. RollupOf(kind, k) \in RollupKey /\ RollupOf(kind, k).start = Start[kind][k[1]]
        BY <1>2, RollupOfKey
      <3> QED BY <1>6, <2>2, <3>1, <3>2, MaintainIs
    <2>3. ASSUME NEW k \in recorded, NEW kind \in Kind
          PROVE  \/ k \in sampled' /\ sample'[k] = archive[k]
                 \/ RollupOf(kind, k) \in rolled'
                 \/ Start[kind][k[1]] < latest - retention.rollups
      <3>1. CASE k \in sampled /\ sample[k] = archive[k]
        <4>1. CASE k \in sampled'
          BY <2>1, <3>1, <4>1
        <4>2. CASE k \notin sampled'
          <5>1. RollupOf(kind, k) \in Built(sampled)
            BY <1>6, <3>1, <4>2, DeletedIsBuilt
          <5> QED BY <2>2, <5>1
        <4> QED BY <4>1, <4>2
      <3>2. CASE RollupOf(kind, k) \in rolled
        BY <2>2, <3>2
      <3> QED BY <3>1, <3>2 DEF CountedInv
    <2> QED BY <2>1, <2>3 DEF CountedInv
  <1> QED BY <1>3, <1>4, <1>5, <1>6, Steps

LEMMA Counted ==
  ASSUME SamplesOutlivePeriods
  PROVE  Spec => [](PastInv /\ CountedInv)
  <1>1. Init => CountedInv
    BY DEF Init, CountedInv
  <1>2. PastInv /\ CountedInv /\ [Next]_vars => CountedInv'
    BY CountedStep
  <1> QED BY <1>1, <1>2, Past, PTL DEF Spec

\* The first rollup of a period counts all that was ever recorded in it.
THEOREM FirstRollupsAreExact ==
  ASSUME SamplesOutlivePeriods
  PROVE  Spec => FirstRollupIsExact
  <1>1. PastInv /\ CountedInv /\ [Next]_vars =>
          [\A r \in rolled' \ rolled : r.start >= latest - retention.rollups =>
             rollup'[r] = [bytes |-> OkBytes(archive, Period(r)),
                           gaps  |-> Gaps(archive, Period(r))]]_vars
    <2> SUFFICES ASSUME PastInv, CountedInv, [Next]_vars,
                        NEW r \in rolled' \ rolled, r.start >= latest - retention.rollups
                 PROVE  rollup'[r] = [bytes |-> OkBytes(archive, Period(r)),
                                      gaps  |-> Gaps(archive, Period(r))]
      OBVIOUS
    <2> USE DEF PastInv, TypeInv
    <2>1. Maintain
      BY Steps DEF SetClock, vars, tables
    <2>2. r \in RollupKey /\ r \in Built(sampled) /\ rollup'[r] = Value(r, sampled)
      BY <2>1, MaintainIs
    <2>3. /\ sample \in [Key -> Sample] /\ archive \in [Key -> Sample]
          /\ recorded \subseteq Key
          /\ latest \in Nat /\ retention.rollups \in Nat
      BY MinuteNat, BoundAssumption DEF TypeOK
    <2>4. r.kind \in Kind /\ r.start \in Nat
      BY <2>2, MinuteNat DEF RollupKey
    <2> DEFINE K == Period(r) \cap sampled
    <2>5. Period(r) \in SUBSET Key /\ K \in SUBSET Period(r) /\ K \in SUBSET Key
      BY PeriodIsKeys
    <2>6. ASSUME NEW k \in Period(r), k \in recorded
          PROVE  k \in K /\ sample[k] = archive[k]
      <3>1. r = RollupOf(r.kind, k) /\ k \in Key
        BY <2>2, PeriodOfKey
      <3>2. r.start = Start[r.kind][k[1]]
        BY <2>4, <3>1, RollupOfKey
      <3>3. ~(Start[r.kind][k[1]] < latest - retention.rollups)
        BY <2>3, <2>4, <3>2
      <3> QED BY <2>4, <2>6, <3>1, <3>3 DEF CountedInv
    <2>7. \A k \in K : sample[k] = archive[k]
      BY <2>6 DEF TypeOK
    <2>8. \A k \in Period(r) \ K : archive[k] = NoSample
      BY <2>5, <2>6 DEF ArchiveInv
    <2>9. Value(r, sampled) = [bytes |-> OkBytes(sample, K), gaps |-> Gaps(sample, K)]
      BY DEF Value
    <2> HIDE DEF K
    <2>10. OkBytes(sample, K) = OkBytes(archive, K) /\ Gaps(sample, K) = Gaps(archive, K)
      BY <2>3, <2>5, <2>7, SumsAgree
    <2>11. /\ OkBytes(archive, K) = OkBytes(archive, Period(r))
           /\ Gaps(archive, K) = Gaps(archive, Period(r))
      BY <2>3, <2>5, <2>8, SumsIgnore
    <2> QED BY <2>2, <2>9, <2>10, <2>11
  <1> QED BY <1>1, Counted, PTL DEF Spec, FirstRollupIsExact

\* One sample of a sum is not more than the sum.
LEMMA OneOfMany ==
  ASSUME NEW T \in [Key -> Sample], NEW K \in SUBSET Key, NEW k \in K
  PROVE  /\ T[k].ok => OkBytes(T, K) >= T[k].bytes
         /\ ~T[k].ok => Gaps(T, K) > 0
  <1> DEFINE f == [x \in Key |-> T[x].bytes]
             ok == {x \in K : T[x].ok}
  <1>1. /\ IsFiniteSet(ok) /\ IsFiniteSet(ok \ {k})
        /\ \A x \in ok : f[x] \in Nat
        /\ OkBytes(T, K) = SumFunctionOnSet(f, ok)
        /\ f[k] = T[k].bytes /\ T[k].bytes \in Nat
    BY KeysFinite DEF OkBytes, Sample
  <1>2. T[k].ok => k \in ok
    OBVIOUS
  <1>3. Gaps(T, K) \in Nat
    BY SumsTyped
  <1>4. ~T[k].ok => Gaps(T, K) # 0
    BY NoGaps
  <1> HIDE DEF f, ok
  <1>5. ASSUME k \in ok PROVE SumFunctionOnSet(f, ok) >= f[k]
    <2>1. SumFunctionOnSet(f, ok) = f[k] + SumFunctionOnSet(f, ok \ {k})
      BY <1>1, <1>5, SumRemove
    <2>2. SumFunctionOnSet(f, ok \ {k}) \in Nat
      BY <1>1, SumType
    <2> QED BY <1>1, <2>1, <2>2
  <1> QED BY <1>1, <1>2, <1>3, <1>4, <1>5

\* The maintenance that deletes a sample has counted it in the rollups of its
\* hour and of every longer period.
THEOREM DeletedSamplesAreRolledUp ==
  ASSUME SamplesOutlivePeriods
  PROVE  Spec => DeletedIsRolledUp
  <1>1. TypeInv /\ [Next]_vars =>
          [\A k \in sampled \ sampled', kind \in Kind :
             LET r == RollupOf(kind, k) IN
               r.start >= now - retention.rollups =>
                 /\ r \in rolled'
                 /\ sample[k].ok => rollup'[r].bytes >= sample[k].bytes
                 /\ ~sample[k].ok => rollup'[r].gaps > 0]_vars
    <2> SUFFICES ASSUME TypeInv, [Next]_vars, NEW k \in sampled \ sampled', NEW kind \in Kind,
                        RollupOf(kind, k).start >= now - retention.rollups
                 PROVE  LET r == RollupOf(kind, k) IN
                        /\ r \in rolled'
                        /\ sample[k].ok => rollup'[r].bytes >= sample[k].bytes
                        /\ ~sample[k].ok => rollup'[r].gaps > 0
      OBVIOUS
    <2> USE DEF TypeInv
    <2> DEFINE r == RollupOf(kind, k)
               K == Period(r) \cap sampled
    <2>1. k \in Key /\ sampled \in SUBSET Key /\ sample \in [Key -> Sample]
      BY DEF TypeOK
    <2>2. Maintain
      <3>1. ~(SetClock \/ UNCHANGED vars)
        BY DEF SetClock, vars, tables
      <3>2. ASSUME NEW C \in SUBSET Credential, NEW new \in [C -> Sample], Insert(C, new)
            PROVE  FALSE
        BY <3>2 DEF Insert
      <3> QED BY <3>1, <3>2, Steps
    <2>3. r.start = Start[kind][k[1]] /\ k \in K
      BY <2>1, RollupOfKey
    <2>4. r \in rolled' /\ rollup'[r] = Value(r, sampled)
      BY <2>2, <2>3, DeletedIsBuilt
    <2>5. rollup'[r].bytes = OkBytes(sample, K) /\ rollup'[r].gaps = Gaps(sample, K)
      BY <2>1, <2>4, ValueTyped
    <2>6. K \in SUBSET Key
      BY <2>1
    <2> HIDE DEF r, K
    <2>7. /\ sample[k].ok => rollup'[r].bytes >= sample[k].bytes
          /\ ~sample[k].ok => rollup'[r].gaps > 0
      BY <2>1, <2>3, <2>5, <2>6, OneOfMany
    <2> QED BY <2>4, <2>7 DEF r
  <1> QED BY <1>1, Typed, PTL DEF Spec, DeletedIsRolledUp

-----------------------------------------------------------------------------
(* The loop of an incident report *)

Turn(g, from, to, m) ==
  IF m = from THEN NothingRead
  ELSE IF m - 1 \in Timeline(from, to) THEN Read(g[m - 1], m - 1)
  ELSE g[m - 1]

\* The function g holds the reports before the minutes up to n.
Loop(g, from, to, n) == g = [m \in from .. n |-> Turn(g, from, to, m)]

LEMMA LoopExists ==
  ASSUME NEW from \in Int, NEW to \in Int, from <= to
  PROVE  \E g : Loop(g, from, to, to)
  <1> DEFINE P == {n \in from .. to : \E g : Loop(g, from, to, n)}
  <1>1. from \in P
    <2> DEFINE g == [m \in from .. from |-> NothingRead]
    <2>1. \A m \in from .. from : Turn(g, from, to, m) = NothingRead
      BY DEF Turn
    <2>2. g = [m \in from .. from |-> Turn(g, from, to, m)]
      BY <2>1
    <2> QED BY <2>2 DEF Loop
  <1>2. ASSUME NEW n \in from .. to - 1, n \in P PROVE n + 1 \in P
    <2>1. PICK g : Loop(g, from, to, n)
      BY <1>2
    <2> DEFINE h == [m \in from .. n + 1 |-> Turn(g, from, to, m)]
    <2>2. ASSUME NEW m \in from .. n + 1 PROVE h[m] = Turn(h, from, to, m)
      <3>1. CASE m = from
        BY <3>1 DEF Turn
      <3>2. CASE m # from
        <4>1. m - 1 \in from .. n
          BY <3>2
        <4>2. h[m - 1] = g[m - 1]
          BY <2>1, <4>1 DEF Loop
        <4> HIDE DEF h
        <4>3. Turn(g, from, to, m) = Turn(h, from, to, m)
          BY <4>2 DEF Turn
        <4> QED BY <4>3 DEF h
      <3> QED BY <3>1, <3>2
    <2>3. h = [m \in from .. n + 1 |-> Turn(h, from, to, m)]
      BY <2>2
    <2>4. Loop(h, from, to, n + 1)
      BY <2>3 DEF Loop
    <2> QED BY <2>4
  <1>3. to \in P
    <2> HIDE DEF P
    <2> QED BY <1>1, <1>2, IntervalInduction
  <1> QED BY <1>3

LEMMA IncidentUnfolds ==
  ASSUME NEW from \in Int, NEW to \in Int, from <= to
  PROVE  \E g : Loop(g, from, to, to) /\ Incident(from, to) = g[to]
  <1> DEFINE g == CHOOSE h : Loop(h, from, to, to)
  <1>1. Incident(from, to) = g[to]
    BY DEF Incident, Loop, Turn
  <1>2. Loop(g, from, to, to)
    BY LoopExists
  <1> QED BY <1>1, <1>2


\* The minutes before m, of those the loop has read, at which traffic had stopped.
Quiet(from, m) ==
  {n \in Timeline(from, m) :
     ~Active(sample, n) /\ \E k \in Timeline(from, m) : k < n /\ Active(sample, k)}

\* The last minute whose gap is counted, and those counted up to minute n.
LastRead(report, m) == IF report.recovered = None THEN m - 1 ELSE report.recovered
GapsUpTo(from, m, n) == {k \in Timeline(from, m) : k <= n /\ Incomplete(sample, k)}

ReportType(from, m) ==
  [stopped : (from .. m - 1) \cup {None}, recovered : (from .. m - 1) \cup {None},
   gaps : Nat, wasActive : BOOLEAN]

\* What the report before minute m says of the minutes before m.
NotStopped(report, from, m) ==
  /\ report.recovered = None /\ Quiet(from, m) = {}
  /\ report.wasActive <=> \E n \in Timeline(from, m) : Active(sample, n)
HasStopped(report, from, m) ==
  /\ report.stopped \in Quiet(from, m)
  /\ \A n \in Quiet(from, m) : report.stopped <= n
  /\ \A n \in report.stopped .. LastRead(report, m) :
       Active(sample, n) <=> n = report.recovered
LoopInv(report, from, m) ==
  /\ report \in ReportType(from, m)
  /\ report.gaps = Cardinality(GapsUpTo(from, m, LastRead(report, m)))
  /\ report.stopped = None => NotStopped(report, from, m)
  /\ report.stopped # None => HasStopped(report, from, m)

LEMMA RowlessMinute ==
  ASSUME TypeOK, NEW m \in Minute, \A c \in Credential : <<m, c>> \notin sampled
  PROVE  ~Active(sample, m) /\ ~Incomplete(sample, m)
  <1>1. \A c \in Credential : sample[<<m, c>>] = NoSample
    BY DEF TypeOK, Key
  <1>2. \A c \in Credential : sample[<<m, c>>].bytes = 0 /\ sample[<<m, c>>].ok
    BY <1>1 DEF NoSample
  <1>3. ~(0 > 0)
    OBVIOUS
  <1> QED BY <1>2, <1>3 DEF Active, Incomplete

\* A minute more.
LEMMA TimelineGrows ==
  ASSUME NEW from \in Nat, NEW m \in Nat, from <= m
  PROVE  /\ Timeline(from, m + 1) = Timeline(from, m) \cup
              {n \in {m} : \E c \in Credential : <<n, c>> \in sampled}
         /\ \A n \in Timeline(from, m) : n \in Nat /\ from <= n /\ n < m
         /\ Timeline(from, m) \subseteq from .. m - 1
  <1>1. from .. (m + 1) - 1 = (from .. m - 1) \cup {m}
    OBVIOUS
  <1>2. Timeline(from, m + 1) =
          {n \in from .. (m + 1) - 1 : \E c \in Credential : <<n, c>> \in sampled}
    BY DEF Timeline
  <1>3. \A n \in from .. m - 1 : n \in Nat /\ from <= n /\ n < m
    OBVIOUS
  <1> QED BY <1>1, <1>2, <1>3 DEF Timeline

LEMMA QuietGrows ==
  ASSUME NEW from \in Nat, NEW m \in Nat, from <= m
  PROVE  Quiet(from, m + 1) = Quiet(from, m) \cup
           {n \in Timeline(from, m + 1) \cap {m} :
              ~Active(sample, n) /\ \E k \in Timeline(from, m) : Active(sample, k)}
  <1>1. /\ Timeline(from, m + 1) \subseteq Timeline(from, m) \cup {m}
        /\ Timeline(from, m) \subseteq Timeline(from, m + 1)
        /\ \A n \in Timeline(from, m) : n \in Nat /\ n < m
    BY TimelineGrows
  <1> QED BY <1>1 DEF Quiet

LEMMA GapsGrow ==
  ASSUME NEW from \in Nat, NEW m \in Nat, from <= m
  PROVE  /\ Cardinality(GapsUpTo(from, m + 1, m)) =
              Cardinality(GapsUpTo(from, m, m - 1)) +
              IF m \in Timeline(from, m + 1) /\ Incomplete(sample, m) THEN 1 ELSE 0
         /\ \A n \in Nat : n < m => GapsUpTo(from, m + 1, n) = GapsUpTo(from, m, n)
         /\ \A n \in Int : Cardinality(GapsUpTo(from, m, n)) \in Nat
  <1>1. /\ Timeline(from, m + 1) \subseteq Timeline(from, m) \cup {m}
        /\ Timeline(from, m) \subseteq Timeline(from, m + 1)
        /\ \A n \in Timeline(from, m) : n \in Nat /\ n < m
        /\ Timeline(from, m) \subseteq from .. m - 1
    BY TimelineGrows
  <1> DEFINE G == GapsUpTo(from, m, m - 1)
  <1>2. m \notin G
    BY <1>1 DEF GapsUpTo
  <1>3. ASSUME NEW n \in Int
        PROVE  /\ IsFiniteSet(GapsUpTo(from, m, n))
               /\ Cardinality(GapsUpTo(from, m, n)) \in Nat
    <2>1. IsFiniteSet(from .. m - 1)
      BY FS_Interval
    <2>2. GapsUpTo(from, m, n) \subseteq from .. m - 1
      BY <1>1 DEF GapsUpTo
    <2> QED BY <2>1, <2>2, FS_Subset, FS_CardinalityType
  <1>4. IsFiniteSet(G) /\ Cardinality(G) \in Nat
    BY <1>3
  <1>5. \A n \in Nat : n < m => GapsUpTo(from, m + 1, n) = GapsUpTo(from, m, n)
    BY <1>1 DEF GapsUpTo
  <1>6. CASE m \in Timeline(from, m + 1) /\ Incomplete(sample, m)
    <2>1. GapsUpTo(from, m + 1, m) = G \cup {m}
      BY <1>1, <1>6 DEF GapsUpTo
    <2> HIDE DEF G
    <2>2. Cardinality(G \cup {m}) = Cardinality(G) + 1
      BY <1>2, <1>4, FS_AddElement
    <2> QED BY <1>3, <1>5, <1>6, <2>1, <2>2 DEF G
  <1>7. CASE ~(m \in Timeline(from, m + 1) /\ Incomplete(sample, m))
    <2>1. GapsUpTo(from, m + 1, m) = G
      BY <1>1, <1>7 DEF GapsUpTo
    <2> QED BY <1>3, <1>4, <1>5, <1>7, <2>1
  <1> QED BY <1>6, <1>7


LEMMA LoopStep ==
  ASSUME TypeOK, NEW from \in Nat, NEW m \in Nat, from <= m, m \in Minute,
         NEW r, LoopInv(r, from, m)
  PROVE  LoopInv(IF m \in Timeline(from, m + 1) THEN Read(r, m) ELSE r, from, m + 1)
  <1> DEFINE row == m \in Timeline(from, m + 1)
             stop == IF r.stopped = None /\ r.wasActive /\ ~Active(sample, m) THEN m ELSE r.stopped
             gap == IF row /\ Incomplete(sample, m) THEN 1 ELSE 0
             new == [stopped |-> stop,
                     recovered |-> IF stop # None /\ Active(sample, m) THEN m ELSE None,
                     gaps |-> r.gaps + gap, wasActive |-> Active(sample, m)]
  <1>1. /\ r \in ReportType(from, m)
        /\ r.gaps = Cardinality(GapsUpTo(from, m, LastRead(r, m)))
        /\ r.stopped = None => NotStopped(r, from, m)
        /\ r.stopped # None => HasStopped(r, from, m)
    BY DEF LoopInv
  <1>2. /\ r.stopped \in (from .. m - 1) \cup {None} /\ r.recovered \in (from .. m - 1) \cup {None}
        /\ r.gaps \in Nat /\ r.wasActive \in BOOLEAN
        /\ ReportType(from, m) \subseteq ReportType(from, m + 1)
    BY <1>1 DEF ReportType, None
  <1>3. /\ Timeline(from, m + 1) = Timeline(from, m) \cup {n \in {m} : row}
        /\ \A n \in Timeline(from, m) : n \in Nat /\ from <= n /\ n < m
    BY TimelineGrows
  <1>4. /\ Quiet(from, m + 1) = Quiet(from, m) \cup
             {n \in {m} : row /\ ~Active(sample, n) /\
                          \E k \in Timeline(from, m) : Active(sample, k)}
        /\ \A n \in Quiet(from, m) : n \in Nat /\ n < m
    BY <1>3, QuietGrows DEF Quiet
  <1>5. /\ Cardinality(GapsUpTo(from, m + 1, m)) =
             Cardinality(GapsUpTo(from, m, m - 1)) + gap
        /\ \A n \in Nat : n < m => GapsUpTo(from, m + 1, n) = GapsUpTo(from, m, n)
    BY GapsGrow
  <1>6. row \in BOOLEAN /\ Active(sample, m) \in BOOLEAN /\ None = -1 /\ m # None
    BY DEF None, Active
  <1>7. ~row => ~Active(sample, m)
    <2>1. ~row => \A c \in Credential : <<m, c>> \notin sampled
      BY DEF Timeline
    <2> QED BY <2>1, RowlessMinute
  <1>8. CASE r.recovered # None
    <2>1. r.stopped # None /\ HasStopped(r, from, m)
      BY <1>1, <1>8 DEF NotStopped
    <2>2. r.recovered \in Nat /\ r.recovered < m
          /\ LastRead(r, m) = r.recovered /\ LastRead(r, m + 1) = r.recovered
      BY <1>2, <1>8 DEF LastRead
    <2>3. r.gaps = Cardinality(GapsUpTo(from, m + 1, LastRead(r, m + 1)))
      BY <1>1, <1>5, <2>2
    <2>4. HasStopped(r, from, m + 1)
      BY <1>2, <1>4, <2>1, <2>2 DEF HasStopped
    <2>5. LoopInv(r, from, m + 1)
      BY <1>1, <1>2, <2>1, <2>3, <2>4 DEF LoopInv
    <2> QED BY <1>8, <2>5 DEF Read
  <1>9. CASE r.recovered = None /\ ~row
    <2>1. LastRead(r, m) = m - 1 /\ LastRead(r, m + 1) = m
      BY <1>9 DEF LastRead
    <2>2. gap = 0 /\ Timeline(from, m + 1) = Timeline(from, m) /\ Quiet(from, m + 1) = Quiet(from, m)
      BY <1>3, <1>4, <1>9
    <2>3. r.gaps = Cardinality(GapsUpTo(from, m + 1, LastRead(r, m + 1)))
      BY <1>1, <1>2, <1>5, <2>1, <2>2
    <2>4. r.stopped = None => NotStopped(r, from, m + 1)
      BY <1>1, <2>2 DEF NotStopped
    <2>5. ASSUME r.stopped # None PROVE HasStopped(r, from, m + 1)
      <3>1. \A n \in r.stopped .. m : n \in r.stopped .. m - 1 \/ n = m
        BY <1>2, <2>5
      <3>2. \A n \in r.stopped .. m : Active(sample, n) <=> n = r.recovered
        BY <1>1, <1>6, <1>7, <1>9, <2>1, <2>5, <3>1 DEF HasStopped
      <3> QED BY <1>1, <2>1, <2>2, <2>5, <3>2 DEF HasStopped
    <2>6. LoopInv(r, from, m + 1)
      BY <1>1, <1>2, <2>3, <2>4, <2>5 DEF LoopInv
    <2> QED BY <1>9, <2>6
  <1>10. CASE r.recovered = None /\ row
    <2>1. Read(r, m) = new
      BY <1>10 DEF Read
    <2>2. /\ new.stopped = stop /\ new.gaps = r.gaps + gap
          /\ new.recovered = IF stop # None /\ Active(sample, m) THEN m ELSE None
          /\ new.wasActive = Active(sample, m)
      OBVIOUS
    <2>3. stop \in (from .. m) \cup {None} /\ gap \in Nat
      BY <1>2
    <2>4. new \in ReportType(from, m + 1)
      BY <1>2, <1>6, <2>3 DEF ReportType
    <2>5. LastRead(r, m) = m - 1 /\ LastRead(new, m + 1) = m
      BY <1>6, <1>10, <2>2 DEF LastRead
    <2> HIDE DEF new, gap
    <2>6. new.gaps = Cardinality(GapsUpTo(from, m + 1, LastRead(new, m + 1)))
      BY <1>1, <1>5, <2>2, <2>5
    <2>7. CASE r.stopped = None /\ r.wasActive /\ ~Active(sample, m)
      <3>1. stop = m /\ new.recovered = None
        BY <2>2, <2>7
      <3>2. Quiet(from, m + 1) = {m}
        BY <1>1, <1>4, <1>10, <2>7 DEF NotStopped
      <3>3. HasStopped(new, from, m + 1)
        BY <1>6, <2>2, <2>5, <2>7, <3>1, <3>2 DEF HasStopped
      <3> QED BY <1>6, <1>10, <2>1, <2>2, <2>4, <2>6, <3>1, <3>3 DEF LoopInv
    <2>8. CASE r.stopped = None /\ ~(r.wasActive /\ ~Active(sample, m))
      <3>1. stop = None /\ new.recovered = None /\ NotStopped(r, from, m)
        BY <1>1, <2>2, <2>8
      <3>2. Quiet(from, m + 1) = {}
        BY <1>4, <2>8, <3>1 DEF NotStopped
      <3>3. Active(sample, m) <=> \E n \in Timeline(from, m + 1) : Active(sample, n)
        BY <1>3, <1>10, <2>8, <3>1 DEF NotStopped
      <3>4. NotStopped(new, from, m + 1)
        BY <2>2, <3>1, <3>2, <3>3 DEF NotStopped
      <3> QED BY <1>10, <2>1, <2>2, <2>4, <2>6, <3>1, <3>4 DEF LoopInv
    <2>9. CASE r.stopped # None
      <3>1. stop = r.stopped /\ HasStopped(r, from, m) /\ r.stopped \in from .. m - 1
        BY <1>1, <1>2, <2>9
      <3>2. new.recovered = IF Active(sample, m) THEN m ELSE None
        BY <2>2, <2>9, <3>1
      <3>3. \A n \in r.stopped .. m : n \in r.stopped .. m - 1 \/ n = m
        BY <3>1
      <3>4. \A n \in r.stopped .. m - 1 : ~Active(sample, n) /\ n # m /\ n # None
        BY <1>6, <1>10, <2>5, <3>1 DEF HasStopped
      <3>5. \A n \in r.stopped .. m : Active(sample, n) <=> n = new.recovered
        BY <1>6, <3>2, <3>3, <3>4
      <3>6. \A n \in Quiet(from, m + 1) : r.stopped <= n
        BY <1>4, <3>1 DEF HasStopped
      <3>7. HasStopped(new, from, m + 1)
        BY <1>4, <2>2, <2>5, <3>1, <3>5, <3>6 DEF HasStopped
      <3> QED BY <1>10, <2>1, <2>2, <2>4, <2>6, <2>9, <3>1, <3>7 DEF LoopInv
    <2> QED BY <2>7, <2>8, <2>9
  <1> QED BY <1>8, <1>9, <1>10


LEMMA LoopStart ==
  ASSUME NEW from \in Nat PROVE LoopInv(NothingRead, from, from)
  <1>1. Timeline(from, from) = {}
    BY DEF Timeline
  <1>2. Quiet(from, from) = {} /\ \A n : GapsUpTo(from, from, n) = {}
    BY <1>1 DEF Quiet, GapsUpTo
  <1>3. Cardinality({}) = 0
    BY FS_EmptySet
  <1>4. NothingRead.stopped = None /\ NothingRead.recovered = None
        /\ NothingRead.gaps = 0 /\ NothingRead.wasActive = FALSE
    BY DEF NothingRead
  <1>5. NothingRead \in ReportType(from, from)
    BY DEF NothingRead, ReportType
  <1>6. NotStopped(NothingRead, from, from)
    BY <1>1, <1>2, <1>4 DEF NotStopped
  <1>7. NothingRead.gaps = Cardinality(GapsUpTo(from, from, LastRead(NothingRead, from)))
    BY <1>2, <1>3, <1>4
  <1> QED BY <1>4, <1>5, <1>6, <1>7 DEF LoopInv

\* The report says of the rows that are left what the loop's invariant says.
LEMMA ReportIs ==
  ASSUME TypeOK, NEW from \in Nat, NEW to \in Nat, from <= to, to <= MaxMinute + 1
  PROVE  LoopInv(Incident(from, to), from, to)
  <1>1. PICK g : Loop(g, from, to, to) /\ Incident(from, to) = g[to]
    BY IncidentUnfolds
  <1> DEFINE P == {m \in from .. to : LoopInv(g[m], from, m)}
  <1>2. from \in P
    <2>1. g[from] = NothingRead
      BY <1>1 DEF Loop, Turn
    <2> QED BY <2>1, LoopStart
  <1>3. ASSUME NEW m \in from .. to - 1, m \in P PROVE m + 1 \in P
    <2>1. m \in Nat /\ from <= m /\ m + 1 \in from .. to /\ m + 1 # from /\ (m + 1) - 1 = m
      OBVIOUS
    <2>2. m \in Minute
      BY <2>1, BoundAssumption DEF Minute
    <2>3. g[m + 1] = Turn(g, from, to, m + 1)
      BY <1>1, <2>1 DEF Loop
    <2>4. g[m + 1] = IF m \in Timeline(from, to) THEN Read(g[m], m) ELSE g[m]
      BY <2>1, <2>3 DEF Turn
    <2>5. m \in Timeline(from, to) <=> m \in Timeline(from, m + 1)
      BY <2>1 DEF Timeline
    <2>6. LoopInv(g[m], from, m)
      BY <1>3
    <2>7. LoopInv(IF m \in Timeline(from, m + 1) THEN Read(g[m], m) ELSE g[m], from, m + 1)
      BY <2>1, <2>2, <2>6, LoopStep
    <2>8. LoopInv(g[m + 1], from, m + 1)
      BY <2>4, <2>5, <2>7
    <2> QED BY <2>1, <2>8
  <1>4. to \in P
    <2> HIDE DEF P
    <2> QED BY <1>2, <1>3, IntervalInduction
  <1> QED BY <1>1, <1>4

-----------------------------------------------------------------------------
(* Samples are deleted from the oldest on. *)

LEMMA DeletedFirstStep ==
  ASSUME StepsAreShort, PastInv, KeptInv, DeletedFirst, [Next]_vars
  PROVE  DeletedFirst'
  <1> USE DEF PastInv, TypeInv
  <1>1. now \in Nat /\ latest \in Nat /\ MaxStep \in Nat
    BY MinuteNat, BoundAssumption DEF TypeOK
  <1>2. retention.minutes \in Nat /\ MaxStep <= retention.minutes
    BY BoundAssumption DEF TypeOK, StepsAreShort
  <1>3. \A k \in recorded : k \in Key /\ k[1] \in Nat
    BY MinuteNat DEF TypeOK, Key
  <1>4. \A k \in sampled : k \in recorded
    BY DEF TypeOK
  <1>5. CASE UNCHANGED <<sampled, recorded>>
    BY <1>5 DEF DeletedFirst
  <1>6. ASSUME NEW C \in SUBSET Credential, NEW new \in [C -> Sample], Insert(C, new),
               UNCHANGED <<clock, rolled, rollup>>
        PROVE  DeletedFirst'
    <2> DEFINE written == {now} \X C
    <2>1. sampled' = sampled \cup written /\ recorded' = recorded \cup written
      BY <1>6, InsertIs
    <2>2. \A k \in written : k[1] = now
      OBVIOUS
    <2> HIDE DEF written
    <2>3. now >= latest - retention.minutes
      BY <1>1, <1>2 DEF ClockInv
    <2>4. ASSUME NEW k \in recorded \ sampled, NEW j \in written PROVE k[1] < j[1]
      BY <1>1, <1>2, <1>3, <2>2, <2>3 DEF KeptInv
    <2> QED BY <2>1, <2>4 DEF DeletedFirst
  <1>7. CASE Maintain
    <2>1. sampled' = Kept /\ recorded' = recorded
      BY <1>7 DEF Maintain, DeleteSamples
    <2>2. ASSUME NEW k \in recorded \ Kept, NEW j \in Kept PROVE k[1] < j[1]
      <3>1. j \in sampled /\ j[1] >= now - retention.minutes /\ j[1] \in Nat /\ k[1] \in Nat
        BY <1>3, <1>4 DEF Kept
      <3>2. CASE k \in sampled
        <4>1. ~(k[1] >= now - retention.minutes)
          BY <3>2 DEF Kept
        <4> QED BY <1>1, <1>2, <3>1, <4>1
      <3>3. CASE k \notin sampled
        BY <3>1, <3>3 DEF DeletedFirst
      <3> QED BY <3>2, <3>3
    <2> QED BY <2>1, <2>2 DEF DeletedFirst
  <1>8. (SetClock \/ UNCHANGED vars) => UNCHANGED <<sampled, recorded>>
    BY DEF SetClock, vars, tables, history
  <1> QED BY <1>5, <1>6, <1>7, <1>8, Steps

\* From a minute on that has a row, the rows are what was recorded.
LEMMA RestIsRecorded ==
  ASSUME PastInv, KeptInv, DeletedFirst, NEW from \in Nat, NEW to \in Nat,
         NEW n \in Timeline(from, to), NEW m \in Minute, n <= m
  PROVE  /\ Active(sample, m) <=> Active(archive, m)
         /\ Incomplete(sample, m) <=> Incomplete(archive, m)
  <1> USE DEF PastInv, TypeInv
  <1>1. PICK d \in Credential : <<n, d>> \in sampled
    BY DEF Timeline
  <1>2. n \in Int /\ m \in Nat
    BY MinuteNat DEF Timeline
  <1>3. ASSUME NEW c \in Credential PROVE sample[<<m, c>>] = archive[<<m, c>>]
    <2>1. <<m, c>> \in Key
      BY DEF Key
    <2>2. <<m, c>> \notin recorded \ sampled
      BY <1>1, <1>2 DEF DeletedFirst
    <2>3. CASE <<m, c>> \in sampled
      BY <2>3 DEF KeptInv
    <2>4. CASE <<m, c>> \notin recorded
      BY <2>1, <2>4 DEF TypeOK, ArchiveInv
    <2> QED BY <2>2, <2>3, <2>4
  <1> QED BY <1>3 DEF Active, Incomplete


\* The minutes of a range that were ever sampled, and those of them without
\* traffic after one with traffic.
Recordeds(from, to) == {k[1] : k \in recorded} \cap (from .. to - 1)
Stops(from, to) ==
  {m \in Recordeds(from, to) :
     /\ ~Active(archive, m)
     /\ \E n \in {n \in Recordeds(from, to) : n < m} : Active(archive, n)}

\* What a report says was so, also after older minutes were deleted.
LEMMA ReportedIsTrue ==
  ASSUME PastInv, KeptInv, DeletedFirst, NEW from \in Nat, NEW to \in Nat,
         to <= MaxMinute + 1, NEW r, LoopInv(r, from, to), r.stopped # None
  PROVE  /\ r.stopped \in Stops(from, to)
         /\ \A m \in r.stopped .. LastRead(r, to) : Active(archive, m) <=> m = r.recovered
  <1> USE DEF PastInv, TypeInv
  <1>1. /\ r.stopped \in Quiet(from, to)
        /\ \A n \in r.stopped .. LastRead(r, to) : Active(sample, n) <=> n = r.recovered
        /\ r.recovered \in (from .. to - 1) \cup {None}
    BY DEF LoopInv, HasStopped, ReportType
  <1>2. /\ Timeline(from, to) \subseteq from .. to - 1
        /\ \A n \in from .. to - 1 : n \in Minute /\ n \in Nat
    BY BoundAssumption DEF Timeline, Minute
  <1>3. ASSUME NEW n \in Timeline(from, to)
        PROVE  n \in Recordeds(from, to) /\ (Active(sample, n) <=> Active(archive, n))
    <2>1. PICK c \in Credential : <<n, c>> \in sampled
      BY DEF Timeline
    <2>2. <<n, c>> \in recorded /\ <<n, c>>[1] = n
      BY <2>1 DEF TypeOK
    <2>3. n \in Recordeds(from, to)
      BY <1>2, <2>2 DEF Recordeds
    <2>4. n \in Minute /\ n <= n
      BY <1>2
    <2> QED BY <2>3, <2>4, RestIsRecorded
  <1>4. PICK k \in Timeline(from, to) : k < r.stopped /\ Active(sample, k)
    BY <1>1 DEF Quiet
  <1>5. r.stopped \in Timeline(from, to) /\ ~Active(sample, r.stopped)
    BY <1>1 DEF Quiet
  <1>6. r.stopped \in Stops(from, to)
    BY <1>3, <1>4, <1>5 DEF Stops
  <1>7. ASSUME NEW m \in r.stopped .. LastRead(r, to)
        PROVE  Active(archive, m) <=> m = r.recovered
    <2>1. r.stopped \in from .. to - 1 /\ LastRead(r, to) <= to - 1
      BY <1>1, <1>2, <1>5 DEF LastRead, None
    <2>2. m \in from .. to - 1 /\ r.stopped <= m
      BY <1>1, <2>1 DEF LastRead
    <2>3. m \in Minute
      BY <1>2, <2>2
    <2>4. Active(sample, m) <=> Active(archive, m)
      BY <1>5, <2>2, <2>3, RestIsRecorded
    <2> QED BY <1>1, <2>4
  <1> QED BY <1>6, <1>7

\* While the samples of the range are kept, the report misses nothing.
LEMMA ReportIsComplete ==
  ASSUME PastInv, KeptInv, DeletedFirst, NEW from \in Nat, NEW to \in Nat,
         to <= MaxMinute + 1, NEW r, LoopInv(r, from, to),
         AreKept({k \in Key : k[1] \in Recordeds(from, to)})
  PROVE  /\ r.stopped = (IF Stops(from, to) = {} THEN None ELSE Min(Stops(from, to)))
         /\ r.gaps = Cardinality({m \in Recordeds(from, to) :
                                    m <= LastRead(r, to) /\ Incomplete(archive, m)})
  <1> USE DEF PastInv, TypeInv
  <1>1. /\ Timeline(from, to) \subseteq from .. to - 1
        /\ \A n \in from .. to - 1 : n \in Minute /\ n \in Nat
    BY BoundAssumption DEF Timeline, Minute
  <1>2. Recordeds(from, to) = Timeline(from, to)
    <2>1. ASSUME NEW m \in Recordeds(from, to) PROVE m \in Timeline(from, to)
      <3>1. PICK k \in recorded : k[1] = m
        BY DEF Recordeds
      <3>2. k \in Key
        BY DEF TypeOK
      <3>3. k \in sampled
        BY <2>1, <3>1, <3>2 DEF AreKept
      <3>4. k[2] \in Credential /\ k = <<m, k[2]>> /\ m \in from .. to - 1
        BY <2>1, <3>1, <3>2 DEF Key, Recordeds
      <3> QED BY <3>3, <3>4 DEF Timeline
    <2>2. ASSUME NEW m \in Timeline(from, to) PROVE m \in Recordeds(from, to)
      <3>1. PICK c \in Credential : <<m, c>> \in sampled
        BY DEF Timeline
      <3>2. <<m, c>> \in recorded /\ <<m, c>>[1] = m
        BY <3>1 DEF TypeOK
      <3> QED BY <1>1, <3>2 DEF Recordeds
    <2> QED BY <2>1, <2>2
  <1>3. \A m \in Timeline(from, to) : /\ Active(sample, m) <=> Active(archive, m)
                                      /\ Incomplete(sample, m) <=> Incomplete(archive, m)
    <2> TAKE m \in Timeline(from, to)
    <2>1. m \in Minute /\ m <= m
      BY <1>1
    <2> QED BY <2>1, RestIsRecorded
  <1>4. Stops(from, to) = Quiet(from, to)
    BY <1>2, <1>3 DEF Stops, Quiet
  <1>5. {m \in Recordeds(from, to) : m <= LastRead(r, to) /\ Incomplete(archive, m)}
          = GapsUpTo(from, to, LastRead(r, to))
    BY <1>2, <1>3 DEF GapsUpTo
  <1>6. r.gaps = Cardinality(GapsUpTo(from, to, LastRead(r, to)))
    BY DEF LoopInv
  <1>7. CASE r.stopped = None
    BY <1>4, <1>5, <1>6, <1>7 DEF LoopInv, NotStopped
  <1>8. CASE r.stopped # None
    <2>1. r.stopped \in Quiet(from, to) /\ \A n \in Quiet(from, to) : r.stopped <= n
      BY <1>8 DEF LoopInv, HasStopped
    <2>2. \A n \in Quiet(from, to) : n \in Nat
      BY <1>1 DEF Quiet
    <2>3. Min(Quiet(from, to)) = r.stopped
      <3> DEFINE x == Min(Quiet(from, to))
      <3>1. x \in Quiet(from, to) /\ \A n \in Quiet(from, to) : x <= n
        BY <2>1 DEF Min
      <3> HIDE DEF x
      <3>2. x = r.stopped
        BY <2>1, <2>2, <3>1
      <3> QED BY <3>2 DEF x
    <2> QED BY <1>4, <1>5, <1>6, <2>1, <2>3
  <1> QED BY <1>7, <1>8

\* An incident report tells what was recorded, also after its older minutes are
\* deleted, and while they are kept it misses nothing.
THEOREM IncidentsAreRecorded ==
  ASSUME StepsAreShort
  PROVE  Spec => []IncidentIsRecorded
  <1>1. PastInv /\ KeptInv /\ DeletedFirst => IncidentIsRecorded
    <2> SUFFICES ASSUME PastInv, KeptInv, DeletedFirst,
                        NEW to \in Bound, NEW from \in 0 .. to - 1
                 PROVE  LET report == Incident(from, to)
                            end == IF report.recovered = None THEN to - 1
                                   ELSE report.recovered
                            minutes == {k[1] : k \in recorded} \cap (from .. to - 1)
                            before(m) == {n \in minutes : n < m}
                            quiet == {m \in minutes : ~Active(archive, m) /\
                                        \E n \in before(m) : Active(archive, n)}
                        IN /\ report.stopped # None =>
                                /\ report.stopped \in quiet
                                /\ \A m \in report.stopped .. end :
                                     Active(archive, m) <=> m = report.recovered
                           /\ AreKept({k \in Key : k[1] \in minutes}) =>
                                /\ report.stopped = (IF quiet = {} THEN None ELSE Min(quiet))
                                /\ report.gaps = Cardinality({m \in minutes :
                                                   m <= end /\ Incomplete(archive, m)})
      BY DEF IncidentIsRecorded
    <2> DEFINE report == Incident(from, to)
    <2>1. from \in Nat /\ to \in Nat /\ from <= to /\ to <= MaxMinute + 1
      BY BoundAssumption DEF Bound
    <2>2. LoopInv(report, from, to)
      BY <2>1, ReportIs DEF PastInv, TypeInv
    <2> HIDE DEF report
    <2>3. report.stopped # None =>
            /\ report.stopped \in Stops(from, to)
            /\ \A m \in report.stopped .. LastRead(report, to) :
                 Active(archive, m) <=> m = report.recovered
      BY <2>1, <2>2, ReportedIsTrue
    <2>4. AreKept({k \in Key : k[1] \in Recordeds(from, to)}) =>
            /\ report.stopped = (IF Stops(from, to) = {} THEN None ELSE Min(Stops(from, to)))
            /\ report.gaps = Cardinality({m \in Recordeds(from, to) :
                                 m <= LastRead(report, to) /\ Incomplete(archive, m)})
      BY <2>1, <2>2, ReportIsComplete
    <2> QED BY <2>3, <2>4 DEF report, LastRead, Recordeds, Stops
  <1>2. Init => DeletedFirst
    BY DEF Init, DeletedFirst
  <1>3. PastInv /\ KeptInv /\ DeletedFirst /\ [Next]_vars => DeletedFirst'
    BY DeletedFirstStep
  <1> QED BY <1>1, <1>2, <1>3, KeptAreExact, PTL DEF Spec
=============================================================================
