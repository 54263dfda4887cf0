------------------------------ MODULE Rollups ------------------------------
(***************************************************************************)
(* Minute samples, their rollups and what the queries add up.              *)
(*                                                                         *)
(* The nightly maintenance, under the operations lock and in one           *)
(* transaction, sums the minute samples of every closed hour, day and      *)
(* month, overwrites the rollups of these periods and then deletes the     *)
(* samples and the rollups that are too old.  Queries mix rollups with the *)
(* samples these do not cover.  The wall clock may be stepped back.        *)
(*                                                                         *)
(* Time is counted in minutes; one direction of the traffic stands for     *)
(* both.  Time zones are what periodBounds makes of them: functions from a *)
(* minute to the bounds of its period.                                     *)
(***************************************************************************)
EXTENDS Integers, FiniteSets, FiniteSetsExt

CONSTANTS
  Credential,   \* credentials of one registered user
  Kind,         \* bucket kinds: "hour" and longer ones
  Start, End,   \* periodBounds in the zone of the rollups
  Shown,        \* its start in the zone of the timeline
  HourLength,   \* 3600 seconds
  Retention,    \* what may be configured: [minutes, rollups], how long each is kept
  MaxStep,      \* bound: how far the wall clock is ever stepped back
  MaxMinute,    \* bound: last minute
  MaxBytes      \* bound: bytes of one minute and credential

Minute == 0 .. MaxMinute

ASSUME CredentialAssumption == IsFiniteSet(Credential)
ASSUME KindAssumption == "hour" \in Kind
ASSUME ZoneAssumption ==
  /\ Start \in [Kind -> [Minute -> Minute]]
  /\ End \in [Kind -> [Minute -> Nat]]
  /\ Shown \in [Kind -> [Minute -> Minute]]
  /\ \A k \in Kind, m \in Minute : End[k][m] > Start[k][m]
ASSUME BoundAssumption ==
  /\ HourLength \in Nat \ {0} /\ Retention \subseteq [minutes : Nat, rollups : Nat]
  /\ MaxStep \in Nat /\ MaxMinute \in Nat /\ MaxBytes \in Nat

VARIABLES
  retention,   \* the configured one
  now,         \* wall clock
  latest,      \* its highest value so far
  last,        \* minute of the last successful collection
  sampled,     \* keys of the traffic_samples rows
  sample,      \* their values
  rolled,      \* keys of the traffic_rollups rows
  rollup,      \* their values
  recorded,    \* history: every minute ever sampled ...
  archive,     \* ... and its value, never deleted
  late         \* history: by kind, samples written into the past and not rolled up since

tables == <<sampled, sample, rolled, rollup>>
history == <<recorded, archive, late>>
clock == <<retention, now, latest>>
vars == <<clock, last, tables, history>>

-----------------------------------------------------------------------------
(* Values *)

Key == Minute \X Credential
RollupKey == [kind : Kind, start : Minute, credential : Credential]
Sample == [bytes : Nat, ok : BOOLEAN]
Rollup == [bytes : Nat, gaps : Nat]
NoSample == [bytes |-> 0, ok |-> TRUE]
NoRollup == [bytes |-> 0, gaps |-> 0]

Merge(old, new) == [bytes |-> old.bytes + new.bytes, ok |-> old.ok /\ new.ok]

\* Bytes of the complete samples, and of all samples, of table T at keys K.
OkBytes(T, K) == SumFunctionOnSet([k \in Key |-> T[k].bytes], {k \in K : T[k].ok})
AllBytes(T, K) == SumFunctionOnSet([k \in Key |-> T[k].bytes], K)
Gaps(T, K) == Cardinality({k \in K : ~T[k].ok})

\* Minutes of credential c in [from, to).
Span(c, from, to) == ((from .. to - 1) \cap Minute) \X {c}

\* Minutes whose period is that of rollup r.
Period(r) == {k \in Key : k[2] = r.credential /\ Start[r.kind][k[1]] = r.start}
RollupOf(kind, k) == [kind |-> kind, start |-> Start[kind][k[1]], credential |-> k[2]]

-----------------------------------------------------------------------------
Init ==
  /\ retention \in Retention
  /\ now = 0
  /\ latest = 0
  /\ last = 0
  /\ sampled = {}
  /\ sample = [k \in Key |-> NoSample]
  /\ rolled = {}
  /\ rollup = [r \in RollupKey |-> NoRollup]
  /\ recorded = {}
  /\ archive = [k \in Key |-> NoSample]
  /\ late = {}

SetClock ==
  /\ now' \in {now + 1, now - 1} \cap Minute
  /\ now' >= latest - MaxStep
  /\ latest' = IF now' > latest THEN now' ELSE latest
  /\ UNCHANGED <<retention, last, tables, history>>

-----------------------------------------------------------------------------
(* The collector *)

\* Rows for the credentials C that are enabled now, merged into the minute.
Insert(C, new) ==
  LET written == {now} \X C
      Into(T) == [k \in Key |-> IF k \in written THEN Merge(T[k], new[k[2]]) ELSE T[k]]
  IN
  /\ sampled' = sampled \cup written
  /\ sample' = Into(sample)
  /\ recorded' = recorded \cup written
  /\ archive' = Into(archive)
  /\ late' = late \cup {x \in Kind \X written : now < latest}

\* A stale snapshot, one not after the last success, writes nothing; one that
\* misses every credential is no success.
RecordSnapshot(C, new) ==
  /\ now >= last
  /\ \/ C # {} /\ last' = now
     \/ (\A c \in C : ~new[c].ok) /\ UNCHANGED last
  /\ \A c \in C : archive[<<now, c>>].bytes + new[c].bytes <= MaxBytes
  /\ Insert(C, new)
  /\ UNCHANGED <<clock, rolled, rollup>>

RecordFailure(C) ==
  /\ Insert(C, [c \in C |-> [bytes |-> 0, ok |-> FALSE]])
  /\ UNCHANGED <<clock, last, rolled, rollup>>

-----------------------------------------------------------------------------
(* Maintenance *)

\* Fault: a period is rolled up while it is still open.
Begun(kind, m) == Start[kind][m] <= now

Closed(kind, m) == End[kind][m] <= now

\* buildTrafficRollups: the rollups of the samples K, by key.
Built(K) == {RollupOf(x[1], x[2]) : x \in {y \in Kind \X K : Closed(y[1], y[2][1])}}

Value(r, K) ==
  [bytes |-> OkBytes(sample, Period(r) \cap K), gaps |-> Gaps(sample, Period(r) \cap K)]

Kept == {k \in sampled : k[1] >= now - retention.minutes}

WriteRollups(K) ==
  LET stored == {r \in rolled \cup Built(K) : r.start >= now - retention.rollups} IN
  /\ rolled' = stored
  /\ rollup' = [r \in RollupKey |->
                  IF r \notin stored THEN NoRollup
                  ELSE IF r \in Built(K) THEN Value(r, K) ELSE rollup[r]]

\* Fault: a deleted value comes back when its minute is sampled again.
HideSamples == sampled' = Kept /\ UNCHANGED sample

DeleteSamples ==
  /\ sampled' = Kept
  /\ sample' = [k \in Key |-> IF k \in Kept THEN sample[k] ELSE NoSample]

\* The rollups of the periods that are closed now are up to date.
Refreshed == late' = {x \in late : ~Closed(x[1], x[2][1])}

\* Fault: expired samples are deleted before the rollups are built.
MaintainDeletesFirst ==
  /\ WriteRollups(Kept)
  /\ DeleteSamples
  /\ Refreshed
  /\ UNCHANGED <<clock, last, recorded, archive>>

\* Build, overwrite, delete; a failure rolls everything back: no step.
Maintain ==
  /\ WriteRollups(sampled)
  /\ DeleteSamples
  /\ Refreshed
  /\ UNCHANGED <<clock, last, recorded, archive>>

Observation == {[bytes |-> b, ok |-> TRUE] : b \in 0 .. MaxBytes} \cup
               {[bytes |-> 0, ok |-> FALSE]}

Next ==
  \/ SetClock
  \/ \E C \in SUBSET Credential :
       \/ \E new \in [C -> Observation] : RecordSnapshot(C, new)
       \/ RecordFailure(C)
  \/ Maintain

Spec == Init /\ [][Next]_vars

-----------------------------------------------------------------------------
(* Queries *)

\* Hour rollups that lie inside [from, to).
HoursWithin(c, from, to) ==
  {r \in rolled : /\ r.kind = "hour" /\ r.credential = c
                  /\ r.start >= from /\ r.start + HourLength <= to}

\* Fault: the first minute of an hour is not covered by its rollup.
CoversAllButFirst(r, m) == r.start < m /\ m < r.start + HourLength

Covers(r, m) == r.start <= m /\ m < r.start + HourLength

RolledBytes(R) == SumFunctionOnSet([r \in RollupKey |-> rollup[r].bytes], R)

\* top: the hour rollups inside the range, and the samples outside of them.
Top(c, from, to) ==
  LET hours == HoursWithin(c, from, to)
      raw == {k \in sampled \cap Span(c, from, to) : \A r \in hours : ~Covers(r, k[1])}
  IN RolledBytes(hours) + OkBytes(sample, raw)

\* TimelineBucket, rollups that start in the range, of any of the credentials.
Buckets(kind, from, to) ==
  {r \in rolled : r.kind = kind /\ from <= r.start /\ r.start < to}

\* Fault: samples are added whether a rollup counts them or not.
AllInRange(kind, from, to) == {k \in sampled : from <= k[1] /\ k[1] < to}

\* ... and samples of the range whose period is not among them.
Uncovered(kind, from, to) ==
  LET buckets == Buckets(kind, from, to) IN
  {k \in sampled : /\ from <= k[1] /\ k[1] < to
                   /\ \A r \in buckets :
                        r.credential # k[2] \/ r.start # Shown[kind][k[1]]}

\* Fault: a rollup's gaps do not make the entry incomplete.
EntryIgnoresRolledGaps(kind, from, to, s) ==
  LET R == {r \in Buckets(kind, from, to) : r.start = s}
      K == {k \in Uncovered(kind, from, to) : Shown[kind][k[1]] = s}
  IN [bytes |-> RolledBytes(R) + OkBytes(sample, K),
      ok |-> \A k \in K : sample[k].ok]

\* The entry of the timeline that starts at s.
Entry(kind, from, to, s) ==
  LET R == {r \in Buckets(kind, from, to) : r.start = s}
      K == {k \in Uncovered(kind, from, to) : Shown[kind][k[1]] = s}
  IN [bytes |-> RolledBytes(R) + OkBytes(sample, K),
      ok |-> (\A r \in R : rollup[r].gaps = 0) /\ (\A k \in K : sample[k].ok)]

\* All entries together.
TimelineBytes(kind, from, to) ==
  RolledBytes(Buckets(kind, from, to))
    + OkBytes(sample, Uncovered(kind, from, to))

\* Timeline: the minutes of [from, to) with a row of any of the credentials.
Timeline(from, to) == {m \in from .. to - 1 : \E c \in Credential : <<m, c>> \in sampled}

Active(T, m) == \E c \in Credential : T[<<m, c>>].bytes > 0
Incomplete(T, m) == \E c \in Credential : ~T[<<m, c>>].ok

None == -1

\* Fault: the loop goes on after the recovery.
ReadOn(report, m) ==
  LET stop == IF report.stopped = None /\ report.wasActive /\ ~Active(sample, m)
              THEN m ELSE report.stopped
  IN [stopped   |-> stop,
      recovered |-> IF stop # None /\ Active(sample, m) THEN m ELSE report.recovered,
      gaps      |-> report.gaps + (IF Incomplete(sample, m) THEN 1 ELSE 0),
      wasActive |-> Active(sample, m)]

\* One turn of runIncident's loop; the recovery ends it.
Read(report, m) ==
  LET stop == IF report.stopped = None /\ report.wasActive /\ ~Active(sample, m)
              THEN m ELSE report.stopped
  IN IF report.recovered # None THEN report
     ELSE [stopped   |-> stop,
           recovered |-> IF stop # None /\ Active(sample, m) THEN m ELSE None,
           gaps      |-> report.gaps + (IF Incomplete(sample, m) THEN 1 ELSE 0),
           wasActive |-> Active(sample, m)]

NothingRead == [stopped |-> None, recovered |-> None, gaps |-> 0, wasActive |-> FALSE]

\* When the user's traffic first stopped and came back; report[m] is what the
\* loop knows before minute m.
Incident(from, to) ==
  LET report[m \in from .. to] ==
        IF m = from THEN NothingRead
        ELSE IF m - 1 \in Timeline(from, to) THEN Read(report[m - 1], m - 1)
        ELSE report[m - 1]
  IN report[to]

-----------------------------------------------------------------------------
(* What RollupsProofs supposes of a time zone and of a configuration *)

\* The minutes of an hour are those of the HourLength after its start: no hour
\* occurs twice because clocks are set back.
RegularHours ==
  \A m, n \in Minute :
    Start["hour"][n] = Start["hour"][m]
      <=> Start["hour"][n] <= m /\ m < Start["hour"][n] + HourLength

\* A period is an interval: it starts before its minutes, ends after them, and
\* has one end.
RegularPeriods ==
  \A kind \in Kind, m \in Minute :
    /\ Start[kind][m] <= m /\ m < End[kind][m]
    /\ \A n \in Minute : Start[kind][n] = Start[kind][m] => End[kind][n] = End[kind][m]

\* The timeline is shown in the zone of the rollups.
OneZone == Shown = Start

\* The clock is never stepped back further than samples are kept.
StepsAreShort == \A r \in Retention : MaxStep <= r.minutes

\* A sample expires after its longest period has ended.
SamplesOutlivePeriods ==
  \A r \in Retention, kind \in Kind, m \in Minute : End[kind][m] <= m + r.minutes + 1

-----------------------------------------------------------------------------
(* Properties *)

\* Every variable keeps the shape of its table, and a key without a row holds
\* the neutral value.
TypeOK ==
  /\ retention \in Retention
  /\ now \in Minute /\ latest \in Minute /\ last \in Minute
  /\ sampled \subseteq Key
  /\ sample \in [Key -> Sample]
  /\ \A k \in Key \ sampled : sample[k] = NoSample
  /\ rolled \subseteq RollupKey
  /\ rollup \in [RollupKey -> Rollup]
  /\ \A r \in RollupKey \ rolled : rollup[r] = NoRollup
  /\ sampled \subseteq recorded /\ recorded \subseteq Key
  /\ archive \in [Key -> Sample]
  /\ late \subseteq Kind \X recorded

\* Bounds of a queried range; a query's end is the time of the query.
Bound == 0 .. MaxMinute + 1

\* Top never reports more than was recorded in its range, whatever mixture of
\* rollups and samples it adds up and however stale the rollups are.
TopWithinRecorded ==
  \A c \in Credential, to \in Bound : \A from \in 0 .. to - 1 :
    Top(c, from, to) <= AllBytes(archive, Span(c, from, to))

\* No sample at K was deleted.
AreKept(K) == K \cap recorded \subseteq sampled

\* ... or written into the past since its period of this kind was rolled up.
Intact(kind, K) == AreKept(K) /\ late \cap ({kind} \X K) = {}

\* While the samples of a range are kept, Top is the sum of its complete
\* samples: covering by rollups loses nothing and doubles nothing.
TopIsExact ==
  \A c \in Credential, to \in Bound : \A from \in 0 .. to - 1 :
    Intact("hour", Span(c, from, to)) =>
      Top(c, from, to) = OkBytes(archive, Span(c, from, to))

\* A timeline never shows more than was recorded from its start on.
TimelineWithinRecorded ==
  \A kind \in Kind, to \in Bound : \A from \in 0 .. to - 1 :
    TimelineBytes(kind, from, to) <=
      AllBytes(archive, {k \in Key : k[1] >= from})

\* A timeline entry for a whole period whose samples are kept shows its bytes
\* and shows it complete only when no credential had a gap, wherever rollups
\* stand in for samples.
TimelineIsExact ==
  \A kind \in Kind : \A s \in {Shown[kind][m] : m \in Minute} :
    LET K == {k \in Key : Shown[kind][k[1]] = s}
        whole == [bytes |-> OkBytes(archive, K), ok |-> \A k \in K : archive[k].ok]
    IN Intact(kind, K) =>
         \A to \in Bound : \A from \in 0 .. to - 1 :
           (\A k \in K : from <= k[1] /\ k[1] < to) =>
             Entry(kind, from, to, s) = whole

\* An incident report tells what was recorded, also after its older minutes are
\* deleted: traffic, then none from the stop to the recovery (or to the end of
\* the range), then traffic again.  While the samples are kept it misses no
\* stop, and counts every minute with a gap up to the recovery.
IncidentIsRecorded ==
  \A to \in Bound : \A from \in 0 .. to - 1 :
    LET report == Incident(from, to)
        end == IF report.recovered = None THEN to - 1 ELSE report.recovered
        minutes == {k[1] : k \in recorded} \cap (from .. to - 1)
        before(m) == {n \in minutes : n < m}
        quiet == {m \in minutes : ~Active(archive, m) /\ \E n \in before(m) : Active(archive, n)}
    IN /\ report.stopped # None =>
            /\ report.stopped \in quiet
            /\ \A m \in report.stopped .. end :
                 Active(archive, m) <=> m = report.recovered
       /\ AreKept({k \in Key : k[1] \in minutes}) =>
            /\ report.stopped = (IF quiet = {} THEN None ELSE Min(quiet))
            /\ report.gaps = Cardinality({m \in minutes : m <= end /\ Incomplete(archive, m)})

\* The first rollup of a period counts every complete minute and every gap ever
\* recorded in it: maintenance has deleted none of its samples before.  Only a
\* rollup that has expired already may come back incomplete, when the clock is
\* stepped back.
FirstRollupIsExact ==
  [][\A r \in rolled' \ rolled : r.start >= latest - retention.rollups =>
       rollup'[r] = [bytes |-> OkBytes(archive, Period(r)),
                     gaps  |-> Gaps(archive, Period(r))]]_vars

\* The maintenance that deletes a sample has counted it in the rollups of its
\* hour and of every longer period, unless these are expired too.
DeletedIsRolledUp ==
  [][\A k \in sampled \ sampled', kind \in Kind :
       LET r == RollupOf(kind, k) IN
         r.start >= now - retention.rollups =>
           /\ r \in rolled'
           /\ sample[k].ok => rollup'[r].bytes >= sample[k].bytes
           /\ ~sample[k].ok => rollup'[r].gaps > 0]_vars

\* RetentionConfig: samples and rollups have lifetimes of their own, so that
\* rewriting the rollup of a closed period never makes it lose bytes only
\* because its samples expire.
RewrittenRollupIsComplete ==
  [][\A r \in rolled \cap rolled' :
       rollup'[r] # rollup[r] =>
         rollup'[r].bytes >= OkBytes(archive, Period(r))]_vars

=============================================================================
