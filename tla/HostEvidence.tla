---------------------------- MODULE HostEvidence ----------------------------
(***************************************************************************)
(* System samples and vnStat snapshots.                                    *)
(*                                                                         *)
(* Each collection cycle reads the host's counters and commits, in one     *)
(* transaction, their growth since the previous reading to the row of the  *)
(* minute.  The counters restart at zero when the host boots; any source   *)
(* of a reading, the boot identity included, may be missing.  vnStat keeps *)
(* a total of its own that survives a boot.                                *)
(*                                                                         *)
(* Received bytes stand for every counter, which are all subtracted in the *)
(* same way.  Boots are numbered; 0 is an unreadable identity.             *)
(***************************************************************************)
EXTENDS Integers, FiniteSets, FiniteSetsExt

CONSTANTS
  Reading,           \* the sets of sources a reading may miss
  SecondsPerMinute,  \* width of a sample bucket
  MaxClock,          \* bound: last second
  MaxBytes,          \* bound: bytes carried
  MaxBoot            \* bound: boots

ASSUME ReadingAssumption == Reading \subseteq SUBSET {"boot_id", "netdev", "vnstat"}
ASSUME HostBoundAssumption ==
  /\ SecondsPerMinute \in Nat \ {0}
  /\ MaxClock \in Nat /\ MaxBytes \in Nat /\ MaxBoot \in Nat \ {0}

Second == 0 .. MaxClock
Bucket(t) == t - (t % SecondsPerMinute)

VARIABLES
  now,          \* wall clock
  boot,         \* boot of the host
  counter,      \* bytes since this boot
  carried,      \* bytes ever; also vnStat's total
  state,        \* system_collector_state: last value and its boot
  hasState,     \* whether that row exists
  hosted,       \* keys of the system_samples rows
  host,         \* their values
  gapEvents,    \* the system_evidence_gap events: minute and sources named
  reports,      \* history: minute and sources of every incomplete reading
  late,         \* history: minutes written when a row of a later one existed
  observed,     \* keys of the vnstat_snapshots rows
  vnstat,       \* their totals
  origin        \* history: bytes carried at the first and the last reading

hostTables == <<state, hasState, hosted, host, gapEvents, reports, late, observed, vnstat,
                origin>>
world == <<now, boot, counter, carried>>

Bytes == 0 .. MaxBytes
HostRow == [rx : Nat, ok : BOOLEAN, missing : Reading \cup {{}}]
Gap == [at : Second, missing : Reading]
NoHostRow == [rx |-> 0, ok |-> TRUE, missing |-> {}]

HostInit ==
  /\ state = [value |-> 0, boot |-> 0]
  /\ hasState = FALSE
  /\ hosted = {}
  /\ host = [b \in Second |-> NoHostRow]
  /\ gapEvents = {} /\ reports = {} /\ late = {}
  /\ observed = {}
  /\ vnstat = [t \in Second |-> 0]
  /\ origin = [first |-> 0, last |-> 0]

HostTypeOK ==
  /\ state \in [value : Bytes, boot : 0 .. MaxBoot]
  /\ hasState \in BOOLEAN
  /\ hosted \subseteq Second
  /\ host \in [Second -> HostRow]
  /\ \A b \in Second \ hosted : host[b] = NoHostRow
  /\ gapEvents \subseteq Gap /\ reports \subseteq Gap
  /\ late \subseteq hosted /\ late \subseteq Second
  /\ observed \subseteq Second
  /\ vnstat \in [Second -> Bytes]
  /\ origin \in [first : Bytes, last : Bytes]

-----------------------------------------------------------------------------
\* Fault: a counter that did not shrink is taken for the same boot's.
DeltaIgnoresBoot(current, id) ==
  IF ~hasState THEN 0 ELSE current - state.value

\* Growth of the counter since the recorded reading.
safeCounterDelta(current, id) ==
  IF \/ ~hasState
     \/ current < state.value
     \/ state.boot # 0 /\ id # 0 /\ state.boot # id
  THEN 0
  ELSE current - state.value

\* Fault: a reading without network counters records a zero.
RecordZero(id, valid) ==
  /\ hasState' = TRUE
  /\ state' = [value |-> IF valid THEN counter ELSE 0, boot |-> id]
  /\ origin' = [first |-> IF hasState THEN origin.first ELSE carried,
                last  |-> IF valid THEN carried ELSE origin.last]

\* The counter is recorded when it could be read.
RecordState(id, valid) ==
  IF valid
  THEN /\ hasState' = TRUE
       /\ state' = [value |-> counter, boot |-> id]
       /\ origin' = [first |-> IF hasState THEN origin.first ELSE carried,
                     last  |-> carried]
  ELSE UNCHANGED <<hasState, state, origin>>

\* Fault: a reading replaces the minute's bytes.
MergeHostReplaces(old, new) ==
  [rx |-> new.rx, ok |-> old.ok /\ new.ok, missing |-> new.missing]

\* insertSystemSample: one row per minute; its flag never improves, its missing
\* sources are those of the last reading.
MergeHost(old, new) ==
  [rx |-> old.rx + new.rx, ok |-> old.ok /\ new.ok, missing |-> new.missing]

\* Fault: a gap right after another is taken for the same one.
PreviousIsAnyGap(b, missing) ==
  LET earlier == {h \in hosted : h < b} IN
  IF earlier = {} \/ host[Max(earlier)].missing = {} THEN {} ELSE missing

\* The missing sources of the last row before minute b.
Previous(b, missing) ==
  LET earlier == {h \in hosted : h < b} IN
  IF earlier = {} THEN {} ELSE host[Max(earlier)].missing

\* A reading without the sources in missing.
RecordHostSnapshot(missing) ==
  LET b == Bucket(now)
      id == IF "boot_id" \in missing THEN 0 ELSE boot
      valid == "netdev" \notin missing
      new == [rx |-> IF valid THEN safeCounterDelta(counter, id) ELSE 0,
              ok |-> missing = {}, missing |-> missing]
      gap == [at |-> b, missing |-> missing]
  IN
  /\ RecordState(id, valid)
  /\ hosted' = hosted \cup {b}
  /\ host' = [host EXCEPT ![b] = MergeHost(@, new)]
  /\ gapEvents' = IF missing # {} /\ missing # Previous(b, missing)
                  THEN gapEvents \cup {gap} ELSE gapEvents
  /\ reports' = IF missing # {} THEN reports \cup {gap} ELSE reports
  /\ late' = IF \E h \in hosted : h > b THEN late \cup {b} ELSE late
  /\ IF "vnstat" \in missing
     THEN UNCHANGED <<observed, vnstat>>
     ELSE /\ observed' = observed \cup {now}
          /\ vnstat' = [vnstat EXCEPT ![now] = carried]

-----------------------------------------------------------------------------
(* Properties *)

HostBytes == SumFunctionOnSet([b \in Second |-> host[b].rx], hosted)

\* System samples never add up to more than the host received between the first
\* and the last reading, in whatever order boots, readings without a boot
\* identity and readings without counters come.
HostBytesWithinCarried == HostBytes <= origin.last - origin.first

\* Until the host boots anew they add up to exactly that: a failed reading, a
\* dead collector or a clock step loses nothing.
HostBytesAreExact == boot = 1 => HostBytes = origin.last - origin.first

\* Every incomplete reading is announced: an event names the very sources it
\* missed, in its minute or in an earlier one from which on every minute missed
\* the same ones.  Minutes written after the clock stepped back apart, which the
\* code never compared with those that follow them.
GapIsAnnounced ==
  \A r \in reports : \E e \in gapEvents :
    /\ e.missing = r.missing
    /\ e.at <= r.at
    /\ \A h \in hosted : e.at <= h /\ h < r.at => host[h].missing = r.missing \/ h \in late
=============================================================================
