------------------------------- MODULE Alerts -------------------------------
(***************************************************************************)
(* A collection cycle after its counters were read, and its alerts.        *)
(*                                                                         *)
(* The cycle records the users' traffic or a gap, then the host's          *)
(* evidence, then evaluates the alerts of the billing cycle from what the  *)
(* tables hold.  Each of these steps may fail and the cycle goes on; the   *)
(* process may also die.  Every alert is a transaction of its own.         *)
(*                                                                         *)
(* All traffic of the host is the users', and sing-box starts with the     *)
(* host: one counter serves both.  What sing-box restarts, lost identities *)
(* and several credentials change is modelled in TrafficAccounting.        *)
(***************************************************************************)
EXTENDS HostEvidence, Sequences

CONSTANTS
  CycleSeconds,    \* length of a billing cycle
  HourSeconds,     \* length of the period of a user threshold
  QuotaBytes,      \* bytes at which the quota alert rises
  UserBytesLimit,  \* user_hourly_bytes
  DifferencePct,   \* traffic_difference_percent
  Consecutive,     \* consecutive_failures
  SpikeFactor,     \* historical_spike_factor
  HistoryHours,    \* hours before the last one that a spike is measured by
  FreshSeconds,    \* age up to which a minute is fresh
  MaxStep,         \* bound: seconds the wall clock is stepped back at once
  MaxCycles        \* bound: collection cycles

ASSUME AlertAssumption ==
  /\ CycleSeconds \in Nat \ {0} /\ HourSeconds \in Nat \ {0}
  /\ QuotaBytes \in Nat \ {0} /\ UserBytesLimit \in Nat \ {0}
  /\ DifferencePct \in Nat /\ Consecutive \in Nat /\ SpikeFactor \in Nat
  /\ HistoryHours \in Nat \ {0} /\ FreshSeconds \in Nat
  /\ MaxStep \in Nat /\ MaxCycles \in Nat

VARIABLES
  pc,          \* where the cycle stands
  cycles,      \* cycles begun
  hasBase,     \* whether the credential has a collector_state row
  base,        \* that row
  sampled,     \* keys of the traffic_samples rows
  sample,      \* their values
  active       \* keys of the active rows of alert_state

traffic == <<hasBase, base, sampled, sample>>
vars == <<world, pc, cycles, hostTables, traffic, active>>

Sample == [bytes : Nat, ok : BOOLEAN]
NoSample == [bytes |-> 0, ok |-> TRUE]

billingCycleStart(t) == t - (t % CycleSeconds)
\* Keys name the start of the alert's cycle or hour; the last kind has none.
AlertKey == [kind : {"quota", "difference", "user", "spike", "failures"}, start : Second]
Key(kind, start) == [kind |-> kind, start |-> start]

Init ==
  /\ now = 0
  /\ boot = 1 /\ counter = 0 /\ carried = 0
  /\ HostInit
  /\ pc = "idle" /\ cycles = 0
  /\ hasBase = FALSE /\ base = [value |-> 0, boot |-> 0, at |-> 0]
  /\ sampled = {} /\ sample = [b \in Second |-> NoSample]
  /\ active = {}

-----------------------------------------------------------------------------
(* Environment *)

\* A cycle is short: what is carried during it counts as carried before it.
Carry ==
  /\ pc = "idle"
  /\ carried < MaxBytes
  /\ counter' = counter + 1
  /\ carried' = carried + 1
  /\ UNCHANGED <<now, boot, pc, cycles, hostTables, traffic, active>>

SetClock ==
  /\ pc = "idle"
  /\ now' \in ((now - MaxStep .. now + 1) \cap Second) \ {now}
  /\ UNCHANGED <<boot, counter, carried, pc, cycles, hostTables, traffic, active>>

\* The host boots; its collector is gone.
Reboot ==
  /\ boot < MaxBoot
  /\ boot' = boot + 1
  /\ counter' = 0
  /\ pc' = "idle"
  /\ UNCHANGED <<now, carried, cycles, hostTables, traffic, active>>

-----------------------------------------------------------------------------
(* Traffic *)

\* Fault: an observation replaces the minute's bytes.
MergeReplaces(old, new) == [bytes |-> new.bytes, ok |-> old.ok /\ new.ok]

Merge(old, new) == [bytes |-> old.bytes + new.bytes, ok |-> old.ok /\ new.ok]

Insert(bytes, ok) ==
  LET b == Bucket(now) IN
  /\ sampled' = sampled \cup {b}
  /\ sample' = [sample EXCEPT ![b] = Merge(@, [bytes |-> bytes, ok |-> ok])]

BeginCycle ==
  /\ pc = "idle" /\ pc' = "host"
  /\ cycles < MaxCycles /\ cycles' = cycles + 1

\* The first observation is a baseline; a verified restart bills the counter.
RecordSnapshot ==
  /\ BeginCycle
  /\ hasBase => now >= base.at
  /\ Insert(IF ~hasBase THEN 0
            ELSE IF base.boot # boot THEN counter ELSE counter - base.value, TRUE)
  /\ hasBase' = TRUE
  /\ base' = [value |-> counter, boot |-> boot, at |-> now]
  /\ UNCHANGED <<world, hostTables, active>>

RecordFailure ==
  /\ BeginCycle
  /\ Insert(0, FALSE)
  /\ UNCHANGED <<world, hostTables, hasBase, base, active>>

\* The snapshot is stale, or SQLite refuses the transaction.
RecordsNothing ==
  /\ BeginCycle
  /\ UNCHANGED <<world, hostTables, traffic, active>>

ObserveHost ==
  /\ pc = "host"
  /\ pc' = "alerts"
  /\ \/ \E missing \in Reading : RecordHostSnapshot(missing)
     \/ UNCHANGED hostTables
  /\ UNCHANGED <<world, cycles, traffic, active>>

-----------------------------------------------------------------------------
(* Alerts *)

\* The complete minutes in [from, to), and their bytes.
Complete(from, to) == {b \in sampled : sample[b].ok /\ from <= b /\ b < to}
UserBytes(from, to) ==
  SumFunctionOnSet([b \in Second |-> sample[b].bytes], Complete(from, to))

\* MonthUsage: the first and the last vnStat snapshot in [from, to), and the
\* users' bytes between the two.
MonthUsage(from, to) ==
  LET S == {t \in observed : from <= t /\ t < to}
      first == Min(S)
      last == Max(S)
  IN [user      |-> UserBytes(from, to),
      available |-> S # {},
      interface |-> IF S = {} \/ vnstat[last] < vnstat[first] THEN 0
                    ELSE vnstat[last] - vnstat[first],
      covered   |-> IF S = {} THEN 0 ELSE UserBytes(first, last)]

\* DifferencePercent >= traffic_difference_percent
Differs(usage) ==
  LET gap == usage.interface - usage.covered IN
  100 * (IF gap < 0 THEN -gap ELSE gap) >= DifferencePct * Max({usage.interface, 1})

\* Minutes with a gap after the last minute without one.
consecutiveFailures ==
  Cardinality({b \in sampled : \A later \in sampled : later >= b => ~sample[later].ok})

\* The last hour has SpikeFactor times the bytes of an average hour before it.
Spike ==
  LET from == now - HourSeconds
      before == UserBytes(from - HistoryHours * HourSeconds, from)
  IN before > 0 /\ HistoryHours * UserBytes(from, now + 1) >= SpikeFactor * before

\* What EvaluateAlerts sets, in its order.
Checks ==
  LET cycle == billingCycleStart(now)
      hour == now - (now % HourSeconds)
      usage == MonthUsage(cycle, now + 1)
      check(kind, start, holds) == <<[key |-> Key(kind, start), holds |-> holds]>>
      only(condition, checks) == IF condition THEN checks ELSE <<>>
  IN check("quota", cycle, usage.user >= QuotaBytes)
     \o only(usage.available, check("difference", cycle, Differs(usage)))
     \o check("failures", 0, consecutiveFailures >= Consecutive)
     \o only(Complete(hour, now + 1) # {},
             check("user", hour, UserBytes(hour, now + 1) >= UserBytesLimit))
     \o only(Complete(now - (HistoryHours + 1) * HourSeconds, now + 1) # {},
             check("spike", hour, Spike))

\* setAlert for the checks C.  (The event of a rising alert repeats it.)
setAlerts(C) ==
  active' = (active \cup {c.key : c \in {d \in C : d.holds}})
            \ {c.key : c \in {d \in C : ~d.holds}}

\* The first n alerts are committed: all of them, or those before a failure.
EvaluateAlerts ==
  /\ pc = "alerts"
  /\ pc' = "idle"
  /\ \E n \in 0 .. Len(Checks) : setAlerts({Checks[i] : i \in 1 .. n})
  /\ UNCHANGED <<world, cycles, hostTables, traffic>>

Crash ==
  /\ pc # "idle"
  /\ pc' = "idle"
  /\ UNCHANGED <<world, cycles, hostTables, traffic, active>>

Next ==
  \/ Carry \/ SetClock \/ Reboot
  \/ RecordSnapshot \/ RecordFailure \/ RecordsNothing
  \/ ObserveHost
  \/ EvaluateAlerts
  \/ Crash

Spec == Init /\ [][Next]_vars

-----------------------------------------------------------------------------
(* Health: reads the tables and the clock *)

Fresh(S) == S # {} /\ Max(S) > now - FreshSeconds

\* Fault: an earlier success answers for the latest minute.
AnyComplete(S, T) == \E b \in S : T[b].ok

LatestComplete(S, T) == S # {} /\ T[Max(S)].ok

Health ==
  [trafficFresh |-> Fresh(sampled), statsAPI |-> LatestComplete(sampled, sample),
   systemFresh  |-> Fresh(hosted),  system   |-> LatestComplete(hosted, host),
   vnstat       |-> Fresh(observed)]

-----------------------------------------------------------------------------
(* Properties *)

\* Every variable keeps the shape of its table.
TypeOK ==
  /\ now \in Second /\ cycles \in 0 .. MaxCycles
  /\ boot \in 1 .. MaxBoot /\ counter \in Bytes /\ carried \in Bytes
  /\ HostTypeOK
  /\ pc \in {"idle", "host", "alerts"}
  /\ hasBase \in BOOLEAN
  /\ base \in [value : Bytes, boot : 0 .. MaxBoot, at : Second]
  /\ sampled \subseteq Second
  /\ sample \in [Second -> Sample]
  /\ active \subseteq AlertKey

\* An alert on a quota or on a user's hour that was raised is cleared in its
\* period only when a gap withdrew bytes of one of the period's minutes, or the
\* clock stands before a minute that was counted: restarts, boots, missing
\* evidence and deaths of the collector never make an estimate shrink.
VolumeAlertStays ==
  [][\A key \in active \ active' :
       key.kind \in {"quota", "user"} =>
         \E b \in sampled : /\ key.start <= b
                           /\ sample[b].bytes > 0
                           /\ (~sample[b].ok \/ b > now)]_vars

\* What Health reports well is so in the other tables: the counters behind a
\* fresh and complete minute became the credential's baseline that recently, and
\* a fresh and complete host minute has a vnStat reading as fresh, whatever
\* failures, deaths and clock steps came between.
HealthIsTrue ==
  /\ Health.trafficFresh /\ Health.statsAPI =>
       hasBase /\ base.at > now - FreshSeconds
  /\ Health.systemFresh /\ Health.system => Health.vnstat

\* MonthUsage: "Reconciliation must compare identical time coverage": where all
\* traffic of the interface is the users', the users' bytes in the covered time
\* are no more than the interface's, but for the minutes at its ends.
CoveredWithinInterface ==
  LET from == billingCycleStart(now)
      S == {t \in observed : from <= t /\ t <= now}
      usage == MonthUsage(from, now + 1)
  IN S # {} => usage.covered <= usage.interface + sample[Bucket(Min(S))].bytes
                                                + sample[Bucket(Max(S))].bytes
=============================================================================
