----------------------------- MODULE MCRollups -----------------------------
(* Instances of Rollups for TLC.  An hour has two minutes.                    *)
EXTENDS Rollups, TLC

CONSTANT c1

\* Rollups are kept longer than samples, or samples longer than rollups.
RollupsLonger == {[minutes |-> 2, rollups |-> 9]}
EitherLonger == {[minutes |-> 2, rollups |-> 3], [minutes |-> 3, rollups |-> 2]}

HourOf(m) == m - (m % 2)
DayOf(m) == m - (m % 4)

\* A zone without daylight saving time; a day has two hours.
RegularStart == [k \in Kind |-> [m \in Minute |-> IF k = "hour" THEN HourOf(m) ELSE DayOf(m)]]
RegularEnd == [k \in Kind |-> [m \in Minute |-> IF k = "hour" THEN HourOf(m) + 2 ELSE DayOf(m) + 4]]

\* A zone whose day starts an hour later.  With Shown <- LaterStart and the
\* other parameters of Rollups_retention TimelineWithinRecorded fails: a rollup
\* does not cover the samples of a day that starts elsewhere.
LaterStart ==
  [k \in Kind |-> [m \in Minute |->
     IF k = "hour" THEN HourOf(m) ELSE IF m < 2 THEN 0 ELSE DayOf(m - 2) + 2]]

\* The instances meet what the theorems suppose; only a day that outlives its
\* samples, in Rollups_retention, does not.
ASSUME RegularZone == RegularHours /\ RegularPeriods /\ OneZone
ASSUME KeptLongEnough == StepsAreShort /\ (Kind = {"hour"} => SamplesOutlivePeriods)
=============================================================================
