\* Samples and rollups that expire, under a clock that is stepped back.
SPECIFICATION Spec
CONSTANTS
  c1 = c1
  Credential = {c1}
  Kind = {"hour"}
  Start <- RegularStart
  End <- RegularEnd
  Shown <- RegularStart
  HourLength = 2
  Retention <- EitherLonger
  MaxStep = 1
  MaxMinute = 4
  MaxBytes = 1
INVARIANTS TypeOK TopWithinRecorded TopIsExact TimelineWithinRecorded TimelineIsExact IncidentIsRecorded
PROPERTIES FirstRollupIsExact DeletedIsRolledUp
