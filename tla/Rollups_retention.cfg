\* Maintenance in the middle of an hour.
SPECIFICATION Spec
CONSTANTS
  c1 = c1
  Credential = {c1}
  Kind = {"hour", "day"}
  Start <- RegularStart
  End <- RegularEnd
  Shown <- RegularStart
  HourLength = 2
  Retention <- RollupsLonger
  MaxStep = 1
  MaxMinute = 5
  MaxBytes = 1
PROPERTIES RewrittenRollupIsComplete
