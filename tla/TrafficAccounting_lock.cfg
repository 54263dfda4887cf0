\* Two collector starts with different configurations contend for the lock.
SPECIFICATION FairSpec
CONSTANTS
  service = service
  once = once
  c1 = c1
  Credential = {c1}
  Direction = {"uplink"}
  Collector = {service, once}
  Configured = {c1}
  SecondsPerMinute = 1
  MaxCarried = 1
  MaxEpoch = 2
  MaxClock = 1
INVARIANTS AccountingInv EveryFlagExplained
PROPERTIES LockIsReleased
