\* A restart between the counter query and the identity read.
SPECIFICATION Spec
CONSTANTS
  service = service
  once = once
  c1 = c1
  Credential = {c1}
  Direction = {"uplink"}
  Collector = {service}
  Configured = {c1}
  SecondsPerMinute = 2
  MaxCarried = 1
  MaxEpoch = 2
  MaxClock = 2
INVARIANTS BilledWithinCarried
