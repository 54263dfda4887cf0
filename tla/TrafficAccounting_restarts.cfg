\* One collector, two sing-box processes, identities that get lost, clock steps.
SPECIFICATION Spec
CONSTANTS
  service = service
  once = once
  c1 = c1
  Credential = {c1}
  Direction = {"uplink"}
  Collector = {service}
  Configured = {c1}
  SecondsPerMinute = 2
  MaxCarried = 2
  MaxEpoch = 2
  MaxClock = 2
INVARIANTS TypeOK NoOverBilling UnflaggedIsExact SamplesHoldEveryDelta
PROPERTIES ImplementsLedger EvidenceIsNeverErased NoBytesInEarlierMinutes RevokedStaysRevoked
