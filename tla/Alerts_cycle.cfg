\* Boots, missing sources, failures, deaths and clock steps.
SPECIFICATION Spec
CONSTANTS
  Reading <- Losses
  SecondsPerMinute = 1
  MaxClock = 2
  MaxBytes = 2
  MaxBoot = 2
  CycleSeconds = 2
  HourSeconds = 1
  QuotaBytes = 1
  UserBytesLimit = 2
  DifferencePct = 10
  Consecutive = 2
  SpikeFactor = 2
  HistoryHours = 1
  FreshSeconds = 1
  MaxStep = 1
  MaxCycles = 3
INVARIANTS TypeOK HostBytesWithinCarried HostBytesAreExact GapIsAnnounced HealthIsTrue
PROPERTIES VolumeAlertStays
