\* Traffic that was carried before the first vnStat snapshot.
SPECIFICATION Spec
CONSTANTS
  Reading = {{}, {"vnstat"}}
  SecondsPerMinute = 1
  MaxClock = 5
  MaxBytes = 2
  MaxBoot = 1
  CycleSeconds = 6
  HourSeconds = 6
  QuotaBytes = 1
  UserBytesLimit = 2
  DifferencePct = 10
  Consecutive = 2
  SpikeFactor = 2
  HistoryHours = 1
  FreshSeconds = 1
  MaxStep = 0
  MaxCycles = 6
INVARIANTS CoveredWithinInterface
