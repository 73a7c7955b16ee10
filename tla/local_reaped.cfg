SPECIFICATION UptimeSpec
CONSTANTS
  BackoffInitial = 1
  BackoffMax = 2
  StableConnection = 2
  DialMax = 1
  KeepAlive = 1
  Window = 3
  IdleTimeout = 4
  MaxLifetime = 7
  PersistentMaxLifetime = 7
  ReapIntervals = {2}
  SweepMax = 1
  Local = TRUE
  MaxTime = 11
  MaxCrashes = 0
  MaxFaults = 0
CHECK_DEADLOCK FALSE
PROPERTY OrphanUnreachable
