SPECIFICATION UptimeSpec
CONSTANTS
  BackoffInitial = 1
  BackoffMax = 2
  StableConnection = 2
  DialMax = 1
  KeepAlive = 1
  Window = 2
  IdleTimeout = 2
  MaxLifetime = 3
  PersistentMaxLifetime = 2
  ReapIntervals = {4}
  SweepMax = 1
  Local = TRUE
  MaxTime = 9
  MaxCrashes = 1
  MaxFaults = 1
CONSTRAINT NotReaped
CHECK_DEADLOCK FALSE
INVARIANT UptimeTypeOK GapBounded ReapedInTime
PROPERTY IdleMeansIdle FullWindow
