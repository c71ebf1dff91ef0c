CONSTANTS
  Names = {n1}
  Savers = {s1, s2}
  Recoverers = {r1}
  IOErrors = TRUE
  MaxVer = 2
  MaxCrash = 2
  NoThread = NoThread
  NoFile = NoFile
  NoProc = NoProc
  Backups = 1
  MaxRestarts = 2
  MaxProcs = 4
  Restarter = TRUE
  nightly = nightly
  nightly_full = nightly_full
  at_stop = at_stop
  Schedules = {nightly, at_stop}
  OnStop = {at_stop}
  Matches <- Prefixed
  Rank <- Sorted
  Keep = 1
  Interval = 1
  Never = Never
  MaxTime = 1
  MaxSnaps = 3
  MaxBack = 1
  VMs = {v1, v2}
  Absent = Absent
  NoQEMU = NoQEMU
  FirstPort = 1
  LastPort = 2
  MaxLaunches = 2
  MaxLives = 2
  MaxOutside = 1
  Machines = {w1, w2}
  NotAdded = NotAdded
  Lazy = Lazy
  Nobody = Nobody
  MaxBridges = 3
  Minute = 2
  Hour = 4
  RawWindow = 3
  MinuteWindow = 6
  HourWindow = 8
  MaxClock = 14
  MaxSamples = 3
  MaxLag = 1
SPECIFICATION DesktopSpec
INVARIANTS
  DesktopTypeOK FirstCrashSafe OnlySlippedRemain
  KeepsLastApart FreshPortsApart LaunchedTracked  LoopsOwned SampleOnce
PROPERTIES LockReleased PrimaryReplaced
CHECK_DEADLOCK FALSE
