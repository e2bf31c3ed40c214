\* One process and one failing database call: recording a timeout fails.
CONSTANTS
  Worker = {w1}
  TenantJob = {t1}
  NormalizeJob = {}
  WorkJob = {p1}
  Malformed = {}
  Setting = {"free_only"}
  NoJob = NoJob
  MaxJobs = 2
  MaxAttempts = 2
  RunWindow = 1
  CloseGrace = 1
  RetryDelay = 2
  SlotPeriod = 3
  DayLength = 8
  DayWindows = 1
  Horizon = 3
  MaxFaults = 1
  MaxKills = 0
SPECIFICATION Spec
INVARIANT NeverStartsOverlappingWork
