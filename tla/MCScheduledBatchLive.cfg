\* One process, the owner switching modes, and one database call failing: what
\* the timers and the event loop guarantee.  Both slots' deadlines pass within
\* the horizon.
CONSTANTS
  Worker = {w1}
  TenantJob = {t1}
  NormalizeJob = {n1}
  WorkJob = {}
  Malformed = {n1}
  Setting = {"disabled", "free_only", "metered_redis"}
  NoJob = NoJob
  MaxJobs = 2
  MaxAttempts = 2
  RunWindow = 1
  CloseGrace = 1
  RetryDelay = 1
  SlotPeriod = 2
  DayLength = 8
  DayWindows = 1
  Horizon = 3
  MaxFaults = 1
  MaxKills = 0
SPECIFICATION FairSpec
PROPERTIES BatchEnds StopCompletes
