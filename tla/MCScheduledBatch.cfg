\* Two processes, a tenant job and a platform job, two slots, one process
\* killed and one database call failing.
CONSTANTS
  Worker = {w1, w2}
  TenantJob = {t1}
  NormalizeJob = {}
  WorkJob = {p1}
  Malformed = {}
  Setting = {"free_only"}
  NoJob = NoJob
  MaxJobs = 2
  MaxAttempts = 2
  RunWindow = 1
  CloseGrace = 1
  RetryDelay = 2
  SlotPeriod = 3
  DayLength = 8
  DayWindows = 1
  Horizon = 3
  MaxFaults = 1
  MaxKills = 1
SPECIFICATION Spec
SYMMETRY Processes
INVARIANTS TypeOK SingleBatch RunningClaimHasOpenRun CompletedRunIsSettled HandledWasCommitted CountersAddUp
PROPERTIES NeverRestartedWhileLive OncePerBatch DeliversJobs
