SPECIFICATION Spec
CONSTANTS
  Job = {sync}
  Mode = {"free_only", "metered_redis"}
  Sweep = {s1, s2}
  RunWindow = 1
  MaxAttempts = 2
  MaxPublish = 2
  Skew <- ClockSkew
  MaxBatches = 2
  MaxFaults = 1
  Horizon = 2
PROPERTY RedisNeverReplays
CHECK_DEADLOCK FALSE
