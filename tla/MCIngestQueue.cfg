\* A valid or an invalid event, two publishers, two executions, two mishaps: what is
\* safe at every step, and what the sweep, the stalled-job check and the workers
\* guarantee.
CONSTANTS
  Event = {e1, e2}
  Invalid = {e2}
  Publisher = {p1, p2}
  Exec = {x1, x2}
  None = None
  MaxAttempts = 2
  MaxStalls = 1
  MaxPublish = 2
  MaxTrouble = 2
SPECIFICATION FairOneEvent
INVARIANTS TypeOK NormalizedOnce NothingLost CompletedWasNormalized
PROPERTIES Settles
