\* A job whose attempts all fail.
CONSTANTS
  Event = {e1}
  Invalid = {}
  Publisher = {p1}
  Exec = {x1}
  None = None
  MaxAttempts = 2
  MaxStalls = 1
  MaxPublish = 2
  MaxTrouble = 2
SPECIFICATION Spec
INVARIANTS ExhaustedIsRecorded
