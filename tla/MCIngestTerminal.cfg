\* A publisher still at work when the worker commits.
CONSTANTS
  Event = {e1}
  Invalid = {}
  Publisher = {p1}
  Exec = {x1}
  None = None
  MaxAttempts = 2
  MaxStalls = 1
  MaxPublish = 2
  MaxTrouble = 1
SPECIFICATION Spec
PROPERTIES TerminalStatus
