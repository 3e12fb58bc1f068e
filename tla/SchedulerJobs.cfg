SPECIFICATION JobsSpec
CONSTANTS
  Jobs = {j1}
  Assigned = {j1}
  MaxRetries = 1
  MaxFailures = 2
  MaxOverlap = 2
  MaxOps = 2
  MaxRestarts = 1
INVARIANT JobsTypeOK
PROPERTIES TerminalIsKept  RunOnceSettles
CHECK_DEADLOCK FALSE
