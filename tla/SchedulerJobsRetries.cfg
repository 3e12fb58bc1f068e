SPECIFICATION JobsSpec
CONSTANTS
  Jobs = {j1}
  Assigned = {j1}
  MaxRetries = 0
  MaxFailures = 2
  MaxOverlap = 2
  MaxOps = 0
  MaxRestarts = 0
INVARIANT OneShotWithinRetries
CHECK_DEADLOCK FALSE
