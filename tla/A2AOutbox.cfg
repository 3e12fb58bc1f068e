SPECIFICATION OutboxSpec
CONSTANTS
  i1 = i1
  i2 = i2
  i3 = i3
  s1 = s1
  s2 = s2
  Items = {i1, i2, i3}
  Sessions = {s1, s2}
  SessionOf <- MCSessionOf
  Drains = {1, 2}
  MaxAttempts = 2
  Concurrency = 2
  MaxPending = 1
  MaxFaults = 1
  None = None
INVARIANTS OutboxTypeOK NoStaleWrite AttemptsWithinBudget EscalationNamesFailure
PROPERTIES  EveryItemSettles
CHECK_DEADLOCK FALSE
