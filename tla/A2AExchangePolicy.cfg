SPECIFICATION Spec
CONSTANTS
  i1 = i1
  i2 = i2
  i3 = i3
  e1 = e1
  e2 = e2
  s1 = s1
  t1 = t1
  None = None
  Items = {i3}
  Sessions = {s1}
  SessionOf <- MCSessionOf
  Drains = {1}
  MaxAttempts = 2
  Concurrency = 2
  MaxPending = 1
  MaxFaults = 0
  Envelopes = {e1, e2}
  Threads = {t1}
  ThreadOf <- MCThreadOf
  NotDispatched = {}
  Unresolvable = {}
  Answerable = {}
  MaxRuns = 1
  DispatchConcurrency = 1
  LoopMaxPerThread = 1
  MaxInboxFaults = 0
  EnvelopeOf <- MCEnvelopeOf
  PolicyUpdates = {e2}
INVARIANTS DeliveredIsKept
CHECK_DEADLOCK FALSE
