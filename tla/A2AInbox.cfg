SPECIFICATION InboxSpec
CONSTANTS
  e1 = e1
  e2 = e2
  e3 = e3
  e4 = e4
  t1 = t1
  Envelopes = {e1, e2, e3, e4}
  Threads = {t1}
  ThreadOf <- MCThreadOf
  NotDispatched = {e3}
  Unresolvable = {e4}
  Answerable = {e1}
  MaxRuns = 2
  DispatchConcurrency = 2
  LoopMaxPerThread = 1
  MaxInboxFaults = 1
INVARIANTS InboxTypeOK QueuedIsStored LoopBudgetKept OneReply
PROPERTIES OutcomeIsFinal EveryDispatchSettles
CHECK_DEADLOCK FALSE
