SPECIFICATION ProactiveSafety
CONSTANTS
  Flushes = {f1, f2}
  QueueLimits = {2, 3}
  FlushLimit = 2
  ClaimLimit = 2
  Kinds = {"push", "pull"}
  MaxMessages = 2
  MaxQueueFaults = 1
INVARIANTS ClosedForGood
