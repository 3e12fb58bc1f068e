SPECIFICATION ProactiveSpec
CONSTANTS
  Flushes = {f1, f2}
  QueueLimits = {2, 3}
  FlushLimit = 2
  ClaimLimit = 2
  \* What happens to a "push" message may happen to a "line" message.
  Kinds = {"line", "pull", "unsupported"}
  MaxMessages = 4
  MaxQueueFaults = 1
INVARIANTS  NothingVanishes SentIsNotListed SentInOrder
PROPERTIES NothingIsStuck
