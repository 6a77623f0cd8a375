SPECIFICATION Spec
CONSTANTS
  NoWorker = NoWorker
  Chats = {c1}
  Requests = {r1, r2}
  Workers = {w1}
  MaxQueued = 2
  MaxRunning = 2
  MaxAttempts = 1
  MaxFaults = 0
  Faults = {}
INVARIANT ScopeIsExclusive
CHECK_DEADLOCK FALSE
