SPECIFICATION Spec
CONSTANTS
  NoWorker = NoWorker
  Chats = {c1, c2}
  Requests = {r1, r2}
  Workers = {w1}
  MaxQueued = 1
  MaxRunning = 2
  MaxAttempts = 2
  MaxFaults = 1
  Faults = {"stall", "crash"}
SYMMETRY Symmetry
INVARIANT OneActiveJobPerChat
INVARIANT QueueIsBounded
PROPERTY AskedBeforeResume
CHECK_DEADLOCK FALSE
