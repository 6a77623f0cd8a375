SPECIFICATION Spec
CONSTANTS
  NoWorker = NoWorker
  Jobs = {j1, j2}
  Workers = {w1, w2}
  StorageMode = "redacted"
  SessionOutlivesLease = FALSE
  MaxCopies = 2
  MaxAttempts = 3
  MaxFaults = 2
  Faults = {"crash", "stop", "stall", "long", "db"}
  Cancellable = {j1}
SYMMETRY Symmetry
INVARIANT NoCommandSkipped
INVARIANT OneExecutionPerJob
PROPERTY ImplementsLifecycle
CHECK_DEADLOCK FALSE
