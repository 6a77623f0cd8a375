SPECIFICATION FairSpec
CONSTANTS
  NoWorker = NoWorker
  Jobs = {j1}
  Workers = {w1, w2, w3}
  StorageMode = "redacted"
  SessionOutlivesLease = TRUE
  MaxCopies = 1
  MaxAttempts = 3
  MaxFaults = 2
  Faults = {"long", "crash"}
  Cancellable = {}
PROPERTY JobEnds
CHECK_DEADLOCK FALSE
