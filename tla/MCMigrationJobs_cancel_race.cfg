SPECIFICATION FairSpec
CONSTANTS
  NoWorker = NoWorker
  Jobs = {j1}
  Workers = {w1}
  Concurrency = 1
  MaxAttempts = 1
  MaxFaults = 0
  Faults = {}
  Cancellable = {j1}
  Endless = {}
PROPERTY CancelEnds
CHECK_DEADLOCK FALSE
