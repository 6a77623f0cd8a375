SPECIFICATION FairSpec
CONSTANTS
  NoWorker = NoWorker
  Jobs = {j1, j2}
  Workers = {w1, w2}
  Concurrency = 2
  MaxAttempts = 2
  MaxFaults = 1
  Faults = {"crash", "stop", "stall", "db"}
  Cancellable = {j1}
  Endless = {j1}
INVARIANT TypeOK
INVARIANT NoCancelWithoutRequest
INVARIANT OneExecutionPerJob
PROPERTY TerminalIsFinal
PROPERTY CancelRequestSurvives
PROPERTY ClosedByOwner
PROPERTY ImplementsLifecycle
PROPERTY JobEnds
PROPERTY CancelStopsExecution
CHECK_DEADLOCK FALSE
