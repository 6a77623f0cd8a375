SPECIFICATION FairSpec
CONSTANTS
  NoWorker = NoWorker
  Jobs = {j1}
  Workers = {w1, w2, w3}
  StorageMode = "redacted"
  SessionOutlivesLease = TRUE
  BatchSize = 2
  MaxLeases = 3
  MaxAttempts = 3
  MaxPublisherFaults = 2
  MaxConsumerFaults = 1
  PublisherFaults = {"crash", "stop", "slow", "broker", "db"}
  ConsumerFaults = {"crash", "stop", "stall", "long", "db"}
  Cancellable = {}
INVARIANT PublishedIsOnTopic
PROPERTY MarkIsFinal
PROPERTY ImplementsConsumer
PROPERTY EnqueuedJobEnds
CHECK_DEADLOCK FALSE
