SPECIFICATION FairSpec
CONSTANTS
  LastMessage = 2
  Skipped = {}
  WithAttachment = {1}
  InParts = {1, 2}
  Backfills = {b1, b2}
  Replays = {y1}
  MaxFaults = 1
  Faults = {"unclear", "cancel", "die", "slow", "part"}
INVARIANT ImportedIsInChat
INVARIANT SentOnce
INVARIANT PassedIsSettled
INVARIANT InOrder
PROPERTY PassesOnlySettled
PROPERTY RerunsSettle
CHECK_DEADLOCK FALSE
