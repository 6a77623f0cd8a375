SPECIFICATION Spec
CONSTANTS
  LastMessage = 1
  Skipped = {}
  WithAttachment = {}
  InParts = {}
  Backfills = {b1}
  Replays = {}
  MaxFaults = 0
  Faults = {}
INVARIANT CompletedIsMigrated
CHECK_DEADLOCK FALSE
