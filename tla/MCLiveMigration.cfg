SPECIFICATION FairSpec
CONSTANTS
  LastMessage = 3
  BackfilledTo = 1
  OtherTopic = {}
  OutOfDates = {}
  WithAttachment = {2}
  Deltas = {x1}
  Commands = {c1}
  BatchSize = 1
  MaxFaults = 1
  Faults = {"die", "cancel", "unclear", "slow"}
INVARIANT OnlyTheGapIsLost
INVARIANT PauseStopsLive
INVARIANT CompletedWasSettled
PROPERTY PostedIsTried
CHECK_DEADLOCK FALSE
