SPECIFICATION TransferSpec
CONSTANTS
  LastMessage = 1
  Skipped = {}
  WithAttachment = {1}
  InParts = {1}
  Backfills = {b1, b2}
  Replays = {y1}
  MaxFaults = 2
  Faults = {"unclear", "cancel", "die", "slow", "part"}
  MaxFiles = 2
  Targets = {0, 1, 2}
  StorageMode = "redacted"
  p1 = p1
  p2 = p2
  People = {p1, p2}
  Adders = {a1}
  MaxChats = 2
  Settings <- MCSettings
SYMMETRY Symmetry
INVARIANT OneTarget
INVARIANT NobodyForgotten
INVARIANT InOneChat
INVARIANT FilesOnce
INVARIANT FileIsInChat
INVARIANT FilesAccounted
CHECK_DEADLOCK FALSE
