SPECIFICATION Spec
CONSTANTS
  Operators = {o1, o2}
  Callers = {q1, q2}
  NoOne = NoOne
  Kinds = {"private", "group", "forum", "channel"}
  Givens <- AllOrNothing
  MaxCommands = 2
  FirstRecords <- AnyRecord
  MaxLogins = 1
  MaxEvents = 3
  SessionFaults = {"restart", "timeout"}
SYMMETRY Symmetry
INVARIANT LoginIsWhole
INVARIANT JobAsAsked
INVARIANT JobOfOwner
PROPERTY RemovedStaysRemoved
PROPERTY EndedStaysEnded
CHECK_DEADLOCK FALSE
