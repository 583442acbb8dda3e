SPECIFICATION Spec
CONSTANTS
  Requesters = {"r1", "r2"}
  MaxUpdates = 2
  MaxChanges = 3
  MaxQueries = 1
  MaxRestarts = 1
  MaxOvertaken = 1
CHECK_DEADLOCK FALSE
INVARIANT ConfirmedIsDone
PROPERTY MirrorImplemented
PROPERTY ConfirmedIsSeen
PROPERTY AskedIsSeen
