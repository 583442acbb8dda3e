SPECIFICATION GoveeSpec
CONSTANTS
  MaxLevel = 2
  StepSize = 1
  Wanted <- SwitchAndStepUp
  MaxChanges = 2
  MaxQueries = 2
  MaxRestarts = 1
  MaxOvertaken = 1
CHECK_DEADLOCK FALSE
INVARIANT GoveeTypeOK
INVARIANT StepsUpNeverDim
INVARIANT StepsCount
PROPERTY GoveeMirrorImplemented
PROPERTY EveryUpdateIsSeen
PROPERTY GoveeAskedIsSeen
