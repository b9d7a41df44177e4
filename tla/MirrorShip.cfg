SPECIFICATION Spec
CONSTANTS
  MaxWrites = 2
  MaxGen = 3
  MaxSeg = 2
  Retain = 2
  AppEvents <- AllEvents
  CrashPoints <- AllSteps
INVARIANTS
  TypeOK
  CommittedRefsPresent
  RetainedGenerationsPresent
  LocalNeverAhead
CHECK_DEADLOCK FALSE
