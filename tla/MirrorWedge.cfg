SPECIFICATION Spec
CONSTANTS
  MaxWrites = 2
  MaxGen = 2
  MaxSeg = 2
  Retain = 1
  AppEvents <- AllEvents
  CrashPoints <- AllSteps
INVARIANTS
  CommittedChainReadable
CHECK_DEADLOCK FALSE
