SPECIFICATION RSpec
CONSTANTS
  MaxWrites = 2
  MaxGen = 2
  MaxSeg = 2
  Retain = 1
  AppEvents <- EvNone
  CrashPoints <- NoSteps
INVARIANTS
  LossIsBounded
CHECK_DEADLOCK FALSE
