SPECIFICATION RSpec
CONSTANTS
  MaxWrites = 3
  MaxGen = 2
  MaxSeg = 2
  Retain = 2
  AppEvents <- EvClose
  CrashPoints <- BeforeCommit
INVARIANTS
  CommittedChainReadable
  RestoreConsistent
  ShipCoversWrites
PROPERTY PublishesLast
CHECK_DEADLOCK FALSE
