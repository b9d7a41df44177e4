SPECIFICATION LedgerFairSpec
CONSTANTS
  Queues = {q1, q2}
  MaxJobs = 2
  MaxBacklog = 2
  MaxCompiles = 1
  JobFaults = {"lost", "kept", "torn", "crash", "linger"}
  MaxJobFaults = 1
INVARIANTS
  StartedOnce
  AcceptedIsAccounted
PROPERTIES
  VerdictIsFinal
  PendingIsTaken
CHECK_DEADLOCK FALSE
