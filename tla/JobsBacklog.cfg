\* One assembly, one job: the process is told to stop while the backlog is drained.
SPECIFICATION LedgerFairSpec
CONSTANTS
  Queues = {q1}
  MaxJobs = 1
  MaxBacklog = 1
  MaxCompiles = 1
  JobFaults = {}
  MaxJobFaults = 0
PROPERTY BacklogIsKept
CHECK_DEADLOCK FALSE
