SPECIFICATION HostSpec
CONSTANTS
  wiki = wiki
  other = other
  r1 = r1
  r2 = r2
  s1 = s1
  s2 = s2
  h1 = h1
  h2 = h2
  Nil = Nil
  Names = {wiki, other}
  Home = wiki
  Requests = {r1, r2}
  Queues = {s1, s2}
  Handles = {h1, h2}
  MaxOpen = 1
  IdleClose = TRUE
  HostRaces = {}
  MaxJobs = 1
  MaxBacklog = 1
  MaxCompiles = 2
  JobFaults = {}
  MaxJobFaults = 0
SYMMETRY Interchangeable
INVARIANTS
  ServedStackIsUp
  CompilesUnderLock
  OwnershipInv
CHECK_DEADLOCK FALSE
