\* The API's job store with a runner, two clients and three jobs for two places; three
\* writers of two keys and a store with one place; the bus with a webhook and a
\* subscriber, two places in its queues and one in the buffer, and both hard stops; two
\* outputs of one question, two answers, two sets of chunks, and one command at a time
\* among any number of queries.
SPECIFICATION SurfSpec
CONSTANTS
  Submitters = {c1, c2}
  Kinds = {"compile", "lint"}
  Keys = {k1}
  NoKey = NoKey
  MaxApiJobs = 3
  StoreMax = 2
  HasRunner = TRUE
  KeyRace = FALSE
  Writers = {w1, w2, w3}
  NoWriter = NoWriter
  IdemKeys = {i1, i2}
  NoIdemKey = NoIdemKey
  MaxEntries = 1
  MaxHandled = 3
  Sinks = {web, sse}
  Subscribers = {sse}
  Hook = web
  RingSize = 1
  QueueSize = 2
  MaxEmits = 2
  MaxAudits = 1
  Cuts = {"signal", "budget"}
  Outputs = {o1, o2}
  Answers = {yes, no}
  NoAnswer = NoAnswer
  NoOutput = NoOutput
  MaxSets = 2
  Threshold = 2
  Actors = {cli}
  TrustRaces = {}
SYMMETRY MCSymmetry
INVARIANTS
  GateInv
  DispatchedOnce
  FollowersAreLed
  TrustIsEarned
  OneTrustedAnswer
  NothingLostSilently
PROPERTIES
  VerdictStands
  DeliveredInOrder
CHECK_DEADLOCK FALSE
