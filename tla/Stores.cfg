\* Two writers of the manifest and one crash; two processes with a credential and three
\* tokens; four published states and three restores; a pack with two versions of
\* config.yaml and one copied file; one source of three versions, two batches and two
\* crashes; three entities, one of which is deleted and comes back, and a document.
SPECIFICATION StoresSpec
CONSTANTS
  Editors = {p1, p2}
  NoToken = NoToken
  Entries = {a, b}
  MaxChanges = 2
  MaxDeaths = 1
  Timely = TRUE
  Clients = {c1, c2}
  MaxTokens = 3
  MaxAuthFaults = 1
  AuthRaces = {}
  MaxPasses = 4
  RetainGens = 2
  MaxRuns = 3
  HydrateRaces = {}
  Config = config
  Copied = {prompt}
  Shipped <- MCShipped
  MaxEdits = 2
  PackRaces = {}
  Docs = {x}
  MaxVersion = 3
  MaxBatches = 2
  MaxStops = 2
  BatchRaces = {}
  NoBatch = NoBatch
  DeadBatch = DeadBatch
  Stripped = Stripped
  Entities = {1, 2, 3}
  FileEntities = {4}
  Edges <- MCEdges
  Prunable = {2}
  MaxSweepPasses = 3
  Compiles = {m1}
  AliasRaces = {}
INVARIANTS
  StoresTypeOK
  StoredTokenIsLive
  OneRestorePoint
  UserTextIsKept
  PaidBatchOnRecord
  CompiledMeansSummarized
  RejectedStayApart
  SweptGraphIsExact
PROPERTY SavesOwnChanges
CHECK_DEADLOCK FALSE
