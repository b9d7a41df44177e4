SPECIFICATION FairSpec
CONSTANTS
  w1 = w1
  w2 = w2
  note = note
  paper = paper
  Sources = {paper}
  Workers = {w1}
  Nobody = Nobody
  Gone = Gone
  DefaultTier <- Mixed
  MaxAttempts = 2
  Popular = {}
  OnDemand = {paper}
  MaxEdits = 1
  MaxErrs = 1
  MaxRequests = 1
  Faults = {"crash", "stall", "claim", "read", "save", "embed"}
  MaxFaults = 1
INVARIANTS
  SettledMeansCurrent
  DeadLetterOnlyAfterBudget
PROPERTY Settles
