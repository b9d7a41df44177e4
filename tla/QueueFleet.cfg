SPECIFICATION Spec
CONSTANTS
  w1 = w1
  w2 = w2
  note = note
  paper = paper
  Sources = {note}
  Workers = {w1, w2}
  Nobody = Nobody
  Gone = Gone
  DefaultTier <- AllDrafts
  MaxAttempts = 2
  Popular = {}
  OnDemand = {}
  MaxEdits = 1
  MaxErrs = 1
  MaxRequests = 0
  Faults = {"crash", "stall"}
  MaxFaults = 2
INVARIANTS
  TypeOK
  HolderOwns
PROPERTY DeadLettersStay
SYMMETRY Processes
