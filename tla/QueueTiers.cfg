SPECIFICATION Spec
CONSTANTS
  w1 = w1
  w2 = w2
  note = note
  paper = paper
  Sources = {note, paper}
  Workers = {w1}
  Nobody = Nobody
  Gone = Gone
  DefaultTier <- Mixed
  MaxAttempts = 2
  Popular = {note}
  OnDemand = {paper}
  MaxEdits = 1
  MaxErrs = 0
  MaxRequests = 1
  Faults = {"claim"}
  MaxFaults = 1
INVARIANTS
  SettledMeansCurrent
