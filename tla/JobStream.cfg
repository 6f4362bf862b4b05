SPECIFICATION StreamFairSpec
CONSTANTS
  Jobs = {j1}
  NoJob = NoJob
  MaxJobs = 1
  MaxPending = 1
  MaxEvents = 7
  Clients = {c1}
  Cursors = {0, 3}
INVARIANTS
  StreamTypeOK
  StreamFaithful
  EndMissesOnlyOutcome
  ViewTells
PROPERTIES
  StreamEnds
CHECK_DEADLOCK FALSE
