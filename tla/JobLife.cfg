SPECIFICATION FairSpec
CONSTANTS
  Jobs = {j1, j2}
  NoJob = NoJob
  MaxJobs = 2
  MaxPending = 3
  MaxEvents = 6
INVARIANTS
  TypeOK
  ModelSerialised
  OutcomeBacked
PROPERTIES
  TerminalStable
  CancelBites
  JobSettles
CHECK_DEADLOCK FALSE
