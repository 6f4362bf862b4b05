SPECIFICATION Spec
CONSTANTS
  Jobs = {j1, j2, j3}
  NoJob = NoJob
  MaxJobs = 2
  MaxPending = 2
  MaxEvents = 3
SYMMETRY Symmetry
INVARIANTS
  HistoryBounded
PROPERTIES
  HistoryNeverFull
  ActiveKept
  ImplementsService
CHECK_DEADLOCK FALSE
