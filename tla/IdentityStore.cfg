SPECIFICATION Spec
CONSTANTS
  Ids = {i1, i2}
  Savers = {s1, s2}
  None = None
INVARIANTS
  OutcomeTold
  ListedExact
  OpensLater
PROPERTIES
  ImplementsDirectory
SYMMETRY Interchangeable
CHECK_DEADLOCK FALSE
