SPECIFICATION Spec
CONSTANTS
  Addresses = {a1, a2}
  Submits = {s1, s2}
  Click = Click
  Tokens = 2
  None = None
INVARIANTS
  ConfirmedSent
  ReadyAtRest
CHECK_DEADLOCK FALSE
