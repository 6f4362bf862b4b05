SPECIFICATION Spec
CONSTANTS
  Quarter = 4
  Total = 4
  Precision = 4
  GroupBits = 1
  MinCapsule = 1
  MaxCapsule = 1
  MaxHeader = 2
  ByteBits = 2
  Tables <- TwoTables
  PrefixTokens = 1
  FinishTokens = 1
  TokenGuard = 12
  Changes = 0
  Damages = {"changed"}
INVARIANTS
  MismatchFailsClosed
CHECK_DEADLOCK FALSE
