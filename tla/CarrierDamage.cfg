SPECIFICATION Spec
CONSTANTS
  Quarter = 4
  Total = 4
  Precision = 4
  GroupBits = 1
  MinCapsule = 1
  MaxCapsule = 1
  MaxHeader = 2
  ByteBits = 2
  Tables <- TwoTables
  PrefixTokens = 1
  FinishTokens = 1
  TokenGuard = 6
  Changes = 0
  Damages = {"cut", "changed"}
INVARIANTS
  ReaderFollows
  CutFailsClosed
CHECK_DEADLOCK FALSE
