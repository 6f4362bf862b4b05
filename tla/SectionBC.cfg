SPECIFICATION LabelSpec
CONSTANTS
  Quarter = 4
  Total = 4
  Precision = 4
  GroupBits = 1
  MinCapsule = 1
  MaxCapsule = 2
  MaxHeader = 2
  ByteBits = 2
  Tables <- TwoTables
  PrefixTokens = 1
  FinishTokens = 1
  TokenGuard = 8
  Changes = 1
  Damages = {"none"}
INVARIANTS
  SpanningTokenIsBC
CHECK_DEADLOCK FALSE
