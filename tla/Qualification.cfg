SPECIFICATION FairSpec
CONSTANTS
  Cases = 2
  MaxTrials = 3
  Budget = 4
  PrefixTokens = 2
  FinishTokens = 1
  SelfTests = {"ours", "theirs"}
INVARIANTS
  OneBudget
  BundleHonest
  
PROPERTIES
  GenerationEnds
CHECK_DEADLOCK FALSE
