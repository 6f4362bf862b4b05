SPECIFICATION FairSpec
CONSTANTS
  Quarter = 8
  Total = 8
  Vocabulary = {0, 1, 2, 3, 4, 5, 6}
  Logits = {0, 1, 3}
  Unit = 2
  Specials = {4}
  Eos = {4}
  Configs <- SmallConfigs
  Margin = 1
  Temperatures <- TwoTemperatures
INVARIANTS
  RankingExact
  SharesFair
PROPERTIES
  Answered
CHECK_DEADLOCK FALSE
