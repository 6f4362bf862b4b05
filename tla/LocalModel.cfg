SPECIFICATION Spec
CONSTANTS
  Prompts <- AllPrompts
  Words = {0, 1}
  NoPrompt = NoPrompt
  NoCache = NoCache
  Broken = Broken
  None = None
  Files = {"config", "weights"}
  Versions = {"v1", "v2"}
  Addresses <- ThreeAddresses
  Transcript <- WeightsTranscript
  Briefs = {"", "garden"}
  Steps = 2
  PrefixTokens = 1
  MaxVisible = 4
INVARIANTS
  FreshLogits
  OneTokenFed
  RightModel
CHECK_DEADLOCK FALSE
