\* Seven models, packed and then run, with a budget that holds every piece, one
\* that holds them all but for the split, and one that does not.
SPECIFICATION Spec
CONSTANTS
  Configs <- MCConfigs
  MaxPacks = 2
  Options <- MCOptions
  Budgets = {4, 10, 15}
  Bytes <- MCBytes
  FileBytes <- MCFileBytes
  TreeTypes = {"llama", "qwen3_moe"}
  MaxTokens = 2
  MaxRows = 4
  MaxPasses = 2
INVARIANTS PackedWhole AskedOnDisk OwnWeights ConsumersServed MaskFits
PROPERTIES SkippedSyncSafe
CHECK_DEADLOCK FALSE
