\* The engine raises at the second of two layers; the slot is committed all the same.
SPECIFICATION HttpSpec
CONSTANTS
  Token = {1, 2, 3}
  Eos = 3
  Lost = 0
  Argmax <- MCArgmax
  TopK <- MCTopK
  Kind <- MCFull
  Window = 4
  Chunk = 2
  Methods = {"stream", "draft"}
  InitK = 2
  MinK = 2
  MaxK = 2
  Up = 0
  Down = 0
  Interval = 3
  Scale = 2
  Prompts <- MCPrompts
  MaxTokens = 4
  StopLists <- MCStopLists
  FaultLayers = {2}
INVARIANTS SlotHonest
CHECK_DEADLOCK FALSE
