\* The two loops the server runs, on layers of both kinds; clients that go
\* away, an engine that may raise before the first layer has appended.
SPECIFICATION HttpSpec
CONSTANTS
  Token = {1, 2, 3}
  Eos = 3
  Lost = 0
  Argmax <- MCArgmax
  TopK <- MCTopK
  Kind <- MCMixed
  Window = 4
  Chunk = 2
  Methods = {"stream", "draft"}
  InitK = 2
  MinK = 2
  MaxK = 2
  Up = 0
  Down = 0
  Interval = 3
  Scale = 2
  Prompts <- MCPrompts
  MaxTokens = 4
  StopLists <- MCStopLists
  FaultLayers = {1}
INVARIANTS ServerTypeOK SlotHonest AsIfCold ExactText AnswerWhole
PROPERTIES Answered
CHECK_DEADLOCK FALSE
