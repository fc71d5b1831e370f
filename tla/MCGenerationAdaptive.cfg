\* The adaptive loop, adjusting its number of draft tokens every third round.
SPECIFICATION CliSpec
CONSTANTS
  Token = {1, 2, 3}
  Eos = 3
  Lost = 0
  Argmax <- MCArgmax
  TopK <- MCTopK
  Kind <- MCFull
  Window = 2
  Chunk = 1
  Methods = {"adaptive"}
  InitK = 2
  MinK = 1
  MaxK = 3
  Up = 1
  Down = 1
  Interval = 3
  Scale = 6
  Prompts <- MCPrompts
  MaxTokens = 6
  MaxNgram = 2
  Cap = 4
  MinDraft = 2
  ReprobeEvery = 2
  Branching <- MCBranching
  Pad = 1
  MaxPad = 2
  Stop = Stop
  Commands <- MCBare
  Printable = 1
  Faults = {}

PROPERTIES ImplementsGreedy
CHECK_DEADLOCK FALSE
