\* Every loop on a store of its own, full-attention layers, no adjustment of the
\* adaptive loop.
SPECIFICATION CliSpec
CONSTANTS
  Token = {1, 2, 3}
  Eos = 3
  Lost = 0
  Argmax <- MCArgmax
  TopK <- MCTopK
  Kind <- MCFull
  Window = 2
  Chunk = 1
  Methods = {"stream", "draft", "fast", "ngram", "adaptive", "optimized", "lookup", "tree",
             "mtp", "eagle", "batch"}
  InitK = 2
  MinK = 1
  MaxK = 3
  Up = 1
  Down = 1
  Interval = 9
  Scale = 6
  Prompts <- MCPrompts
  MaxTokens = 7
  MaxNgram = 2
  Cap = 4
  MinDraft = 2
  ReprobeEvery = 2
  Branching <- MCBranching
  Pad = 1
  MaxPad = 2
  Stop = Stop
  Commands <- MCCommands
  Printable = 3
  Faults = {"load", "pass", "print"}
INVARIANTS LoopsTypeOK DraftAligned PrintedWhole
PROPERTIES ImplementsGreedy
CHECK_DEADLOCK FALSE
