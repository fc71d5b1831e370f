\* A group of two, a third job; uploads, prompts, runs and batched decodes that fail.
SPECIFICATION FairWebSpec
CONSTANTS
  a = a
  b = b
  c = c
  Job = {a, b, c}
  Requests <- MCRequests
  Key <- MCKey
  Alone = Alone
  Name <- MCName
  MaxBatch = 2
  Faults = {"upload", "cap", "run", "decode"}
  Stop = Stop
  Cancellable = {a, b}
  m1 = m1
  m2 = m2
  Config = {m1, m2}
  Engine <- MCEngine
  None = None
  LoadFaults = {"manifest"}
  Packed = {m1, m2}
  TimesOut = TRUE
  Watched = {a}
INVARIANTS TypeOK CancelHonoured OutputsDistinct EngineSound StreamFaithful
PROPERTIES FirstComeFirstServed TerminalIsFinal EveryJobEnds WorkerStops
CHECK_DEADLOCK FALSE
