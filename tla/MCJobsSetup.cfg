\* The output directory cannot be made, or the budget cannot be read.
SPECIFICATION FairWebSpec
CONSTANTS
  a = a
  b = b
  c = c
  Job = {a, b, c}
  Requests <- MCSingles
  Key <- MCKey
  Alone = Alone
  Name <- MCName
  MaxBatch = 2
  Faults = {"setup"}
  Stop = Stop
  Cancellable = {a, b}
  m1 = m1
  m2 = m2
  Config = {m1, m2}
  Engine <- MCEngine
  None = None
  LoadFaults = {"manifest"}
  Packed = {m1, m2}
  TimesOut = FALSE
  Watched = {a}
PROPERTIES EveryJobEnds
CHECK_DEADLOCK FALSE
