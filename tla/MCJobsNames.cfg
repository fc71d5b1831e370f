\* Two files of the same name in one batch, nothing fails.
SPECIFICATION WebSpec
CONSTANTS
  a = a
  b = b
  c = c
  Job = {a, b}
  Requests <- MCPair
  Key <- MCSameKey
  Alone = Alone
  Name <- MCSameName
  MaxBatch = 2
  Faults = {}
  Stop = Stop
  Cancellable = {a, b}
  m1 = m1
  m2 = m2
  Config = {m1, m2}
  Engine <- MCEngine
  None = None
  LoadFaults = {"manifest"}
  Packed = {m1, m2}
  TimesOut = FALSE
  Watched = {a}
INVARIANTS OutputsDistinct
CHECK_DEADLOCK FALSE
