\* One thread (the engine's), a warm pool, an expert larger than staging.
SPECIFICATION FairSpec
CONSTANTS
  d1 = d1
  d2 = d2
  e1 = e1
  e2 = e2
  e3 = e3
  c1 = c1
  c2 = c2
  Piece = {d1, e1, e2, e3}
  Expert = {e1, e2, e3}
  Pinned = {}
  Bytes <- MCBytes
  Budget = 5
  ExpertBudget = 3
  StagingCap = 1
  Client = {c1}
  Worker = Worker
  None = None
  WarmPool = TRUE
  MaxFailures = 1
INVARIANTS RegionCaps GuessesAccounted ClosedClean DemandLandsHot
PROPERTIES CallReturns
CHECK_DEADLOCK FALSE
