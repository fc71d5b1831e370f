\* Two threads, one load may raise, one expert pinned.
SPECIFICATION Spec
CONSTANTS
  d1 = d1
  d2 = d2
  e1 = e1
  e2 = e2
  e3 = e3
  Piece = {d1, d2, e1, e2}
  Expert = {e1, e2}
  Pinned = {e1}
  Bytes <- MCBytes
  Budget = 4
  ExpertBudget = 1
  StagingCap = 1
  c1 = c1
  c2 = c2
  Client = {c1, c2}
  Worker = Worker
  None = None
  WarmPool = FALSE
  MaxFailures = 1
SYMMETRY Symmetry
INVARIANTS TypeOK BytesAccounted EachLoadedOnce RegionCaps
PROPERTIES PinnedStay
CHECK_DEADLOCK FALSE
