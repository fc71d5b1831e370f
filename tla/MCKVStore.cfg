\* Three layers, two rows fit in memory, one error on either thread; a store whose
\* pass has raised is closed.
SPECIFICATION FairSpec
CONSTANTS
  NumLayers = 3
  Budget = 2
  Window = 2
  Prefetching = TRUE
  Kept = FALSE
  Faults = {"main", "worker"}
  MaxFaults = 1
  MaxRows = 3
INVARIANTS TypeOK OneHome
PROPERTIES ImplementsMap BudgetEnforced PassEnds
CHECK_DEADLOCK FALSE
