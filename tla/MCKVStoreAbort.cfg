\* A pass of the server is abandoned half-way by an error; then a rollback.
SPECIFICATION Spec
CONSTANTS
  NumLayers = 3
  Budget = 2
  Window = 2
  Prefetching = TRUE
  Kept = TRUE
  Faults = {"main"}
  MaxFaults = 1
  MaxRows = 2
PROPERTIES NoneResurrected
CHECK_DEADLOCK FALSE
