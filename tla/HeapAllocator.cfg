CONSTANTS
  HeapMax = 300
  Requests <- MCRequests
  MaxAllocs = 5
SPECIFICATION Spec
INVARIANTS Tiled Partitioned Coalesced Accounted
PROPERTIES AbstractSpec
CHECK_DEADLOCK FALSE
