CONSTANTS
  Trips = 2
  Throwables = {"A", "B"}
  Programs <- CalleePrograms
SPECIFICATION Spec
INVARIANTS PhpBehaviour
