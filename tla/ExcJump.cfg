CONSTANTS
  Trips = 2
  Throwables = {"A", "B"}
  Programs <- JumpPrograms
SPECIFICATION Spec
INVARIANTS ChainNests
