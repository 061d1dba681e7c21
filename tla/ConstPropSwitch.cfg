CONSTANTS
  Names = {"x", "p", "q"}
  MaxSteps = 4
  Scripts <- FallingScripts
  Inputs <- MCInputs
SPECIFICATION Spec
INVARIANTS MeaningKept
CHECK_DEADLOCK FALSE
