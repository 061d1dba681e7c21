CONSTANTS
  Names = {"x", "p", "q"}
  MaxSteps = 4
  Scripts <- GuardedScripts
  Inputs <- MCInputs
SPECIFICATION Spec
INVARIANTS MeaningKept FactsTrue
CHECK_DEADLOCK FALSE
