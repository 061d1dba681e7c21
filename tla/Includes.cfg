CONSTANTS
  MaxDepth = 6
  Main = "main"
  Projects <- GuardedProjects
  Inputs <- Flags
SPECIFICATION Spec
INVARIANTS RunsAsPhp RedeclarationRejected
CHECK_DEADLOCK FALSE
