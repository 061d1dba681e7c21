CONSTANTS
  MaxBlock = 3
  NumSlots = 2
  Locals = {v, w}
  Layouts <- Guarded
  Holds <- GuardedHold
  Idioms = {"dtorwrite"}
  MaxRefs = 4
SPECIFICATION Spec
INVARIANTS ReachableLive PendingValid Counted CollectorExact AtRest DestructorSeesProperties
SYMMETRY VarSymmetry
