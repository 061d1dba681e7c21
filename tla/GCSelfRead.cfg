CONSTANTS
  MaxBlock = 3
  NumSlots = 1
  Locals = {v, w}
  Layouts = {"object"}
  Holds <- NodesHold
  Idioms = {"selfread"}
  MaxRefs = 9
SPECIFICATION Spec
INVARIANTS PendingValid
