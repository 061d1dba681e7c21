CONSTANTS
  MaxBlock = 3
  NumSlots = 1
  Locals = {v, w}
  Layouts <- Containers
  Holds <- ContainersHold
  Idioms = {}
  MaxRefs = 9
SPECIFICATION FairSpec
INVARIANTS Counted
PROPERTIES StoreSpec Terminates
