SPECIFICATION Spec
CONSTANTS
    Gens = {g1, g2, g3}
    Cells = {c1, c2, c3, c4}
    None = None
    Handles = 2
    Habits = {}
SYMMETRY Symmetry
INVARIANTS Counted OneOwner CurrentIsInnermost
PROPERTIES FinishedStaysSo
