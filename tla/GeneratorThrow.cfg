SPECIFICATION Spec
CONSTANTS
    Gens = {g1, g2}
    Cells = {c1, c2}
    None = None
    Handles = 2
    Habits = {"early"}
PROPERTIES FinishedStaysSo
