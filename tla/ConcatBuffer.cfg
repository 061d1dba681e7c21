SPECIFICATION Spec
CONSTANTS
    Texts = {t1, t2, t3}
    Size = 4
    Digits = 2
    MaxLen = 2
    MaxDepth = 3
    Idioms = {}
SYMMETRY Symmetry
INVARIANTS SlicesIntact
