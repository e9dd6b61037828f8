CONSTANTS
    Keys = {k1, k2}
    Vals = {v1, v2, v3}
    Bad = Bad  None = None  Gone = Gone  Partial = Partial  Broken = Broken
    Zero = Zero  Free = Free  Either = Either
    Disciplined = TRUE
SPECIFICATION Spec
SYMMETRY KeyValueSymmetry
INVARIANTS GatedMeansShown
