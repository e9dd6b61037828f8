SPECIFICATION Spec
CONSTANTS
    Artifacts = {p}
    Shared = {p}
    Values = {v1, v2}
    Broken = Broken
    Untracked = Untracked
    NoIndex = NoIndex
    NoTask = NoTask
    NoGen = NoGen
    MaxQueue = 1
    Features = {"alone", "explicit", "discard", "saveas", "fault", "preview"}
SYMMETRY Symmetry
INVARIANTS
    GenerationNamesDocument
    AutosaveNotForgotten
PROPERTIES
    SaveNotReverted
